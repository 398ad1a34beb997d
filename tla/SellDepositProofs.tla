------------------------- MODULE SellDepositProofs -------------------------
(***************************************************************************)
(* Theorems of SellDeposit, for any orders, transfers, watchers, bounds    *)
(* and errors.  A deposit is credited on what a watcher read earlier: the  *)
(* head, the list of orders and the order itself may all have changed when *)
(* it writes.  What stays true of it is that the blocks it scans are deep  *)
(* enough for ever, and that the transfer it holds was checked against the *)
(* order it holds; the rest is decided again by the write.  The second     *)
(* part is about MobileTrade, the trades of the app and the deposits of    *)
(* bitcoin that fund them.                                                 *)
(***************************************************************************)
EXTENDS SellDeposit, MobileTrade, FiniteSetTheorems, TLAPS

BlocksAreMined == \A t \in Txs : block[t] <= head

(* What a watcher goes on from: a range that had its confirmations when it *)
(* was read, logs of that range, and an order the transfer was checked     *)
(* against.                                                                *)
ScanIsSound(p) ==
    /\ poll[p].at # "idle" => poll[p].to + Confirmations <= head
    /\ poll[p].at \in {"idle", "list"} => poll[p].todo = {}
    /\ poll[p].at \in {"match", "write"} => \A t \in poll[p].todo : block[t] \in BlockRange(p)
    /\ poll[p].at = "write" =>
         /\ poll[p].tx \in poll[p].todo
         /\ \E o \in Orders :
              /\ poll[p].order = {o} /\ OrderAddr[o] = TxAddr[poll[p].tx]
              /\ poll[p].act = "confirm" => TxAmount[poll[p].tx] >= OrderAmount[o]

ScansAreSound == \A p \in Pollers : ScanIsSound(p)

IndInv == /\ TypeOK /\ BlocksAreMined /\ ScansAreSound
          /\ PaidByConfirmedDeposit /\ OneOrderPerTx

-----------------------------------------------------------------------------
LEMMA InitIndInv == Init => IndInv
  <1> SUFFICES ASSUME Init PROVE IndInv
    OBVIOUS
  <1> USE SellDepositAssumption DEF Init, Idle
  <1>1. TypeOK
    <2>1. ord \in [Orders -> Status] /\ dtx \in [Orders -> Txs \cup {NoTx}]
      BY DEF Status
    <2>2. poll \in [Pollers -> Polls]
      BY DEF Polls
    <2>3. /\ cursor \in 0..MaxBlock /\ head \in 0..MaxBlock /\ errors \in 0..MaxErrors
          /\ block \in [Txs -> 0..MaxBlock]
      OBVIOUS
    <2> QED
      BY <2>1, <2>2, <2>3 DEF TypeOK
  <1>2. BlocksAreMined /\ ScansAreSound
    BY DEF BlocksAreMined, ScansAreSound, ScanIsSound
  <1>3. PaidByConfirmedDeposit /\ OneOrderPerTx
    BY DEF PaidByConfirmedDeposit, OneOrderPerTx
  <1> QED
    BY <1>1, <1>2, <1>3 DEF IndInv

(* A watcher that takes the next log keeps its range and the other logs.   *)
LEMMA NextLogKeeps ==
  ASSUME IndInv, NEW p \in Pollers, NEW t, NextLog(p, t), UNCHANGED chain,
         poll[p].at \in {"match", "write"}
  PROVE  poll' \in [Pollers -> Polls] /\ ScansAreSound'
  <1>1. /\ poll' \in [Pollers -> Polls]
        /\ \A q \in Pollers \ {p} : poll'[q] = poll[q]
        /\ poll'[p].at = "match" /\ poll'[p].from = poll[p].from /\ poll'[p].to = poll[p].to
        /\ poll'[p].todo = poll[p].todo \ {t}
    <2> DEFINE to == [poll[p] EXCEPT !.todo = poll[p].todo \ {t}, !.at = "match", !.tx = NoTx,
                                     !.order = {}, !.act = "none"]
    <2>1. poll \in [Pollers -> Polls]
      BY DEF IndInv, TypeOK
    <2>2. /\ to \in Polls /\ to.at = "match" /\ to.from = poll[p].from
          /\ to.to = poll[p].to /\ to.todo = poll[p].todo \ {t}
      <3>1. poll[p] \in Polls
        BY <2>1
      <3>2. poll[p].todo \ {t} \in SUBSET Txs
        BY <3>1 DEF Polls
      <3> QED
        BY <3>1, <3>2 DEF Polls
    <2>3. poll' = [poll EXCEPT ![p] = to]
      BY DEF NextLog
    <2> HIDE DEF to
    <2> QED
      BY <2>1, <2>2, <2>3
  <1>2. ScansAreSound'
    BY <1>1 DEF IndInv, ScansAreSound, ScanIsSound, BlockRange, chain
  <1> QED
    BY <1>1, <1>2

(* What a watcher does besides concerns no other watcher.                  *)
LEMMA OneWatcherMoves ==
  ASSUME ScansAreSound, UNCHANGED chain, NEW p \in Pollers, ScanIsSound(p)',
         \A q \in Pollers \ {p} : poll'[q] = poll[q]
  PROVE  ScansAreSound'
  BY DEF ScansAreSound, ScanIsSound, BlockRange, chain

(* The unique index keeps a transfer with one order, and an order goes to  *)
(* payout only with the transfer that the write brings.                    *)
LEMMA WriteDepositKeeps ==
  ASSUME IndInv, NEW o \in Orders, NEW t \in Txs, NEW s \in Status,
         WriteDeposit(o, t, s), UNCHANGED chain,
         s = "pago" => /\ TxAddr[t] = OrderAddr[o] /\ TxAmount[t] >= OrderAmount[o]
                       /\ block[t] > 0 /\ block[t] + Confirmations <= head
  PROVE  /\ ord' \in [Orders -> Status] /\ dtx' \in [Orders -> Txs \cup {NoTx}]
         /\ PaidByConfirmedDeposit' /\ OneOrderPerTx'
  <1> USE SellDepositAssumption
  <1>1. ord' \in [Orders -> Status] /\ dtx' \in [Orders -> Txs \cup {NoTx}]
    BY DEF WriteDeposit, IndInv, TypeOK
  <1>2. OneOrderPerTx'
    BY DEF WriteDeposit, UsedElsewhere, IndInv, TypeOK, OneOrderPerTx
  <1>3. PaidByConfirmedDeposit'
    BY DEF WriteDeposit, IndInv, TypeOK, PaidByConfirmedDeposit, chain
  <1> QED
    BY <1>1, <1>2, <1>3

(* Sellers, time, the chain and the payout: no transfer changes its order, *)
(* and no order becomes paid.                                              *)
LEMMA OutsideIndInv ==
  ASSUME IndInv,
         \/ \E S \in SUBSET Txs : Mine(S)
         \/ \E o \in Orders : CreateOrder(o) \/ RateLockExpires(o) \/ PayoutConcludes(o)
         \/ ExpireStaleSellOrders
  PROVE  IndInv'
  <1> USE SellDepositAssumption DEF IndInv, chain
  <1>1. ASSUME NEW S \in SUBSET Txs, Mine(S)
        PROVE  IndInv'
    <2>1. TypeOK' /\ BlocksAreMined'
      BY <1>1 DEF Mine, TypeOK, BlocksAreMined
    <2>2. \A t \in Txs : block[t] > 0 => block'[t] = block[t]
      BY <1>1 DEF Mine, TypeOK
    <2>3. ScansAreSound'
      <3> SUFFICES ASSUME NEW p \in Pollers PROVE ScanIsSound(p)'
        BY DEF ScansAreSound
      <3>1. poll' = poll /\ head' = head + 1
        BY <1>1 DEF Mine
      <3>2. poll[p].from \in Nat /\ poll[p].to \in Nat /\ poll[p].todo \subseteq Txs
        BY DEF TypeOK, Polls
      <3> QED
        BY <2>2, <3>1, <3>2 DEF ScansAreSound, ScanIsSound, BlockRange, TypeOK
    <2>4. PaidByConfirmedDeposit' /\ OneOrderPerTx'
      BY <1>1, <2>2 DEF Mine, PaidByConfirmedDeposit, OneOrderPerTx, TypeOK
    <2> QED
      BY <2>1, <2>3, <2>4
  <1>2. ASSUME \/ \E o \in Orders : CreateOrder(o) \/ RateLockExpires(o) \/ PayoutConcludes(o)
               \/ ExpireStaleSellOrders
        PROVE  IndInv'
    <2>1. TypeOK'
      BY <1>2 DEF CreateOrder, RateLockExpires, PayoutConcludes, ExpireStaleSellOrders,
                  TypeOK, Status, Funding
    <2>2. /\ UNCHANGED <<dtx, chain, poll>>
          /\ \A o \in Orders : ord'[o] = "pago" => ord[o] = "pago"
      BY <1>2 DEF CreateOrder, RateLockExpires, PayoutConcludes, ExpireStaleSellOrders, TypeOK
    <2>3. BlocksAreMined' /\ ScansAreSound'
      BY <2>2 DEF BlocksAreMined, ScansAreSound, ScanIsSound, BlockRange
    <2>4. PaidByConfirmedDeposit' /\ OneOrderPerTx'
      BY <2>2 DEF PaidByConfirmedDeposit, OneOrderPerTx
    <2> QED
      BY <2>1, <2>3, <2>4
  <1> QED
    BY <1>1, <1>2

(* A scan: its range is confirmed because the head only grows, its logs    *)
(* are those of the range, and the checks come before the write.           *)
LEMMA ScanIndInv ==
  ASSUME IndInv, NEW p \in Pollers,
         \/ ReadHead(p) \/ ListAndFilter(p) \/ LeaveUnmatched(p) \/ CheckDeposit(p)
         \/ Recheck(p) \/ SaveCursor(p) \/ PollFails(p) \/ LogHandlingFails(p)
  PROVE  IndInv'
  <1>1. TypeOK /\ ScansAreSound /\ ScanIsSound(p) /\ poll \in [Pollers -> Polls]
    BY DEF IndInv, ScansAreSound, TypeOK
  <1>2. poll[p].at \in {"idle", "list", "match", "write"} /\ poll[p].todo \subseteq Txs
        /\ poll[p].to \in 0..MaxBlock
    BY <1>1 DEF Polls
  <1>3. ASSUME UNCHANGED <<ord, dtx, expired, incident, chain>>, cursor' \in 0..MaxBlock,
               errors' \in 0..MaxErrors, poll' \in [Pollers -> Polls], ScansAreSound'
        PROVE  IndInv'
    BY <1>3 DEF IndInv, TypeOK, BlocksAreMined, PaidByConfirmedDeposit, OneOrderPerTx, chain
  <1>4. ASSUME NEW t, poll[p].at \in {"match", "write"}, NextLog(p, t),
               UNCHANGED <<ord, dtx, expired, incident, cursor, chain>>, errors' \in 0..MaxErrors
        PROVE  IndInv'
    BY <1>1, <1>3, <1>4, NextLogKeeps DEF TypeOK
  <1>5. ASSUME poll' = [poll EXCEPT ![p] = Idle], UNCHANGED chain
        PROVE  poll' \in [Pollers -> Polls] /\ ScansAreSound'
    <2>1. Idle \in Polls /\ Idle.at = "idle" /\ Idle.todo = {}
      BY SellDepositAssumption DEF Idle, Polls
    <2> QED
      BY <1>1, <1>5, <2>1 DEF ScansAreSound, ScanIsSound, BlockRange, chain
  <1>6. CASE ReadHead(p)
    <2>1. PICK from \in 0..MaxBlock, to \in 0..MaxBlock :
            /\ to + Confirmations <= head
            /\ poll' = [poll EXCEPT ![p] = [Idle EXCEPT !.at = "list", !.from = from, !.to = to]]
      <3>1. PICK failed \in BOOLEAN :
              LET from == GetCursor(ScanHead, failed)
                  to   == IF from + ScanRange < ScanHead THEN from + ScanRange ELSE ScanHead IN
              /\ head > Confirmations /\ from < ScanHead
              /\ poll' = [poll EXCEPT ![p] = [Idle EXCEPT !.at = "list", !.from = from, !.to = to]]
        BY <1>6 DEF ReadHead
      <3>2. ScanHead \in 0..MaxBlock /\ ScanHead + Confirmations = head
        BY <1>1, <3>1, SellDepositAssumption DEF ScanHead, TypeOK
      <3>3. PICK from \in 0..MaxBlock : from = GetCursor(ScanHead, failed)
        BY <1>1, <3>1, <3>2, SellDepositAssumption DEF GetCursor, SubtractFloor, TypeOK
      <3>4. PICK to \in 0..MaxBlock :
              /\ to = IF from + ScanRange < ScanHead THEN from + ScanRange ELSE ScanHead
              /\ to + Confirmations <= head
        BY <1>1, <3>2, <3>3, SellDepositAssumption DEF TypeOK
      <3> QED
        BY <3>1, <3>3, <3>4
    <2>2. /\ poll' \in [Pollers -> Polls] /\ \A q \in Pollers \ {p} : poll'[q] = poll[q]
          /\ poll'[p].at = "list" /\ poll'[p].to = to /\ poll'[p].todo = {}
      BY <1>1, <2>1 DEF Idle, Polls
    <2>3. UNCHANGED <<ord, dtx, expired, incident, cursor, chain>> /\ errors' \in 0..MaxErrors
      <3>1. PICK failed \in {b \in BOOLEAN : b => errors < MaxErrors} :
              /\ errors' = IF failed THEN errors + 1 ELSE errors
              /\ UNCHANGED <<ord, dtx, expired, incident, cursor, chain>>
        BY <1>6, Zenon DEF ReadHead
      <3>2. failed => errors < MaxErrors
        OBVIOUS
      <3>3. errors \in 0..MaxErrors
        BY <1>1 DEF TypeOK
      <3>4. CASE failed
        BY <3>1, <3>2, <3>3, <3>4, SellDepositAssumption
      <3>5. CASE ~failed
        BY <3>1, <3>3, <3>5
      <3> QED
        BY <3>4, <3>5
    <2>4. ScansAreSound'
      BY <1>1, <2>1, <2>2, <2>3, OneWatcherMoves DEF ScanIsSound, chain
    <2> QED
      BY <1>1, <1>3, <2>2, <2>3, <2>4 DEF TypeOK
  <1>7. CASE ListAndFilter(p)
    <2>1. PICK pend \in SUBSET Orders, todo \in SUBSET Txs :
            /\ \A t \in todo : block[t] \in BlockRange(p)
            /\ poll' = [poll EXCEPT ![p] =
                          [poll[p] EXCEPT !.at = "match", !.pend = pend, !.todo = todo]]
      BY <1>7 DEF ListAndFilter
    <2>2. /\ poll' \in [Pollers -> Polls] /\ \A q \in Pollers \ {p} : poll'[q] = poll[q]
          /\ poll'[p].at = "match" /\ poll'[p].from = poll[p].from /\ poll'[p].to = poll[p].to
          /\ poll'[p].todo = todo
      <3> DEFINE to == [poll[p] EXCEPT !.at = "match", !.pend = pend, !.todo = todo]
      <3>1. /\ to \in Polls /\ to.at = "match" /\ to.from = poll[p].from
            /\ to.to = poll[p].to /\ to.todo = todo
        BY <1>1 DEF Polls
      <3>2. poll' = [poll EXCEPT ![p] = to]
        BY <2>1
      <3> HIDE DEF to
      <3> QED
        BY <1>1, <3>1, <3>2
    <2>3. UNCHANGED <<ord, dtx, expired, incident, cursor, chain, errors>> /\ poll[p].at = "list"
      BY <1>7 DEF ListAndFilter
    <2>4. ScansAreSound'
      BY <1>1, <2>1, <2>2, <2>3, OneWatcherMoves DEF ScanIsSound, BlockRange, chain
    <2> QED
      BY <1>1, <1>3, <2>2, <2>3, <2>4 DEF TypeOK
  <1>8. CASE LeaveUnmatched(p)
    BY <1>1, <1>4, <1>8 DEF LeaveUnmatched, TypeOK
  <1>9. CASE CheckDeposit(p)
    <2>1. PICK t \in poll[p].todo, o \in Orders :
            /\ poll[p].at = "match" /\ Candidates(p, t) = {o}
            /\ IF ord[o] \notin Funding \/ dtx[o] = t
               THEN NextLog(p, t)
               ELSE poll' = [poll EXCEPT ![p] = [poll[p] EXCEPT
                        !.at = "write", !.tx = t, !.order = {o}, !.act = FirstWrite(o, t)]]
            /\ UNCHANGED <<ord, dtx, expired, incident, cursor, chain, errors>>
      BY <1>9 DEF CheckDeposit
    <2>2. CASE NextLog(p, t)
      BY <1>1, <1>4, <2>1, <2>2 DEF TypeOK
    <2>3. ASSUME poll' = [poll EXCEPT ![p] = [poll[p] EXCEPT
                        !.at = "write", !.tx = t, !.order = {o}, !.act = FirstWrite(o, t)]]
          PROVE  IndInv'
      <3>1. t \in Txs
        BY <1>2
      <3>2. PICK act \in {"replay", "under", "late", "confirm"} :
              act = FirstWrite(o, t) /\ (act = "confirm" => TxAmount[t] >= OrderAmount[o])
        BY <3>1, SellDepositAssumption DEF FirstWrite
      <3>3. OrderAddr[o] = TxAddr[t]
        BY <2>1 DEF Candidates
      <3>4. poll' = [poll EXCEPT ![p] = [poll[p] EXCEPT !.at = "write", !.tx = t,
                                                       !.order = {o}, !.act = act]]
        BY <2>3, <3>2
      <3>5. /\ poll' \in [Pollers -> Polls] /\ \A q \in Pollers \ {p} : poll'[q] = poll[q]
            /\ poll'[p].at = "write" /\ poll'[p].from = poll[p].from /\ poll'[p].to = poll[p].to
            /\ poll'[p].todo = poll[p].todo /\ poll'[p].tx = t /\ poll'[p].order = {o}
            /\ poll'[p].act = act
        <4> DEFINE to == [poll[p] EXCEPT !.at = "write", !.tx = t, !.order = {o}, !.act = act]
        <4>1. /\ to \in Polls /\ to.at = "write" /\ to.from = poll[p].from
              /\ to.to = poll[p].to /\ to.todo = poll[p].todo /\ to.tx = t
              /\ to.order = {o} /\ to.act = act
          BY <1>1, <3>1 DEF Polls
        <4>2. poll' = [poll EXCEPT ![p] = to]
          BY <3>4
        <4> HIDE DEF to
        <4> QED
          BY <1>1, <4>1, <4>2
      <3>6. ScanIsSound(p)'
        BY <1>1, <2>1, <3>2, <3>3, <3>5 DEF ScanIsSound, BlockRange, chain
      <3>7. ScansAreSound'
        BY <1>1, <2>1, <3>5, <3>6, OneWatcherMoves
      <3> QED
        BY <1>1, <1>3, <2>1, <3>5, <3>7 DEF TypeOK
    <2> QED
      BY <2>1, <2>2, <2>3
  <1>10. CASE Recheck(p)
    <2>1. PICK o \in Orders, t \in Txs :
            /\ Writing(p, "recheck", o, t)
            /\ IF o \in expired THEN poll' = [poll EXCEPT ![p].act = "late"] ELSE NextLog(p, t)
            /\ UNCHANGED <<ord, dtx, expired, incident, cursor, chain, errors>>
      BY <1>10 DEF Recheck
    <2>2. CASE NextLog(p, t)
      BY <1>1, <1>4, <2>1, <2>2 DEF TypeOK, Writing
    <2>3. ASSUME poll' = [poll EXCEPT ![p].act = "late"]
          PROVE  IndInv'
      <3>1. /\ poll' \in [Pollers -> Polls] /\ \A q \in Pollers \ {p} : poll'[q] = poll[q]
            /\ poll'[p].at = poll[p].at /\ poll'[p].from = poll[p].from /\ poll'[p].to = poll[p].to
            /\ poll'[p].todo = poll[p].todo /\ poll'[p].tx = poll[p].tx
            /\ poll'[p].order = poll[p].order /\ poll'[p].act = "late"
        BY <1>1, <2>3 DEF Polls
      <3>2. ScansAreSound'
        BY <1>1, <2>1, <3>1, OneWatcherMoves DEF ScanIsSound, BlockRange, chain
      <3> QED
        BY <1>1, <1>3, <2>1, <3>1, <3>2 DEF TypeOK
    <2> QED
      BY <2>1, <2>2, <2>3
  <1>11. CASE SaveCursor(p)
    BY <1>1, <1>2, <1>3, <1>5, <1>11 DEF SaveCursor, TypeOK
  <1>12. CASE PollFails(p)
    BY <1>1, <1>3, <1>5, <1>12, SellDepositAssumption DEF PollFails, TypeOK
  <1>13. CASE LogHandlingFails(p)
    <2>1. PICK t \in poll[p].todo : /\ errors < MaxErrors
                                    /\ poll[p].at = "match" \/ poll[p].tx = t
                                    /\ errors' = errors + 1
                                    /\ NextLog(p, t)
                                    /\ UNCHANGED <<ord, dtx, expired, incident, cursor, chain>>
      BY <1>13 DEF LogHandlingFails
    <2>2. errors' \in 0..MaxErrors
      BY <1>1, <2>1, SellDepositAssumption DEF TypeOK
    <2>3. poll[p].at \in {"match", "write"}
      BY <1>1, <1>2, <2>1 DEF ScanIsSound
    <2> QED
      BY <1>4, <2>1, <2>2, <2>3
  <1> QED
    BY <1>6, <1>7, <1>8, <1>9, <1>10, <1>11, <1>12, <1>13

(* The writes of confirmDeposit.                                           *)
LEMMA WriteIndInv ==
  ASSUME IndInv, NEW p \in Pollers,
         BlockReplay(p) \/ MarkUnderpaid(p) \/ RecordExpired(p) \/ Confirm(p)
  PROVE  IndInv'
  <1>1. TypeOK /\ ScansAreSound /\ ScanIsSound(p) /\ poll \in [Pollers -> Polls]
        /\ PaidByConfirmedDeposit /\ OneOrderPerTx /\ BlocksAreMined
    BY DEF IndInv, ScansAreSound, TypeOK
  <1>2. ASSUME NEW o \in Orders, NEW t \in Txs, NEW s \in Status, poll[p].at = "write",
               WriteDeposit(o, t, s) \/ UNCHANGED <<ord, dtx>>, NextLog(p, t),
               s = "pago" => /\ TxAddr[t] = OrderAddr[o] /\ TxAmount[t] >= OrderAmount[o]
                             /\ block[t] > 0 /\ block[t] + Confirmations <= head,
               incident' \subseteq Orders, UNCHANGED <<expired, cursor, chain, errors>>
        PROVE  IndInv'
    <2>1. poll' \in [Pollers -> Polls] /\ ScansAreSound'
      BY <1>2, NextLogKeeps
    <2>2. /\ ord' \in [Orders -> Status] /\ dtx' \in [Orders -> Txs \cup {NoTx}]
          /\ PaidByConfirmedDeposit' /\ OneOrderPerTx'
      <3>1. CASE WriteDeposit(o, t, s)
        BY <1>2, <3>1, WriteDepositKeeps
      <3>2. CASE UNCHANGED <<ord, dtx>>
        BY <1>1, <1>2, <3>2 DEF TypeOK, PaidByConfirmedDeposit, OneOrderPerTx, chain
      <3> QED
        BY <1>2, <3>1, <3>2
    <2> QED
      BY <1>1, <1>2, <2>1, <2>2 DEF IndInv, TypeOK, BlocksAreMined, chain
  <1>3. CASE BlockReplay(p)
    BY <1>1, <1>2, <1>3 DEF BlockReplay, Writing, Status, TypeOK
  <1>4. CASE MarkUnderpaid(p)
    BY <1>1, <1>2, <1>4 DEF MarkUnderpaid, Writing, Status, Funding, TypeOK
  <1>5. CASE RecordExpired(p)
    BY <1>1, <1>2, <1>5 DEF RecordExpired, Writing, Status, TypeOK
  <1>6. CASE Confirm(p)
    <2>1. PICK o \in Orders, t \in Txs :
            /\ Writing(p, "confirm", o, t)
            /\ IF Fundable(o)
               THEN WriteDeposit(o, t, "pago") /\ NextLog(p, t)
               ELSE /\ UNCHANGED <<ord, dtx>>
                    /\ poll' = [poll EXCEPT ![p].act = "recheck"]
            /\ UNCHANGED <<expired, incident, cursor, chain, errors>>
      BY <1>6 DEF Confirm
    <2>2. CASE Fundable(o)
      <3>1. /\ TxAddr[t] = OrderAddr[o] /\ TxAmount[t] >= OrderAmount[o]
            /\ block[t] \in BlockRange(p) /\ poll[p].to + Confirmations <= head
        BY <1>1, <2>1 DEF ScanIsSound, Writing
      <3>2. block[t] > 0 /\ block[t] + Confirmations <= head
        <4>1. poll[p].to \in Nat /\ poll[p].from \in Nat /\ head \in Nat /\ block[t] \in Nat
          BY <1>1, SellDepositAssumption DEF TypeOK, Polls
        <4> QED
          BY <3>1, <4>1, SellDepositAssumption DEF BlockRange
      <3> QED
        BY <1>1, <1>2, <2>1, <2>2, <3>1, <3>2 DEF Writing, Status, TypeOK
    <2>3. CASE ~Fundable(o)
      <3>1. /\ poll' \in [Pollers -> Polls] /\ \A q \in Pollers \ {p} : poll'[q] = poll[q]
            /\ poll'[p].at = poll[p].at /\ poll'[p].from = poll[p].from /\ poll'[p].to = poll[p].to
            /\ poll'[p].todo = poll[p].todo /\ poll'[p].tx = poll[p].tx
            /\ poll'[p].order = poll[p].order /\ poll'[p].act = "recheck"
        BY <1>1, <2>1, <2>3 DEF Polls
      <3>2. ScansAreSound'
        BY <1>1, <2>1, <3>1, OneWatcherMoves DEF ScanIsSound, BlockRange, chain
      <3> QED
        BY <1>1, <2>1, <2>3, <3>1, <3>2
           DEF IndInv, TypeOK, BlocksAreMined, PaidByConfirmedDeposit, OneOrderPerTx, chain
    <2> QED
      BY <2>2, <2>3
  <1> QED
    BY <1>3, <1>4, <1>5, <1>6

LEMMA NextIndInv == IndInv /\ [Next]_vars => IndInv'
  <1> SUFFICES ASSUME IndInv, [Next]_vars PROVE IndInv'
    OBVIOUS
  <1>1. CASE UNCHANGED vars
    BY <1>1 DEF vars, IndInv, TypeOK, BlocksAreMined, ScansAreSound, ScanIsSound, BlockRange,
                PaidByConfirmedDeposit, OneOrderPerTx
  <1>2. ASSUME NEW p \in Pollers, PollStep(p) \/ PollFails(p) \/ LogHandlingFails(p)
        PROVE  IndInv'
    BY <1>2, ScanIndInv, WriteIndInv DEF PollStep
  <1> QED
    BY <1>1, <1>2, OutsideIndInv DEF Next

-----------------------------------------------------------------------------
LEMMA Invariance == Spec => []IndInv
  BY InitIndInv, NextIndInv, PTL DEF Spec

(* The statuses, cursors and scans are of their types.                     *)
THEOREM TypeCorrect == Spec => []TypeOK
  BY Invariance, PTL DEF IndInv

(* However the watchers of the replicas interleave with each other, with   *)
(* the expiry and with database errors, no transfer funds two orders.      *)
THEOREM DepositFundsOne == Spec => []OneOrderPerTx
  BY Invariance, PTL DEF IndInv

(* An order goes to payout only on a sufficient transfer to its address    *)
(* that is deep enough now, whatever was read when it was scanned.         *)
THEOREM PaidWasDeposited == Spec => []PaidByConfirmedDeposit
  BY Invariance, PTL DEF IndInv

(* An expired order is never sent to payout, though its rate lock may run  *)
(* out after the watcher has checked it.                                   *)
THEOREM ExpiredStaysUnpaid == Spec => NoPayoutAfterExpiry
  <1>1. IndInv /\ [Next]_vars =>
          [\A o \in expired : ord[o] # "pago" => ord'[o] # "pago"]_vars
    <2> SUFFICES ASSUME IndInv, Next, NEW o \in expired, ord[o] # "pago", ord'[o] = "pago"
                 PROVE  FALSE
      BY DEF vars
    <2>1. ord \in [Orders -> Status] /\ o \in Orders
      BY DEF IndInv, TypeOK
    <2>2. PICK p \in Pollers : Confirm(p)
      <3>1. ASSUME NEW p \in Pollers, PollStep(p), ~Confirm(p)
            PROVE  FALSE
        <4>1. ord' # ord
          BY <2>1
        <4>2. CASE BlockReplay(p) \/ MarkUnderpaid(p) \/ RecordExpired(p) \/ Recheck(p)
          BY <2>1, <4>2 DEF BlockReplay, MarkUnderpaid, RecordExpired, Recheck, WriteDeposit
        <4> QED
          BY <3>1, <4>1, <4>2 DEF PollStep, ReadHead, ListAndFilter, PollFails, LeaveUnmatched,
                                  CheckDeposit, LogHandlingFails, SaveCursor
      <3>2. ASSUME NEW x \in Orders, CreateOrder(x) \/ RateLockExpires(x) \/ PayoutConcludes(x)
            PROVE  FALSE
        BY <2>1, <3>2 DEF CreateOrder, RateLockExpires, PayoutConcludes
      <3>3. ~ExpireStaleSellOrders /\ \A S \in SUBSET Txs : ~Mine(S)
        BY <2>1 DEF ExpireStaleSellOrders, Mine
      <3>4. \A p \in Pollers : ~PollFails(p) /\ ~LogHandlingFails(p)
        BY <2>1 DEF PollFails, LogHandlingFails
      <3> QED
        BY <3>1, <3>2, <3>3, <3>4 DEF Next
    <2>3. PICK x \in Orders, t \in Txs :
            IF Fundable(x) THEN WriteDeposit(x, t, "pago") ELSE UNCHANGED <<ord, dtx>>
      BY <2>2 DEF Confirm
    <2> QED
      BY <2>1, <2>3 DEF WriteDeposit, Fundable
  <1> QED
    BY <1>1, Invariance, PTL DEF Spec, NoPayoutAfterExpiry

-----------------------------------------------------------------------------
(* Mobile trades (MobileTrade).  A request holds its key, and past the     *)
(* quote the quote; a quote has one funding row; a funded sale has an      *)
(* order, and one that is confirmed an output that is deep enough.         *)
RequestsAreTyped == \A c \in Calls : call[c].at # "idle" =>
    /\ call[c].key \in Keys /\ call[c].q \in Quotes
    /\ op[call[c].key].st = "processing" /\ op[call[c].key].body = call[c].q
KeysAdmitOne == \A c, d \in Calls :
    call[c].at # "idle" /\ call[d].at # "idle" /\ call[c].key = call[d].key => c = d
QuotesServeOne == \A c \in Calls : Past(c) => by[call[c].q] = call[c].key
Made(q) == \E o \in TradeOrders : order[o].q = q
FundedBy(q) == \E o \in TradeOrders : fund[o].st # "none" /\ order[o].q = q
StagesFit == \A c \in Calls, q \in Quotes : call[c].q = q =>
    /\ call[c].at = "fund" => call[c].o \in TradeOrders /\ order[call[c].o].q = q
    /\ call[c].at \in {"forward", "degraded"} => SideOf[q] # "btc"
    /\ call[c].at = "ok" => Made(q) /\ (SideOf[q] = "btc" => FundedBy(q))
CompletedAre == \A k \in Keys : op[k].st = "completed" =>
    /\ op[k].body \in Quotes /\ by[op[k].body] = k /\ Made(op[k].body)
    /\ SideOf[op[k].body] = "btc" => FundedBy(op[k].body)
FundedOnce == \A o, p \in TradeOrders :
    fund[o].st # "none" /\ fund[p].st # "none" /\ order[o].q = order[p].q => o = p
FundedAreMade == \A o \in TradeOrders : order[o].q = Null => fund[o].st = "none" /\ order[o].st = "none"
ConfirmedAreDeep ==
    /\ \A o \in TradeOrders : fund[o].st = "confirmed" =>
         /\ fund[o].out \in Outpoints /\ output[fund[o].out].deep
         /\ output[fund[o].out].sats = Expected[order[o].q]
    /\ \A u \in Outpoints : output[u].deep => output[u].sats > 0
    /\ \A m \in seen : output[m[2]].sats > 0 /\ (m[3] = "confirmed" => output[m[2]].deep)
    /\ \A m \in ready : fund[m[2]].st = "confirmed"
PaidAreFunded ==
    /\ \A o \in TradeOrders : order[o].st = "pago" => fund[o].st = "confirmed" /\ fund[o].out = order[o].tx
    /\ \A o, p \in TradeOrders : order[o].st = "pago" /\ order[p].st = "pago"
                                    /\ order[o].tx = order[p].tx => o = p
GateInv == RequestsAreTyped /\ KeysAdmitOne /\ QuotesServeOne
OrdersInv == StagesFit /\ CompletedAre /\ FundedOnce /\ FundedAreMade
DepositsInv == ConfirmedAreDeep /\ PaidAreFunded
TradeInv == TradeTypeOK /\ GateInv /\ OrdersInv /\ DepositsInv

LEMMA TradeInitInv == TradeInit => TradeInv
  <1> SUFFICES ASSUME TradeInit PROVE TradeInv
    OBVIOUS
  <1>1. TradeTypeOK
    BY DEF TradeInit, TradeTypeOK, NoOrder, NoFund, Unserved, OrderStates, FundStates, Stages
  <1>2. GateInv
    BY DEF TradeInit, GateInv, RequestsAreTyped, KeysAdmitOne, QuotesServeOne, Past, Unserved
  <1>3. OrdersInv
    BY DEF TradeInit, OrdersInv, StagesFit, CompletedAre, FundedOnce, FundedAreMade, NoOrder, NoFund, Unserved
  <1>4. DepositsInv
    BY DEF TradeInit, DepositsInv, ConfirmedAreDeep, PaidAreFunded, NoOrder, NoFund
  <1> QED
    BY <1>1, <1>2, <1>3, <1>4 DEF TradeInv

-----------------------------------------------------------------------------
(* The steps of one request.                                               *)
Served == [at : Stages, key : Keys \cup {Null}, q : Quotes \cup {Null}, o : TradeOrders \cup {Null}]

LEMMA CallMoves ==
  ASSUME TradeTypeOK, NEW c \in Calls, NEW to \in Served, call' = [call EXCEPT ![c] = to]
  PROVE  /\ call' \in [Calls -> Served] /\ call'[c] = to
         /\ \A d \in Calls : d # c => call'[d] = call[d]
  BY DEF TradeTypeOK, Served

LEMMA CallGoes ==
  ASSUME TradeTypeOK, NEW c \in Calls, NEW at \in Stages, Goes(c, at)
  PROVE  /\ call' \in [Calls -> Served]
         /\ call'[c].at = at /\ call'[c].q = call[c].q /\ call'[c].key = call[c].key
         /\ call'[c].o = call[c].o
         /\ \A d \in Calls : d # c => call'[d] = call[d]
  BY DEF TradeTypeOK, Served, Goes

(* A request past the gate goes on: the gate's state stays.                *)
LEMMA GateStays ==
  ASSUME TradeInv, UNCHANGED <<issued, op, by, outdated>>,
         \A d \in Calls : \/ call'[d].at = "idle"
                          \/ call[d].at # "idle" /\ call'[d].key = call[d].key /\ call'[d].q = call[d].q
                             /\ (Past(d)' => Past(d))
  PROVE  GateInv'
  <1>1. RequestsAreTyped'
    BY DEF TradeInv, GateInv, RequestsAreTyped
  <1>2. KeysAdmitOne'
    BY DEF TradeInv, GateInv, KeysAdmitOne
  <1>3. QuotesServeOne'
    BY DEF TradeInv, GateInv, QuotesServeOne, Past
  <1> QED
    BY <1>1, <1>2, <1>3 DEF GateInv

(* Orders are only added: what was made and funded stays so.               *)
OrdersGrow == \A o \in TradeOrders :
    /\ order[o].q # Null => order'[o].q = order[o].q
    /\ fund[o].st # "none" => fund'[o].st # "none"

LEMMA MadeStays ==
  ASSUME OrdersGrow, FundedAreMade, NEW q \in Quotes
  PROVE  (Made(q) => Made(q)') /\ (FundedBy(q) => FundedBy(q)')
  <1>1. q # Null
    BY MobileTradeAssumption
  <1>2. Made(q) => Made(q)'
    BY <1>1 DEF OrdersGrow, Made
  <1>3. FundedBy(q) => FundedBy(q)'
    BY <1>1 DEF OrdersGrow, FundedBy
  <1> QED
    BY <1>2, <1>3

LEMMA CompletedStay ==
  ASSUME TradeInv, OrdersGrow, UNCHANGED <<op, by>>
  PROVE  CompletedAre'
  BY MadeStays DEF TradeInv, OrdersInv, CompletedAre

(* A request that creates nothing, and the deposits stay as they are.      *)
LEMMA OrdersStay ==
  ASSUME TradeInv, NEW c \in Calls, UNCHANGED <<op, by, order, fund>>,
         \A d \in Calls : d # c => call'[d] = call[d],
         call'[c].at \in {"idle", "consume", "lookup", "create", "failed"} \/
         (call'[c].q = call[c].q /\ call'[c].q \in Quotes /\
            (\/ call'[c].at = "forward" /\ SideOf[call[c].q] # "btc"
             \/ call'[c].at = "ok" /\ FundedBy(call[c].q)))
  PROVE  OrdersInv'
  <1>1. OrdersGrow
    BY DEF OrdersGrow
  <1>2. \A q : (Made(q)' <=> Made(q)) /\ (FundedBy(q)' <=> FundedBy(q)) /\ (FundedBy(q) => Made(q))
    BY DEF Made, FundedBy
  <1>3. StagesFit'
    BY <1>2 DEF TradeInv, OrdersInv, StagesFit
  <1>4. FundedOnce' /\ FundedAreMade'
    BY DEF TradeInv, OrdersInv, FundedOnce, FundedAreMade
  <1> QED
    BY <1>1, <1>3, <1>4, CompletedStay DEF OrdersInv

LEMMA DepositsStay ==
  ASSUME TradeInv, UNCHANGED <<fund, output, seen, bus, ready>>,
         \A o \in TradeOrders : /\ fund[o].st # "none" => order'[o].q = order[o].q
                                /\ order'[o].st = "pago" => order[o].st = "pago" /\ order'[o].tx = order[o].tx
  PROVE  DepositsInv'
  <1>1. ConfirmedAreDeep'
    BY DEF TradeInv, DepositsInv, ConfirmedAreDeep
  <1>2. PaidAreFunded'
    BY DEF TradeInv, DepositsInv, PaidAreFunded
  <1> QED
    BY <1>1, <1>2 DEF DepositsInv

LEMMA BeginTradeKeeps ==
  ASSUME TradeInv, NEW c \in Calls, NEW k \in Keys, NEW q \in Carries[k], Begin(c, k, q)
  PROVE  TradeInv'
  <1>1. PICK to : to = [at |-> "consume", key |-> k, q |-> q, o |-> Null]
    OBVIOUS
  <1>2. PICK now : now = [st |-> "processing", body |-> q]
    OBVIOUS
  <1>3. /\ call[c].at = "idle" /\ op[k].st \in {"none", "failed"} /\ q \in Quotes
        /\ op' = [op EXCEPT ![k] = now] /\ call' = [call EXCEPT ![c] = to]
        /\ UNCHANGED <<issued, by, outdated, order, fund, output, seen, bus, ready>>
    BY <1>1, <1>2 DEF Begin, MayProceed, NewKey, Unserved, deposits, TradeInv, TradeTypeOK
  <1>4. TradeTypeOK /\ to \in Served /\ to.at = "consume" /\ to.key = k /\ to.q = q
        /\ now.st = "processing" /\ now.body = q
    BY <1>1, <1>2, <1>3 DEF TradeInv, Served, Stages
  <1>5. /\ call' \in [Calls -> Served] /\ call'[c] = to
        /\ \A d \in Calls : d # c => call'[d] = call[d]
    BY <1>3, <1>4, CallMoves
  <1>6. op'[k] = now /\ \A j \in Keys : j # k => op'[j] = op[j]
    BY <1>3, <1>4 DEF TradeTypeOK
  <1>7. TradeTypeOK'
    <2>1. op' \in [Keys -> [st : {"none", "processing", "failed", "completed"}, body : Quotes \cup {Null}]]
      BY <1>2, <1>3, <1>4 DEF TradeTypeOK
    <2> QED
      BY <1>3, <1>4, <1>5, <2>1 DEF TradeTypeOK, Served
  <1>8. \A d \in Calls : d # c /\ call[d].at # "idle" => call[d].key # k /\ call[d].key \in Keys
    <2>1. \A d \in Calls : call[d].at # "idle" =>
            call[d].key \in Keys /\ op[call[d].key].st = "processing"
      BY DEF TradeInv, GateInv, RequestsAreTyped
    <2> QED
      BY <1>3, <2>1
  <1>9. GateInv'
    <2>1. RequestsAreTyped'
      BY <1>2, <1>3, <1>4, <1>5, <1>6, <1>8 DEF TradeInv, GateInv, RequestsAreTyped
    <2>2. KeysAdmitOne'
      BY <1>3, <1>4, <1>5, <1>8 DEF TradeInv, GateInv, KeysAdmitOne
    <2>3. QuotesServeOne'
      BY <1>3, <1>4, <1>5 DEF TradeInv, GateInv, QuotesServeOne, Past
    <2> QED
      BY <2>1, <2>2, <2>3 DEF GateInv
  <1>10. OrdersInv'
    <2>1. \A p : (Made(p)' <=> Made(p)) /\ (FundedBy(p)' <=> FundedBy(p))
      BY <1>3 DEF Made, FundedBy
    <2>2. StagesFit'
      BY <1>3, <1>4, <1>5, <2>1 DEF TradeInv, OrdersInv, StagesFit
    <2>3. CompletedAre'
      BY <1>3, <1>4, <1>6, <2>1 DEF TradeInv, OrdersInv, CompletedAre
    <2>4. FundedOnce' /\ FundedAreMade'
      BY <1>3 DEF TradeInv, OrdersInv, FundedOnce, FundedAreMade
    <2> QED
      BY <2>2, <2>3, <2>4 DEF OrdersInv
  <1>11. DepositsInv'
    BY <1>3, DepositsStay
  <1> QED
    BY <1>7, <1>9, <1>10, <1>11 DEF TradeInv

LEMMA ConsumeQuoteKeeps ==
  ASSUME TradeInv, NEW c \in Calls, ConsumeMobileTradeQuote(c)
  PROVE  TradeInv'
  <1>1. PICK q, k : q = call[c].q /\ k = call[c].key
    OBVIOUS
  <1>2. /\ call[c].at = "consume" /\ TradeTypeOK /\ q \in Quotes /\ k \in Keys /\ k # Null
        /\ UNCHANGED <<issued, op, outdated, order, fund, output, seen, bus, ready>>
    BY <1>1, MobileTradeAssumption DEF ConsumeMobileTradeQuote, TradeInv, GateInv, RequestsAreTyped, deposits
  <1>3. PICK at \in {"lookup", "forward", "failed"} :
          /\ Goes(c, at)
          /\ \/ by[q] \in {Null, k} /\ by' = [by EXCEPT ![q] = k]
             \/ at = "failed" /\ UNCHANGED by
          /\ at = "forward" => SideOf[q] # "btc"
    <2>1. CASE /\ Consumable(c) /\ by' = [by EXCEPT ![q] = k]
               /\ \/ Goes(c, IF SideOf[q] = "btc" THEN "lookup" ELSE "forward")
                  \/ Goes(c, "failed")
      <3>1. by[q] \in {Null, k}
        BY <1>1, <2>1 DEF Consumable
      <3>2. CASE SideOf[q] = "btc"
        BY <2>1, <3>1, <3>2
      <3>3. CASE SideOf[q] # "btc"
        BY <2>1, <3>1, <3>3
      <3> QED
        BY <3>2, <3>3
    <2>2. CASE Goes(c, "failed") /\ UNCHANGED by
      BY <2>2
    <2> QED
      BY <1>1, <2>1, <2>2 DEF ConsumeMobileTradeQuote
  <1>4. at \in Stages
    BY DEF Stages
  <1>5. /\ call' \in [Calls -> Served] /\ call'[c].at = at /\ call'[c].q = q /\ call'[c].key = k
        /\ \A d \in Calls : d # c => call'[d] = call[d]
    BY <1>1, <1>2, <1>3, <1>4, CallGoes
  <1>6. TradeTypeOK'
    <2>1. by' \in [Quotes -> Keys \cup {Null}]
      BY <1>2, <1>3 DEF TradeTypeOK
    <2> QED
      BY <1>2, <1>5, <2>1 DEF TradeTypeOK, Served
  <1>7. \A p \in Quotes : by[p] \notin {Null, k} => by'[p] = by[p]
    BY <1>2, <1>3 DEF TradeTypeOK
  <1>8. GateInv'
    <2>1. RequestsAreTyped' /\ KeysAdmitOne'
      BY <1>1, <1>2, <1>5 DEF TradeInv, GateInv, RequestsAreTyped, KeysAdmitOne
    <2>2. QuotesServeOne'
      <3>1. SUFFICES ASSUME NEW d \in Calls, Past(d)' PROVE by'[call'[d].q] = call'[d].key
        BY DEF QuotesServeOne
      <3>2. CASE d = c
        <4>1. at # "failed"
          BY <1>5, <3>1, <3>2 DEF Past
        <4> QED
          BY <1>2, <1>3, <1>5, <3>2, <4>1 DEF TradeTypeOK
      <3>3. CASE d # c
        <4>1. Past(d) /\ call'[d] = call[d]
          BY <1>5, <3>1, <3>3 DEF Past
        <4>2. /\ call[d].at # "idle" /\ by[call[d].q] = call[d].key /\ call[d].q \in Quotes
              /\ call[d].key \in Keys
          BY <4>1 DEF TradeInv, GateInv, QuotesServeOne, RequestsAreTyped, Past
        <4>3. call[d].key # k
          BY <1>1, <1>2, <3>3, <4>2 DEF TradeInv, GateInv, KeysAdmitOne
        <4> QED
          BY <1>7, <4>1, <4>2, <4>3, MobileTradeAssumption
      <3> QED
        BY <3>2, <3>3
    <2> QED
      BY <2>1, <2>2 DEF GateInv
  <1>9. OrdersInv'
    <2>1. \A p : (Made(p)' <=> Made(p)) /\ (FundedBy(p)' <=> FundedBy(p))
      BY <1>2 DEF Made, FundedBy
    <2>2. StagesFit'
      BY <1>2, <1>3, <1>5, <2>1 DEF TradeInv, OrdersInv, StagesFit
    <2>3. CompletedAre'
      <3>1. SUFFICES ASSUME NEW j \in Keys, op[j].st = "completed" PROVE by'[op[j].body] = j
        BY <1>2, <2>1 DEF TradeInv, OrdersInv, CompletedAre
      <3>2. op[k].st = "processing"
        BY <1>1, <1>2 DEF TradeInv, GateInv, RequestsAreTyped
      <3>3. op[j].body \in Quotes /\ by[op[j].body] = j
        BY <3>1 DEF TradeInv, OrdersInv, CompletedAre
      <3>4. j # k /\ j # Null
        BY <3>1, <3>2, MobileTradeAssumption
      <3> QED
        BY <1>7, <3>3, <3>4
    <2>4. FundedOnce' /\ FundedAreMade'
      BY <1>2 DEF TradeInv, OrdersInv, FundedOnce, FundedAreMade
    <2> QED
      BY <2>2, <2>3, <2>4 DEF OrdersInv
  <1>10. DepositsInv'
    BY <1>2, DepositsStay
  <1> QED
    BY <1>6, <1>8, <1>9, <1>10 DEF TradeInv

LEMMA AnswerTradeKeeps ==
  ASSUME TradeInv, NEW c \in Calls, AnswerTrade(c)
  PROVE  TradeInv'
  <1>1. PICK q, k, st : /\ q = call[c].q /\ k = call[c].key
                        /\ st = IF call[c].at = "ok" THEN "completed" ELSE "failed"
    OBVIOUS
  <1>2. /\ call[c].at \in {"ok", "failed"} /\ TradeTypeOK /\ q \in Quotes /\ k \in Keys
        /\ op[k].st = "processing" /\ op[k].body = q
        /\ op' = [op EXCEPT ![k].st = st] /\ call' = [call EXCEPT ![c] = Unserved]
        /\ UNCHANGED <<issued, by, outdated, order, fund, output, seen, bus, ready>>
    BY <1>1 DEF AnswerTrade, TradeInv, GateInv, RequestsAreTyped, deposits
  <1>3. Unserved \in Served /\ Unserved.at = "idle"
    BY DEF Unserved, Served, Stages
  <1>4. /\ call' \in [Calls -> Served] /\ call'[c] = Unserved
        /\ \A d \in Calls : d # c => call'[d] = call[d]
    BY <1>2, <1>3, CallMoves
  <1>5. /\ op' \in [Keys -> [st : {"none", "processing", "failed", "completed"}, body : Quotes \cup {Null}]]
        /\ op'[k].st = st /\ op'[k].body = q /\ \A j \in Keys : j # k => op'[j] = op[j]
    BY <1>1, <1>2 DEF TradeTypeOK
  <1>6. TradeTypeOK'
    BY <1>2, <1>4, <1>5 DEF TradeTypeOK, Served
  <1>7. GateInv'
    <2>1. \A d \in Calls : call'[d].at # "idle" => d # c /\ call[d].at # "idle" /\ call[d].key # k
      BY <1>1, <1>2, <1>3, <1>4 DEF TradeInv, GateInv, KeysAdmitOne
    <2>2. RequestsAreTyped'
      BY <1>4, <1>5, <2>1 DEF TradeInv, GateInv, RequestsAreTyped
    <2>3. KeysAdmitOne'
      BY <1>4, <2>1 DEF TradeInv, GateInv, KeysAdmitOne
    <2>4. QuotesServeOne'
      BY <1>2, <1>3, <1>4, <2>1 DEF TradeInv, GateInv, QuotesServeOne, Past
    <2> QED
      BY <2>2, <2>3, <2>4 DEF GateInv
  <1>8. OrdersInv'
    <2>1. \A p : (Made(p)' <=> Made(p)) /\ (FundedBy(p)' <=> FundedBy(p))
      BY <1>2 DEF Made, FundedBy
    <2>2. StagesFit'
      BY <1>2, <1>3, <1>4, <2>1 DEF TradeInv, OrdersInv, StagesFit
    <2>3. st = "completed" => by[q] = k /\ Made(q) /\ (SideOf[q] = "btc" => FundedBy(q))
      BY <1>1, <1>2 DEF TradeInv, GateInv, QuotesServeOne, Past, OrdersInv, StagesFit
    <2>4. CompletedAre'
      BY <1>2, <1>5, <2>1, <2>3 DEF TradeInv, OrdersInv, CompletedAre
    <2>5. FundedOnce' /\ FundedAreMade'
      BY <1>2 DEF TradeInv, OrdersInv, FundedOnce, FundedAreMade
    <2> QED
      BY <2>2, <2>4, <2>5 DEF OrdersInv
  <1>9. DepositsInv'
    BY <1>2, DepositsStay
  <1> QED
    BY <1>6, <1>7, <1>8, <1>9 DEF TradeInv

LEMMA RequestEndsOrLooks ==
  ASSUME TradeInv, NEW c \in Calls, Stops(c) \/ ActiveBTCSellFundingOrderForQuote(c)
  PROVE  TradeInv'
  <1>1. TradeTypeOK /\ UNCHANGED <<issued, op, by, outdated, order, fund, output, seen, bus, ready>>
    BY DEF Stops, ActiveBTCSellFundingOrderForQuote, gate, deposits, TradeInv
  <1>2. CASE Stops(c)
    <2>1. Unserved \in Served /\ Unserved.at = "idle"
      BY DEF Unserved, Served, Stages
    <2>2. /\ call' \in [Calls -> Served] /\ call'[c].at = "idle"
          /\ \A d \in Calls : d # c => call'[d] = call[d]
      BY <1>1, <1>2, <2>1, CallMoves DEF Stops
    <2>3. GateInv'
      <3>1. \A d \in Calls : call'[d].at = "idle" \/ (call'[d] = call[d] /\ call[d].at # "idle" /\ (Past(d)' => Past(d)))
        BY <2>2 DEF Past
      <3> QED
        BY <1>1, <3>1, GateStays
    <2>4. OrdersInv'
      BY <1>1, <2>2, OrdersStay
    <2> QED
      BY <1>1, <2>2, <2>3, <2>4, DepositsStay DEF TradeInv, TradeTypeOK, Served
  <1>3. CASE ActiveBTCSellFundingOrderForQuote(c)
    <2>1. call[c].at = "lookup" /\ call[c].q \in Quotes
      BY <1>3 DEF ActiveBTCSellFundingOrderForQuote, TradeInv, GateInv, RequestsAreTyped
    <2>2. PICK at \in {"ok", "create", "failed"} :
            Goes(c, at) /\ (at = "ok" => FundingOf(call[c].q) # {})
      BY <1>3 DEF ActiveBTCSellFundingOrderForQuote
    <2>3. at \in Stages
      BY DEF Stages
    <2>4. /\ call' \in [Calls -> Served] /\ call'[c].at = at /\ call'[c].q = call[c].q
          /\ call'[c].key = call[c].key /\ \A d \in Calls : d # c => call'[d] = call[d]
      BY <1>1, <2>2, <2>3, CallGoes
    <2>5. GateInv'
      <3>1. \A d \in Calls :
               \/ call'[d].at = "idle"
               \/ call[d].at # "idle" /\ call'[d].key = call[d].key /\ call'[d].q = call[d].q
                  /\ (Past(d)' => Past(d))
        BY <2>1, <2>4 DEF Past
      <3> QED
        BY <1>1, <3>1, GateStays
    <2>6. at = "ok" => FundedBy(call[c].q)
      BY <2>2 DEF FundingOf, FundedBy
    <2>7. OrdersInv'
      BY <1>1, <2>1, <2>4, <2>6, OrdersStay
    <2> QED
      BY <1>1, <2>4, <2>5, <2>7, DepositsStay DEF TradeInv, TradeTypeOK, Served
  <1> QED
    BY <1>2, <1>3

-----------------------------------------------------------------------------
(* A new order: nothing funds it, and it is of a quote.                    *)
NewOrders == [st : OrderStates \ {"pago", "none"}, q : Quotes, tx : {Null}]
OrderRecords == [st : OrderStates, q : Quotes \cup {Null}, tx : Outpoints \cup {Null}]

LEMMA OrderMade ==
  ASSUME TradeInv, NEW o \in TradeOrders, order[o] = NoOrder, NEW made \in NewOrders,
         order' = [order EXCEPT ![o] = made], UNCHANGED fund
  PROVE  /\ order' \in [TradeOrders -> OrderRecords] /\ order'[o] = made
         /\ \A p \in TradeOrders : p # o => order'[p] = order[p]
         /\ order[o].q = Null /\ fund[o].st = "none"
         /\ OrdersGrow /\ FundedOnce' /\ FundedAreMade' /\ Made(made.q)'
  <1>1. TradeTypeOK /\ made.q \in Quotes /\ made.q # Null /\ made \in OrderRecords
    BY MobileTradeAssumption DEF TradeInv, NewOrders, OrderRecords
  <1>2. /\ order' \in [TradeOrders -> OrderRecords] /\ order'[o] = made
        /\ \A p \in TradeOrders : p # o => order'[p] = order[p]
    BY <1>1 DEF TradeTypeOK, OrderRecords
  <1>3. order[o].q = Null
    BY DEF NoOrder
  <1>4. fund[o].st = "none"
    BY <1>3 DEF TradeInv, OrdersInv, FundedAreMade
  <1>5. OrdersGrow
    BY <1>2, <1>3 DEF OrdersGrow
  <1>6. FundedOnce' /\ FundedAreMade'
    BY <1>1, <1>2, <1>4 DEF TradeInv, OrdersInv, FundedOnce, FundedAreMade
  <1>7. Made(made.q)'
    BY <1>2 DEF Made
  <1> QED
    BY <1>2, <1>3, <1>4, <1>5, <1>6, <1>7

(* A request that may make its order and goes on or fails.                 *)
LEMMA OrderMaker ==
  ASSUME TradeInv, NEW c \in Calls, call[c].at \in {"create", "forward", "degraded"},
         UNCHANGED <<issued, op, by, outdated, fund, output, seen, bus, ready>>,
         NEW o \in TradeOrders, order[o] = NoOrder, NEW made \in NewOrders, made.q = call[c].q,
         NEW to \in Served, call' = [call EXCEPT ![c] = to],
         to.key = call[c].key, to.q = call[c].q,
         \/ to.at \in {"failed", "degraded"} /\ (to.at = "degraded" => call[c].at = "forward")
            /\ order' \in {order, [order EXCEPT ![o] = made]}
         \/ to.at = "ok" /\ call[c].at # "create" /\ order' = [order EXCEPT ![o] = made]
         \/ to.at = "fund" /\ to.o = o /\ order' = [order EXCEPT ![o] = made]
  PROVE  TradeInv'
  <1>1. TradeTypeOK /\ call[c].q \in Quotes
    BY DEF TradeInv, GateInv, RequestsAreTyped
  <1>2. /\ call' \in [Calls -> Served] /\ call'[c] = to
        /\ \A d \in Calls : d # c => call'[d] = call[d]
    BY <1>1, CallMoves
  <1>3. /\ order' \in [TradeOrders -> OrderRecords] /\ OrdersGrow /\ FundedOnce' /\ FundedAreMade'
        /\ \A p \in TradeOrders :
             /\ fund[p].st # "none" => order'[p].q = order[p].q
             /\ order'[p].st = "pago" => order[p].st = "pago" /\ order'[p].tx = order[p].tx
        /\ to.at \in {"ok", "fund"} => Made(to.q)' /\ order'[o].q = to.q
    <2>1. CASE order' = order
      <3>1. to.at \notin {"ok", "fund"}
        <4>1. order[o].q = Null /\ call[c].q # Null /\ TradeTypeOK
          BY <1>1, MobileTradeAssumption DEF NoOrder
        <4>2. order' # [order EXCEPT ![o] = made]
          BY <2>1, <4>1 DEF TradeTypeOK
        <4> QED
          BY <4>2
      <3> QED
        BY <1>1, <2>1, <3>1 DEF TradeTypeOK, OrderRecords, OrdersGrow, TradeInv, OrdersInv, FundedOnce,
           FundedAreMade
    <2>2. CASE order' = [order EXCEPT ![o] = made]
      <3>1. /\ order' \in [TradeOrders -> OrderRecords] /\ order'[o] = made
            /\ \A p \in TradeOrders : p # o => order'[p] = order[p]
            /\ fund[o].st = "none" /\ OrdersGrow /\ FundedOnce' /\ FundedAreMade' /\ Made(made.q)'
        BY <2>2, OrderMade
      <3>2. made.st # "pago"
        BY DEF NewOrders
      <3> QED
        BY <3>1, <3>2
    <2> QED
      BY <2>1, <2>2
  <1>4. GateInv'
    <2>1. \A d \in Calls :
            \/ call'[d].at = "idle"
            \/ call[d].at # "idle" /\ call'[d].key = call[d].key /\ call'[d].q = call[d].q
               /\ (Past(d)' => Past(d))
      BY <1>2 DEF Past
    <2> QED
      BY <2>1, GateStays
  <1>5. StagesFit'
    <2>1. SUFFICES ASSUME NEW d \in Calls, NEW q \in Quotes, call'[d].q = q
                   PROVE  /\ call'[d].at = "fund" =>
                                call'[d].o \in TradeOrders /\ order'[call'[d].o].q = q
                          /\ call'[d].at \in {"forward", "degraded"} => SideOf[q] # "btc"
                          /\ call'[d].at = "ok" => Made(q)' /\ (SideOf[q] = "btc" => FundedBy(q)')
      BY DEF StagesFit
    <2>2. (Made(q) => Made(q)') /\ (FundedBy(q) => FundedBy(q)') /\ q # Null
      BY <1>3, MadeStays, MobileTradeAssumption DEF TradeInv, OrdersInv
    <2>3. CASE d = c
      <3>1. call[c].at \in {"forward", "degraded"} => SideOf[q] # "btc"
        BY <1>2, <2>1, <2>3 DEF TradeInv, OrdersInv, StagesFit
      <3>2. to.at \in {"ok", "fund"} => Made(q)' /\ order'[o].q = q
        BY <1>2, <1>3, <2>1, <2>3
      <3> QED
        BY <1>2, <2>1, <2>3, <3>1, <3>2
    <2>4. CASE d # c
      <3>1. call'[d] = call[d] /\ call[d].q = q
        BY <1>2, <2>1, <2>4
      <3>2. /\ call[d].at = "fund" => call[d].o \in TradeOrders /\ order[call[d].o].q = q
            /\ call[d].at \in {"forward", "degraded"} => SideOf[q] # "btc"
            /\ call[d].at = "ok" => Made(q) /\ (SideOf[q] = "btc" => FundedBy(q))
        BY <3>1 DEF TradeInv, OrdersInv, StagesFit
      <3>3. call[d].at = "fund" => order'[call[d].o].q = q
        BY <1>3, <2>2, <3>2 DEF OrdersGrow
      <3> QED
        BY <2>2, <3>1, <3>2, <3>3
    <2> QED
      BY <2>3, <2>4
  <1>6. OrdersInv'
    BY <1>3, <1>5, CompletedStay DEF OrdersInv
  <1>7. DepositsInv'
    BY <1>3, DepositsStay
  <1>8. TradeTypeOK'
    BY <1>1, <1>2, <1>3 DEF TradeTypeOK, OrderRecords, Served
  <1> QED
    BY <1>4, <1>6, <1>7, <1>8 DEF TradeInv

LEMMA GoesTo ==
  ASSUME TradeTypeOK, NEW c \in Calls, NEW at \in Stages, Goes(c, at)
  PROVE  \E to \in Served : /\ call' = [call EXCEPT ![c] = to] /\ to.at = at
                            /\ to.key = call[c].key /\ to.q = call[c].q /\ to.o = call[c].o
  <1>1. PICK to : to = [call[c] EXCEPT !.at = at]
    OBVIOUS
  <1>2. call[c] \in Served
    BY DEF TradeTypeOK, Served
  <1>3. to \in Served /\ to.at = at /\ to.key = call[c].key /\ to.q = call[c].q /\ to.o = call[c].o
    BY <1>1, <1>2 DEF Served
  <1>4. call' = [call EXCEPT ![c] = to]
    BY <1>1 DEF Goes
  <1> QED
    BY <1>3, <1>4

LEMMA CreateSaleOrderKeeps ==
  ASSUME TradeInv, NEW c \in Calls, CreateSaleOrder(c)
  PROVE  TradeInv'
  <1>1. /\ call[c].at = "create" /\ call[c].q \in Quotes /\ TradeTypeOK /\ call[c] \in Served
        /\ UNCHANGED <<issued, op, by, outdated, fund, output, seen, bus, ready>>
    BY DEF CreateSaleOrder, TradeInv, TradeTypeOK, Served, GateInv, RequestsAreTyped, gate, deposits
  <1>2. PICK o \in TradeOrders : NewOrder(o) /\
          LET made == Created(o, call[c].q, "aguardando_deposito") IN
          \/ order' = made /\ call' = [call EXCEPT ![c].at = "fund", ![c].o = o]
          \/ order' \in {order, made} /\ Goes(c, "failed")
    BY DEF CreateSaleOrder
  <1>3. PICK made : made = [st |-> "aguardando_deposito", q |-> call[c].q, tx |-> Null]
    OBVIOUS
  <1>4. made \in NewOrders /\ made.q = call[c].q
    BY <1>1, <1>3 DEF NewOrders, OrderStates
  <1>5. order[o] = NoOrder
    BY <1>2 DEF NewOrder
  <1>6. CASE order' = [order EXCEPT ![o] = made] /\ call' = [call EXCEPT ![c].at = "fund", ![c].o = o]
    <2>1. PICK to : to = [call[c] EXCEPT !.at = "fund", !.o = o]
      OBVIOUS
    <2>2. to \in Served /\ to.at = "fund" /\ to.key = call[c].key /\ to.q = call[c].q /\ to.o = o
      BY <1>1, <2>1 DEF Served, Stages
    <2>3. call' = [call EXCEPT ![c] = to]
      <3>2. c \in DOMAIN call
        BY <1>1 DEF TradeTypeOK
      <3>3. [call EXCEPT ![c].at = "fund", ![c].o = o] = [call EXCEPT ![c] = [call[c] EXCEPT !.at = "fund", !.o = o]]
        BY <3>2
      <3> QED
        BY <1>6, <2>1, <3>3
    <2> QED
      BY <1>1, <1>4, <1>5, <1>6, <2>2, <2>3, OrderMaker
  <1>7. CASE order' \in {order, [order EXCEPT ![o] = made]} /\ Goes(c, "failed")
    <2>1. "failed" \in Stages
      BY DEF Stages
    <2>2. PICK to \in Served : /\ call' = [call EXCEPT ![c] = to] /\ to.at = "failed"
                               /\ to.key = call[c].key /\ to.q = call[c].q
      BY <1>1, <1>7, <2>1, GoesTo
    <2> QED
      BY <1>1, <1>4, <1>5, <1>7, <2>2, OrderMaker
  <1> QED
    BY <1>2, <1>3, <1>6, <1>7 DEF Created

LEMMA ForwardKeeps ==
  ASSUME TradeInv, NEW c \in Calls, MobileSell(c) \/ MobileBuy(c) \/ WriteDegradedMobileBuy(c)
  PROVE  TradeInv'
  <1>1. /\ call[c].at \in {"forward", "degraded"} /\ call[c].q \in Quotes /\ TradeTypeOK
        /\ UNCHANGED <<issued, op, by, outdated, fund, output, seen, bus, ready>>
    BY DEF MobileSell, MobileBuy, Forward, WriteDegradedMobileBuy, TradeInv, GateInv, RequestsAreTyped,
       gate, deposits
  <1>2. PICK o \in TradeOrders, st \in {"open", "payment_provider_pending"},
             at \in {"ok", "failed", "degraded"} :
          /\ order[o] = NoOrder /\ Goes(c, at) /\ (at = "degraded" => call[c].at = "forward")
          /\ \/ order' = Created(o, call[c].q, st)
             \/ at # "ok" /\ order' = order
    <2>1. CASE MobileSell(c)
      <3>1. Forward(c, "failed")
        BY <2>1 DEF MobileSell
      <3> QED
        BY <3>1 DEF Forward, NewOrder
    <2>2. CASE MobileBuy(c)
      <3>1. Forward(c, "degraded")
        BY <2>2 DEF MobileBuy
      <3> QED
        BY <3>1 DEF Forward, NewOrder
    <2>3. CASE WriteDegradedMobileBuy(c)
      BY <2>3 DEF WriteDegradedMobileBuy, NewOrder
    <2> QED
      BY <2>1, <2>2, <2>3
  <1>3. PICK made : made = [st |-> st, q |-> call[c].q, tx |-> Null]
    OBVIOUS
  <1>4. made \in NewOrders /\ made.q = call[c].q /\ at \in Stages
    BY <1>1, <1>2, <1>3 DEF NewOrders, OrderStates, Stages
  <1>5. PICK to \in Served : /\ call' = [call EXCEPT ![c] = to] /\ to.at = at
                             /\ to.key = call[c].key /\ to.q = call[c].q
    BY <1>1, <1>2, <1>4, GoesTo
  <1>6. order' = [order EXCEPT ![o] = made] \/ (at # "ok" /\ order' = order)
    BY <1>2, <1>3 DEF Created
  <1> QED
    BY <1>1, <1>2, <1>4, <1>5, <1>6, OrderMaker

-----------------------------------------------------------------------------
(* Steps that make no order and leave the requests alone.                  *)
LEMMA OrdersSame ==
  ASSUME TradeInv, UNCHANGED <<op, by, call>>,
         \A p \in TradeOrders : /\ order'[p].q = order[p].q
                                /\ order[p].st = "none" => order'[p].st = "none"
                                /\ fund'[p].st = "none" <=> fund[p].st = "none"
  PROVE  OrdersInv'
  <1>1. \A q : (Made(q)' <=> Made(q)) /\ (FundedBy(q)' <=> FundedBy(q))
    BY DEF Made, FundedBy
  <1>2. StagesFit'
    BY <1>1 DEF TradeInv, OrdersInv, StagesFit
  <1>3. CompletedAre'
    BY <1>1 DEF TradeInv, OrdersInv, CompletedAre
  <1>4. FundedOnce' /\ FundedAreMade'
    BY DEF TradeInv, OrdersInv, FundedOnce, FundedAreMade
  <1> QED
    BY <1>2, <1>3, <1>4 DEF OrdersInv

LEMMA GateSame ==
  ASSUME TradeInv, UNCHANGED <<op, by, call>>
  PROVE  GateInv'
  BY DEF TradeInv, GateInv, RequestsAreTyped, KeysAdmitOne, QuotesServeOne, Past

LEMMA QuoteStepKeeps ==
  ASSUME TradeInv, NEW q \in Quotes, IssueMobileTradeQuote(q) \/ TermEnds(q)
  PROVE  TradeInv'
  <1>1. UNCHANGED <<op, by, order, fund, call, output, seen, bus, ready>>
    BY DEF IssueMobileTradeQuote, TermEnds, deposits
  <1>2. TradeTypeOK'
    BY <1>1 DEF IssueMobileTradeQuote, TermEnds, TradeInv, TradeTypeOK
  <1> QED
    BY <1>1, <1>2, GateSame, OrdersSame, DepositsStay DEF TradeInv

LEMMA SaleEndsKeeps ==
  ASSUME TradeInv, NEW o \in TradeOrders, CancelOrder(o) \/ ExpireTradeOrder(o)
  PROVE  TradeInv'
  <1>1. /\ UNCHANGED <<issued, op, by, outdated, fund, call, output, seen, bus, ready>>
        /\ order[o].st = "aguardando_deposito" /\ TradeTypeOK
    BY DEF CancelOrder, ExpireTradeOrder, gate, deposits, TradeInv
  <1>2. PICK st \in {"cancelada", "expirada"} : order' = [order EXCEPT ![o].st = st]
    BY DEF CancelOrder, ExpireTradeOrder
  <1>3. /\ order' \in [TradeOrders -> OrderRecords]
        /\ \A p \in TradeOrders : /\ order'[p].q = order[p].q /\ order'[p].tx = order[p].tx
                                  /\ p # o => order'[p] = order[p]
        /\ order'[o].st = st
    BY <1>1, <1>2 DEF TradeTypeOK, OrderRecords, OrderStates
  <1>4. OrdersInv'
    BY <1>1, <1>3, OrdersSame
  <1>5. DepositsInv'
    <2>1. \A p \in TradeOrders : order'[p].st = "pago" => order[p].st = "pago"
      BY <1>3
    <2> QED
      BY <1>1, <1>3, <2>1, DepositsStay
  <1>6. TradeTypeOK'
    BY <1>1, <1>3 DEF TradeTypeOK, OrderRecords
  <1> QED
    BY <1>1, <1>4, <1>5, <1>6, GateSame DEF TradeInv

LEMMA CreateFundingKeeps ==
  ASSUME TradeInv, NEW c \in Calls, CreateBTCSellFunding(c)
  PROVE  TradeInv'
  <1>1. PICK o, q : o = call[c].o /\ q = call[c].q
    OBVIOUS
  <1>2. /\ call[c].at = "fund" /\ q \in Quotes /\ TradeTypeOK /\ o \in TradeOrders
        /\ order[o].q = q /\ q # Null
        /\ UNCHANGED <<issued, op, by, outdated, output, seen, bus, ready>>
    BY <1>1, MobileTradeAssumption
    DEF CreateBTCSellFunding, TradeInv, GateInv, RequestsAreTyped, OrdersInv, StagesFit, gate, deposits
  <1>3. PICK at \in {"ok", "failed"} :
          /\ Goes(c, at)
          /\ fund' = fund \/ (FundingOf(q) = {} /\ fund' = [fund EXCEPT ![o].st = "awaiting_deposit"])
          /\ at = "ok" => FundingOf(q) = {} /\ fund' = [fund EXCEPT ![o].st = "awaiting_deposit"]
          /\ order' \in {order, [order EXCEPT ![o].st = "incidente_validacao"]}
    BY <1>1, <1>2 DEF CreateBTCSellFunding, QuoteIsFree
  <1>4. FundingOf(q) = {} => \A p \in TradeOrders : order[p].q = q => fund[p].st = "none"
    BY DEF FundingOf
  <1>5. at \in Stages
    BY DEF Stages
  <1>6. /\ call' \in [Calls -> Served] /\ call'[c].at = at /\ call'[c].q = q
        /\ call'[c].key = call[c].key /\ \A d \in Calls : d # c => call'[d] = call[d]
    BY <1>1, <1>2, <1>3, <1>5, CallGoes
  <1>7. /\ order' \in [TradeOrders -> OrderRecords]
        /\ \A p \in TradeOrders : /\ order'[p].q = order[p].q /\ order'[p].tx = order[p].tx
                                  /\ p # o => order'[p] = order[p]
        /\ order'[o].st \in {order[o].st, "incidente_validacao"}
    <2>1. CASE order' = order
      BY <1>2, <2>1 DEF TradeTypeOK, OrderRecords
    <2>2. CASE order' = [order EXCEPT ![o].st = "incidente_validacao"]
      <3> DEFINE to == [order[o] EXCEPT !.st = "incidente_validacao"]
      <3>1. /\ to \in OrderRecords /\ to.st = "incidente_validacao"
            /\ to.q = order[o].q /\ to.tx = order[o].tx
        <4>1. order[o] \in OrderRecords /\ "incidente_validacao" \in OrderStates
          BY <1>2 DEF TradeTypeOK, OrderRecords, OrderStates
        <4> QED
          BY <4>1 DEF OrderRecords
      <3>2. order' = [order EXCEPT ![o] = to] /\ order \in [TradeOrders -> OrderRecords]
        BY <1>2, <2>2 DEF TradeTypeOK, OrderRecords
      <3> HIDE DEF to
      <3> QED
        BY <1>2, <3>1, <3>2
    <2> QED
      BY <1>3, <2>1, <2>2
  <1>8. /\ fund' \in [TradeOrders -> [st : FundStates, out : Outpoints \cup {Null}]]
        /\ \A p \in TradeOrders : p # o \/ fund[p].st # "none" => fund'[p] = fund[p]
        /\ fund'[o].st # "none" => fund[o].st # "none" \/ FundingOf(q) = {}
        /\ fund[o].st = "none" => fund'[o].st \in {"none", "awaiting_deposit"}
        /\ at = "ok" => fund'[o].st # "none"
    <2>1. CASE fund' = fund
      <3>1. at = "ok" => fund[o].st = "awaiting_deposit"
        BY <1>2, <1>3, <2>1 DEF TradeTypeOK
      <3> QED
        BY <1>2, <2>1, <3>1 DEF TradeTypeOK
    <2>2. CASE FundingOf(q) = {} /\ fund' = [fund EXCEPT ![o].st = "awaiting_deposit"]
      <3>1. fund[o].st = "none"
        BY <1>2, <1>4, <2>2
      <3> QED
        BY <1>2, <2>2, <3>1 DEF TradeTypeOK, FundStates, Active
    <2> QED
      BY <1>3, <2>1, <2>2
  <1>9. GateInv'
    <2>1. \A d \in Calls :
            \/ call'[d].at = "idle"
            \/ call[d].at # "idle" /\ call'[d].key = call[d].key /\ call'[d].q = call[d].q
               /\ (Past(d)' => Past(d))
      BY <1>1, <1>2, <1>6 DEF Past
    <2> QED
      BY <1>2, <2>1, GateStays
  <1>10. OrdersInv'
    <2>1. OrdersGrow
      BY <1>7, <1>8 DEF OrdersGrow
    <2>2. FundedAreMade'
      BY <1>2, <1>7, <1>8 DEF TradeInv, OrdersInv, FundedAreMade
    <2>3. FundedOnce'
      <3>1. SUFFICES ASSUME NEW a \in TradeOrders, NEW b \in TradeOrders, fund'[a].st # "none",
                            fund'[b].st # "none", order[a].q = order[b].q
                     PROVE a = b
        BY <1>7 DEF FundedOnce
      <3>2. CASE fund[a].st # "none" /\ fund[b].st # "none"
        BY <3>1, <3>2 DEF TradeInv, OrdersInv, FundedOnce
      <3>3. CASE fund[a].st = "none"
        <4>1. a = o /\ FundingOf(q) = {}
          BY <1>8, <3>1, <3>3
        <4>2. b # o => fund[b].st # "none" /\ order[b].q # q
          BY <1>4, <1>8, <3>1, <4>1
        <4> QED
          BY <1>2, <3>1, <4>1, <4>2
      <3>4. CASE fund[b].st = "none"
        <4>1. b = o /\ FundingOf(q) = {}
          BY <1>8, <3>1, <3>4
        <4>2. a # o => fund[a].st # "none" /\ order[a].q # q
          BY <1>4, <1>8, <3>1, <4>1
        <4> QED
          BY <1>2, <3>1, <4>1, <4>2
      <3> QED
        BY <3>2, <3>3, <3>4
    <2>4. StagesFit'
      <3>1. SUFFICES ASSUME NEW d \in Calls, NEW b \in Quotes, call'[d].q = b
                     PROVE  /\ call'[d].at = "fund" =>
                                  call'[d].o \in TradeOrders /\ order'[call'[d].o].q = b
                            /\ call'[d].at \in {"forward", "degraded"} => SideOf[b] # "btc"
                            /\ call'[d].at = "ok" => Made(b)' /\ (SideOf[b] = "btc" => FundedBy(b)')
        BY DEF StagesFit
      <3>2. (Made(b) => Made(b)') /\ (FundedBy(b) => FundedBy(b)')
        BY <2>1, MadeStays DEF TradeInv, OrdersInv
      <3>3. CASE d = c
        <4>1. call'[d].at = at /\ b = q
          BY <1>6, <3>1, <3>3
        <4>2. at = "ok" => Made(q)' /\ FundedBy(q)'
          BY <1>2, <1>7, <1>8 DEF Made, FundedBy
        <4> QED
          BY <4>1, <4>2
      <3>4. CASE d # c
        <4>1. call'[d] = call[d] /\ call[d].q = b
          BY <1>6, <3>1, <3>4
        <4>2. /\ call[d].at = "fund" => call[d].o \in TradeOrders /\ order[call[d].o].q = b
              /\ call[d].at \in {"forward", "degraded"} => SideOf[b] # "btc"
              /\ call[d].at = "ok" => Made(b) /\ (SideOf[b] = "btc" => FundedBy(b))
          BY <4>1 DEF TradeInv, OrdersInv, StagesFit
        <4> QED
          BY <1>7, <3>2, <4>1, <4>2
      <3> QED
        BY <3>3, <3>4
    <2> QED
      BY <1>2, <2>1, <2>2, <2>3, <2>4, CompletedStay DEF OrdersInv
  <1>11. DepositsInv'
    <2>1. \A p \in TradeOrders : fund'[p].st = "confirmed" => fund'[p] = fund[p]
      BY <1>8
    <2>2. \A p \in TradeOrders : fund[p].st = "confirmed" => fund'[p] = fund[p]
      BY <1>8
    <2>3. ConfirmedAreDeep'
      <3>1. \A m \in ready : fund'[m[2]].st = "confirmed"
        <4>1. \A m \in ready : m[2] \in TradeOrders /\ fund[m[2]].st = "confirmed"
          BY <1>2 DEF TradeTypeOK, TradeInv, DepositsInv, ConfirmedAreDeep
        <4> QED
          BY <2>2, <4>1
      <3> QED
        BY <1>2, <1>7, <2>1, <3>1 DEF TradeInv, DepositsInv, ConfirmedAreDeep
    <2>4. PaidAreFunded'
      <3>1. \A p \in TradeOrders : order'[p].st = "pago" => order[p].st = "pago"
        BY <1>7
      <3> QED
        BY <1>7, <2>2, <3>1 DEF TradeInv, DepositsInv, PaidAreFunded
    <2> QED
      BY <2>3, <2>4 DEF DepositsInv
  <1>12. TradeTypeOK'
    BY <1>2, <1>6, <1>7, <1>8 DEF TradeTypeOK, OrderRecords, Served
  <1> QED
    BY <1>9, <1>10, <1>11, <1>12 DEF TradeInv

-----------------------------------------------------------------------------
(* The network, and the events of the funding worker.                      *)
LEMMA NetworkKeeps ==
  ASSUME TradeInv, NEW u \in Outpoints, Deepens(u) \/ \E v \in Values : Deposit(u, v)
  PROVE  TradeInv'
  <1>1. UNCHANGED <<issued, op, by, outdated, order, fund, call, seen, bus, ready>> /\ TradeTypeOK
    BY DEF Deepens, Deposit, gate, TradeInv
  <1>2. /\ output' \in [Outpoints -> [sats : Values \cup {0}, deep : BOOLEAN]]
        /\ \A w \in Outpoints : /\ output[w].sats > 0 => output'[w].sats = output[w].sats
                                /\ output[w].deep => output'[w].deep
                                /\ output'[w].deep => output'[w].sats > 0
                                /\ output[w].sats > 0 => output'[w].sats > 0
    <2>1. \A w \in Outpoints : output[w].deep => output[w].sats > 0
      BY DEF TradeInv, DepositsInv, ConfirmedAreDeep
    <2>2. CASE Deepens(u)
      BY <1>1, <2>1, <2>2 DEF Deepens, TradeTypeOK
    <2>3. CASE \E v \in Values : Deposit(u, v)
      <3>1. PICK v \in Values : Deposit(u, v)
        BY <2>3
      <3>2. ~output[u].deep
        BY <2>1, <3>1 DEF Deposit
      <3>3. /\ output' \in [Outpoints -> [sats : Values \cup {0}, deep : BOOLEAN]]
            /\ output'[u].sats = v /\ output'[u].deep = output[u].deep
            /\ \A w \in Outpoints : w # u => output'[w] = output[w]
        BY <1>1, <3>1 DEF Deposit, TradeTypeOK
      <3> QED
        BY <2>1, <3>1, <3>2, <3>3 DEF Deposit
    <2> QED
      BY <2>2, <2>3
  <1>3. ConfirmedAreDeep'
    <2>1. \A m \in seen : m[2] \in Outpoints
      BY <1>1 DEF TradeTypeOK
    <2>2. \A w \in Outpoints : output[w].deep => output'[w].sats = output[w].sats /\ output'[w].deep
      BY <1>2 DEF TradeInv, DepositsInv, ConfirmedAreDeep
    <2> QED
      BY <1>1, <1>2, <2>1, <2>2 DEF TradeInv, DepositsInv, ConfirmedAreDeep
  <1>4. PaidAreFunded'
    BY <1>1 DEF TradeInv, DepositsInv, PaidAreFunded
  <1>5. OrdersInv' /\ GateInv'
    BY <1>1, GateSame, OrdersSame
  <1> QED
    BY <1>1, <1>2, <1>3, <1>4, <1>5 DEF TradeInv, DepositsInv, TradeTypeOK

LEMMA PublishKeeps ==
  ASSUME TradeInv, NEW r \in Replicas, NEW u \in Outpoints, NEW e \in {"detected", "confirmed"},
         Publish(r, u, e)
  PROVE  TradeInv'
  <1>1. UNCHANGED <<issued, op, by, outdated, order, fund, call, output, ready>> /\ TradeTypeOK
    BY DEF Publish, gate, TradeInv
  <1>2. seen' \subseteq Replicas \X Outpoints \X {"detected", "confirmed"} /\ bus' \subseteq seen'
    BY <1>1 DEF Publish, TradeTypeOK
  <1>3. ConfirmedAreDeep'
    BY <1>1 DEF Publish, TradeInv, DepositsInv, ConfirmedAreDeep
  <1>4. PaidAreFunded'
    BY <1>1 DEF TradeInv, DepositsInv, PaidAreFunded
  <1>5. OrdersInv' /\ GateInv'
    BY <1>1, GateSame, OrdersSame
  <1> QED
    BY <1>1, <1>2, <1>3, <1>4, <1>5 DEF TradeInv, DepositsInv, TradeTypeOK

LEMMA ApplyKeeps ==
  ASSUME TradeInv, NEW r \in Replicas, NEW u \in Outpoints, NEW e \in {"detected", "confirmed"},
         ApplyBTCSellFundingEvent(r, u, e)
  PROVE  TradeInv'
  <1>1. /\ UNCHANGED <<issued, op, by, outdated, call, output, seen>> /\ TradeTypeOK
        /\ <<r, u, e>> \in bus /\ bus' = bus \ {<<r, u, e>>}
    BY DEF ApplyBTCSellFundingEvent, gate, TradeInv
  <1>2. output[u].sats > 0 /\ (e = "confirmed" => output[u].deep)
    <2>1. <<r, u, e>> \in seen
      BY <1>1 DEF TradeTypeOK
    <2> QED
      BY <2>1 DEF TradeInv, DepositsInv, ConfirmedAreDeep
  <1>3. CASE UNCHANGED <<order, fund, ready>>
    <2>1. ConfirmedAreDeep'
      BY <1>1, <1>3 DEF TradeInv, DepositsInv, ConfirmedAreDeep
    <2>2. PaidAreFunded'
      BY <1>3 DEF TradeInv, DepositsInv, PaidAreFunded
    <2>3. GateInv' /\ OrdersInv'
      BY <1>1, <1>3, GateSame, OrdersSame
    <2>4. TradeTypeOK'
      BY <1>1, <1>3 DEF TradeTypeOK
    <2> QED
      BY <2>1, <2>2, <2>3, <2>4 DEF TradeInv, DepositsInv
  <1>4. CASE \E o \in Matches(output[u].sats) : UnusedOutput(u, o) /\ Apply(r, u, e, o)
                                                /\ (order' # order => UnusedKey(u, o))
    <2>1. PICK o \in Matches(output[u].sats) : Apply(r, u, e, o)
      BY <1>4
    <2>2. o \in TradeOrders /\ fund[o].st \in Active
      BY DEF Matches
    <2>3. fund[o].st \notin {"none", "confirmed"} /\ order[o].st # "pago"
      BY <2>2 DEF Active, TradeInv, DepositsInv, PaidAreFunded
    <2>4. PICK from \in {{"aguardando_deposito", "aguardando_validacao"}, {"aguardando_deposito",
               "aguardando_validacao", "expirada", "incidente_validacao"}},
               new \in {"aguardando_validacao", "incidente_validacao"},
               st \in {"manual_review", "pending_confirmations", "confirmed"} :
            /\ fund' = [fund EXCEPT ![o] = [st |-> st, out |-> u]]
            /\ order' = order \/ OrderTo(o, u, from, new)
            /\ ready' \in {ready, ready \cup {<<r, o>>}} /\ (st # "confirmed" => ready' = ready)
            /\ st = "confirmed" => output[u].sats = Expected[order[o].q] /\ e = "confirmed"
      BY <2>1 DEF Apply, FundBy, Deep
    <2>5. /\ fund' \in [TradeOrders -> [st : FundStates, out : Outpoints \cup {Null}]]
          /\ fund'[o].st = st /\ fund'[o].out = u
          /\ \A p \in TradeOrders : p # o => fund'[p] = fund[p]
      BY <1>1, <2>2, <2>4 DEF TradeTypeOK, FundStates, Active
    <2>6. /\ order' \in [TradeOrders -> OrderRecords]
          /\ \A p \in TradeOrders : /\ order'[p].q = order[p].q /\ (p # o => order'[p] = order[p])
                                    /\ order[p].st = "none" => order'[p].st = "none"
          /\ order'[o].st # "pago"
      <3>1. CASE order' = order
        BY <1>1, <2>3, <3>1 DEF TradeTypeOK, OrderRecords
      <3>2. CASE order[o].st \in from /\ order' = [order EXCEPT ![o].st = new, ![o].tx = u]
        <4>1. order[o].st # "none" /\ new \in OrderStates /\ new # "pago"
          BY <2>4, <3>2 DEF OrderStates
        <4>2. order \in [TradeOrders -> OrderRecords] /\ u \in Outpoints
          BY <1>1 DEF TradeTypeOK, OrderRecords
        <4>3. order' \in [TradeOrders -> OrderRecords] /\ order'[o].st = new /\ order'[o].q = order[o].q
              /\ \A p \in TradeOrders : p # o => order'[p] = order[p]
          BY <2>2, <3>2, <4>1, <4>2 DEF OrderRecords
        <4> QED
          BY <4>1, <4>3
      <3> QED
        BY <2>4, <3>1, <3>2 DEF OrderTo
    <2>7. OrdersInv'
      <3>1. \A p \in TradeOrders : fund'[p].st = "none" <=> fund[p].st = "none"
        BY <2>3, <2>4, <2>5
      <3> QED
        BY <1>1, <2>6, <3>1, OrdersSame
    <2>8. ConfirmedAreDeep'
      <3>1. \A p \in TradeOrders : fund'[p].st = "confirmed" =>
              /\ fund'[p].out \in Outpoints /\ output[fund'[p].out].deep
              /\ output[fund'[p].out].sats = Expected[order'[p].q]
        <4>1. SUFFICES ASSUME NEW p \in TradeOrders, fund'[p].st = "confirmed"
                       PROVE  /\ fund'[p].out \in Outpoints /\ output[fund'[p].out].deep
                              /\ output[fund'[p].out].sats = Expected[order'[p].q]
          OBVIOUS
        <4>2. CASE p = o
          BY <1>2, <2>4, <2>5, <2>6, <4>1, <4>2
        <4>3. CASE p # o
          BY <2>5, <2>6, <4>1, <4>3 DEF TradeInv, DepositsInv, ConfirmedAreDeep
        <4> QED
          BY <4>2, <4>3
      <3>2. \A m \in ready' : fund'[m[2]].st = "confirmed"
        <4>1. \A m \in ready : m[2] \in TradeOrders /\ fund[m[2]].st = "confirmed"
          BY <1>1 DEF TradeTypeOK, TradeInv, DepositsInv, ConfirmedAreDeep
        <4>2. \A m \in ready : fund'[m[2]].st = "confirmed"
          BY <2>3, <2>5, <4>1
        <4>3. ready' # ready => fund'[o].st = "confirmed" /\ ready' = ready \cup {<<r, o>>}
          BY <2>4, <2>5
        <4> QED
          BY <4>2, <4>3
      <3> QED
        BY <1>1, <3>1, <3>2 DEF TradeInv, DepositsInv, ConfirmedAreDeep
    <2>9. PaidAreFunded'
      <3>1. \A p \in TradeOrders : order'[p].st = "pago" => p # o
        BY <2>6
      <3> QED
        BY <2>5, <2>6, <3>1 DEF TradeInv, DepositsInv, PaidAreFunded
    <2>10. TradeTypeOK'
      BY <1>1, <2>2, <2>4, <2>5, <2>6 DEF TradeTypeOK, OrderRecords
    <2> QED
      BY <1>1, <2>7, <2>8, <2>9, <2>10, GateSame DEF TradeInv, DepositsInv
  <1> QED
    BY <1>3, <1>4 DEF ApplyBTCSellFundingEvent

LEMMA ConfirmKeeps ==
  ASSUME TradeInv, NEW r \in Replicas, NEW o \in TradeOrders, ConfirmSellDepositForPayout(r, o)
  PROVE  TradeInv'
  <1>1. /\ UNCHANGED <<issued, op, by, outdated, fund, call, output, seen, bus>> /\ TradeTypeOK
        /\ <<r, o>> \in ready /\ ready' = ready \ {<<r, o>>}
    BY DEF ConfirmSellDepositForPayout, gate, TradeInv
  <1>2. fund[o].st = "confirmed" /\ fund[o].out \in Outpoints
    <2>1. fund[o].st = "confirmed"
      BY <1>1 DEF TradeInv, DepositsInv, ConfirmedAreDeep
    <2> QED
      BY <2>1 DEF TradeInv, DepositsInv, ConfirmedAreDeep
  <1>3. CASE UNCHANGED order
    <2>1. ConfirmedAreDeep' /\ PaidAreFunded'
      BY <1>1, <1>3 DEF TradeInv, DepositsInv, ConfirmedAreDeep, PaidAreFunded
    <2>2. GateInv' /\ OrdersInv'
      BY <1>1, <1>3, GateSame, OrdersSame
    <2>3. TradeTypeOK'
      BY <1>1, <1>3 DEF TradeTypeOK
    <2> QED
      BY <2>1, <2>2, <2>3 DEF TradeInv, DepositsInv
  <1>4. CASE /\ order[o].st \in {"aguardando_deposito", "aguardando_validacao"}
             /\ UnusedKey(fund[o].out, o)
             /\ order' = [order EXCEPT ![o].st = "pago", ![o].tx = fund[o].out]
    <2>1. /\ order' \in [TradeOrders -> OrderRecords]
          /\ order'[o].st = "pago" /\ order'[o].tx = fund[o].out /\ order'[o].q = order[o].q
          /\ \A p \in TradeOrders : p # o => order'[p] = order[p] /\ order[p].tx # fund[o].out
      <3> DEFINE to == [order[o] EXCEPT !.st = "pago", !.tx = fund[o].out]
      <3>1. to \in OrderRecords /\ to.st = "pago" /\ to.q = order[o].q /\ to.tx = fund[o].out
        BY <1>1, <1>2 DEF TradeTypeOK, OrderRecords, OrderStates
      <3>2. order' = [order EXCEPT ![o] = to] /\ order \in [TradeOrders -> OrderRecords]
        BY <1>1, <1>4 DEF TradeTypeOK, OrderRecords
      <3>3. \A p \in TradeOrders : p # o => order[p].tx # fund[o].out
        BY <1>4 DEF UnusedKey
      <3> HIDE DEF to
      <3> QED
        BY <1>1, <3>1, <3>2, <3>3
    <2>2. OrdersInv'
      <3>1. \A p \in TradeOrders : /\ order'[p].q = order[p].q
                                   /\ order[p].st = "none" => order'[p].st = "none"
        BY <1>4, <2>1
      <3> QED
        BY <1>1, <3>1, OrdersSame
    <2>3. ConfirmedAreDeep'
      <3>1. \A p \in TradeOrders : order'[p].q = order[p].q
        BY <2>1
      <3> QED
        BY <1>1, <3>1 DEF TradeInv, DepositsInv, ConfirmedAreDeep
    <2>4. PaidAreFunded'
      BY <1>1, <1>2, <2>1 DEF TradeInv, DepositsInv, PaidAreFunded
    <2>5. TradeTypeOK'
      BY <1>1, <2>1 DEF TradeTypeOK, OrderRecords
    <2> QED
      BY <1>1, <2>2, <2>3, <2>4, <2>5, GateSame DEF TradeInv, DepositsInv
  <1> QED
    BY <1>3, <1>4 DEF ConfirmSellDepositForPayout

-----------------------------------------------------------------------------
LEMMA TradeNextInv ==
  ASSUME TradeInv, [TradeNext]_tradevars
  PROVE  TradeInv'
  <1>1. CASE UNCHANGED tradevars
    <2>1. TradeTypeOK'
      BY <1>1 DEF tradevars, TradeInv, TradeTypeOK
    <2>2. GateInv' /\ OrdersInv'
      BY <1>1, GateSame, OrdersSame DEF tradevars
    <2>3. DepositsInv'
      BY <1>1, DepositsStay DEF tradevars
    <2> QED
      BY <2>1, <2>2, <2>3 DEF TradeInv
  <1>2. CASE \E c \in Calls, k \in Keys : \E q \in Carries[k] : Begin(c, k, q)
    BY <1>2, BeginTradeKeeps
  <1>3. ASSUME NEW c \in Calls, \/ ConsumeMobileTradeQuote(c) \/ AnswerTrade(c) \/ Stops(c)
                                \/ ActiveBTCSellFundingOrderForQuote(c) \/ CreateSaleOrder(c)
                                \/ CreateBTCSellFunding(c)
                                \/ MobileSell(c) \/ MobileBuy(c) \/ WriteDegradedMobileBuy(c)
        PROVE  TradeInv'
    BY <1>3, ConsumeQuoteKeeps, AnswerTradeKeeps, RequestEndsOrLooks, CreateSaleOrderKeeps,
       CreateFundingKeeps, ForwardKeeps
  <1>4. CASE \/ \E q \in Quotes : MobileBuyQuote(q) \/ MobileSellQuote(q)
             \/ \E q \in Ending : TermEnds(q)
    <2>1. Ending \subseteq Quotes
      BY MobileTradeAssumption
    <2> QED
      BY <1>4, <2>1, QuoteStepKeeps DEF MobileBuyQuote, MobileSellQuote
  <1>5. CASE \E o \in TradeOrders : CancelOrder(o) \/ ExpireTradeOrder(o)
    BY <1>5, SaleEndsKeeps
  <1>6. CASE \E u \in Outpoints : Deepens(u) \/ \E v \in Values : Deposit(u, v)
    BY <1>6, NetworkKeeps
  <1>7. CASE \E r \in Replicas, u \in Outpoints, e \in {"detected", "confirmed"} :
               Publish(r, u, e) \/ ApplyBTCSellFundingEvent(r, u, e)
    BY <1>7, PublishKeeps, ApplyKeeps
  <1>8. CASE \E r \in Replicas, o \in TradeOrders : ConfirmSellDepositForPayout(r, o)
    BY <1>8, ConfirmKeeps
  <1> QED
    BY <1>1, <1>2, <1>3, <1>4, <1>5, <1>6, <1>7, <1>8 DEF TradeNext

(* What the gate, the quotes and the funding worker promise follows.       *)
LEMMA TradeInvIsEnough ==
  ASSUME TradeInv
  PROVE  TradesAreSound
  <1>1. TradeTypeOK
    BY DEF TradeInv
  <1>2. OneHandlerPerQuote
    <2>1. SUFFICES ASSUME NEW c \in Calls, NEW d \in Calls, Past(c), Past(d), call[c].q = call[d].q
                   PROVE c = d
      BY DEF OneHandlerPerQuote
    <2>2. call[c].key = call[d].key /\ call[c].at # "idle" /\ call[d].at # "idle"
      BY <2>1 DEF TradeInv, GateInv, QuotesServeOne, Past
    <2> QED
      BY <2>2 DEF TradeInv, GateInv, KeysAdmitOne
  <1>3. CompletedMadeAnOrder
    <2>1. SUFFICES ASSUME NEW k \in Keys, op[k].st = "completed"
                   PROVE  LET mine == {o \in TradeOrders : order[o].q = op[k].body}
                              funded == {o \in mine : fund[o].st # "none"}
                          IN  /\ by[op[k].body] = k /\ mine # {}
                              /\ SideOf[op[k].body] = "btc" => Cardinality(funded) = 1
      BY DEF CompletedMadeAnOrder
    <2> DEFINE mine == {o \in TradeOrders : order[o].q = op[k].body}
               funded == {o \in mine : fund[o].st # "none"}
    <2>2. by[op[k].body] = k /\ Made(op[k].body) /\ (SideOf[op[k].body] = "btc" => FundedBy(op[k].body))
      BY <2>1 DEF TradeInv, OrdersInv, CompletedAre
    <2>3. mine # {}
      BY <2>2 DEF Made
    <2>4. ASSUME SideOf[op[k].body] = "btc" PROVE Cardinality(funded) = 1
      <3>1. PICK o \in TradeOrders : fund[o].st # "none" /\ order[o].q = op[k].body
        BY <2>2, <2>4 DEF FundedBy
      <3>2. \A p \in funded : p = o
        BY <3>1 DEF TradeInv, OrdersInv, FundedOnce
      <3>3. funded = {o}
        BY <3>1, <3>2
      <3> QED
        BY <3>3, FS_Singleton
    <2> QED
      BY <2>2, <2>3, <2>4
  <1>4. PaidWasFunded
    <2>1. SUFFICES ASSUME NEW o \in TradeOrders, order[o].st = "pago"
                   PROVE /\ fund[o].st = "confirmed" /\ fund[o].out = order[o].tx
                         /\ output[order[o].tx].deep /\ output[order[o].tx].sats = Expected[order[o].q]
                         /\ \A p \in TradeOrders \ {o} : order[p].st = "pago" => order[p].tx # order[o].tx
      BY DEF PaidWasFunded
    <2>2. fund[o].st = "confirmed" /\ fund[o].out = order[o].tx
      BY <2>1 DEF TradeInv, DepositsInv, PaidAreFunded
    <2>3. output[order[o].tx].deep /\ output[order[o].tx].sats = Expected[order[o].q]
      BY <2>2 DEF TradeInv, DepositsInv, ConfirmedAreDeep
    <2>4. \A p \in TradeOrders \ {o} : order[p].st = "pago" => order[p].tx # order[o].tx
      BY <2>1 DEF TradeInv, DepositsInv, PaidAreFunded
    <2> QED
      BY <2>2, <2>3, <2>4
  <1> QED
    BY <1>1, <1>2, <1>3, <1>4 DEF TradesAreSound

(* One request at a time works on a quote, a key answered as completed made*)
(* the order of its quote, and a sale of BTC is paid for one deposit of its*)
(* own: TradesAreSound, for every set of keys, quotes, replicas and outputs.*)
THEOREM MobileTradesAreSound == TradeSpec => []TradesAreSound
  <1>1. TradeSpec => []TradeInv
    BY TradeInitInv, TradeNextInv, PTL DEF TradeSpec
  <1>2. TradeInv => TradesAreSound
    BY TradeInvIsEnough
  <1> QED
    BY <1>1, <1>2, PTL
=============================================================================
