----------------------------- MODULE BtcWallet -----------------------------
(***************************************************************************)
(* The custodial Bitcoin wallets: Send claims its key, reserves UTXOs,     *)
(* signs, stores the raw transaction and broadcasts it, one goroutine per  *)
(* request; the tracker of every replica follows what was signed and may   *)
(* broadcast it again; the scanner compares the UTXOs with the provider's. *)
(* One user, UTXOs of equal value; fees and the daily limit are left out.  *)
(* External: the network, which takes a transaction if no other one spends *)
(* its inputs; nothing is evicted and no block is reorganised.             *)
(***************************************************************************)
EXTENDS Naturals, FiniteSets

CONSTANTS Sends,    \* withdrawals, one idempotency key each
          Coins,    \* btc_utxos, recorded and confirmed
          PerSend,  \* UTXOs a withdrawal takes
          Trackers, \* replicas running BTCWorker
          None

ASSUME BtcWalletAssumption == PerSend \in Nat /\ None \notin Sends

VARIABLES row,    \* btc_transactions.status
          coin,   \* btc_utxos.status
          active, \* btc_transaction_inputs with active_spend
          raw,    \* inputs of the persisted signed transaction
          send,   \* the goroutine of each Send
          track,  \* trackConfirmations of each replica
          gone,   \* UTXOs the scanner of each replica did not find listed
          net,    \* external: what the network knows
          posted  \* external: broadcasts whose caller gave up

btcvars == <<row, coin, active, raw, send, track, gone, net, posted>>
books == <<row, coin, active, raw>>
outside == <<net, posted>>

Tracked == {"signed", "broadcast_unknown", "broadcast", "pending"}
Failed == {"failed_before_sign", "failed_before_broadcast"}
TxStatus == {"none", "created", "building", "confirmed", "manual_review"}
            \cup Tracked \cup Failed
CoinStatus == {"confirmed", "reserved", "spent", "orphaned"}
Answers == {"ok", "unknown", "refused"}
SendAt == {"idle", "read", "plan", "sign", "cast", "spend", "release", "fail",
           "done"} \cup Answers
Sending == [at : SendAt, sel : SUBSET Coins, err : {"none", "sign", "persist", "cast"}]
Tracking == [t : Sends \cup {None}, st : TxStatus,
             ans : {"none", "absent", "mempool", "mined", "spend"} \cup Answers]
Resting == [t |-> None, st |-> "none", ans |-> "none"]

WalletInit ==
    /\ row = [t \in Sends |-> "none"] /\ coin = [u \in Coins |-> "confirmed"]
    /\ active = {} /\ raw = [t \in Sends |-> {}]
    /\ send = [t \in Sends |-> [at |-> "idle", sel |-> {}, err |-> "none"]]
    /\ track = [w \in Trackers |-> Resting] /\ gone = [w \in Trackers |-> {}]
    /\ net = [t \in Sends |-> "none"] /\ posted = {}

-----------------------------------------------------------------------------
(* The statements.  UpdateTransactionStatus and -Confirmations never touch *)
(* a confirmed row; UpdateTransactionError has no such guard.              *)
UpdateStatus(t, s) == row' = IF row[t] = "confirmed" THEN row ELSE [row EXCEPT ![t] = s]
UpdateError(t, s) == row' = [row EXCEPT ![t] = s]

Inputs(t) == {u \in Coins : <<t, u>> \in active}
ReleaseSpend(t) ==
    /\ coin' = [u \in Coins |-> IF u \in Inputs(t) /\ coin[u] = "reserved" THEN "confirmed"
                                ELSE coin[u]]
    /\ active' = active \ ({t} \X Coins)
MarkUTXOsSpent(us) == coin' = [u \in Coins |-> IF u \in us THEN "spent" ELSE coin[u]]
MarkTransactionUTXOsSpent(t) ==
    MarkUTXOsSpent({u \in Inputs(t) : coin[u] \in {"reserved", "confirmed"}})

(* PersistSpendPlan: every UTXO is still confirmed, and the unique index   *)
(* on active inputs; otherwise nothing is written.                         *)
Spendable(us) == \A u \in us : coin[u] = "confirmed" /\ u \notin {p[2] : p \in active}
-----------------------------------------------------------------------------
(* Send, statement by statement.                                           *)
Goes(t, at) == send' = [send EXCEPT ![t].at = at]
Fails(t, e) == send' = [send EXCEPT ![t].at = "release", ![t].err = e]

ClaimTransaction(t) ==
    /\ row[t] = "none" /\ send[t].at = "idle"
    /\ row' = [row EXCEPT ![t] = "created"] /\ Goes(t, "read")
    /\ UNCHANGED <<coin, active, raw, track, gone, outside>>

SelectUTXOs(t) ==
    /\ send[t].at = "read"
    /\ \/ \E us \in SUBSET {u \in Coins : coin[u] = "confirmed"} :
            /\ Cardinality(us) = PerSend
            /\ send' = [send EXCEPT ![t].at = "plan", ![t].sel = us]
            /\ UNCHANGED row
       \/ UpdateStatus(t, "failed_before_sign") /\ Goes(t, "done")
    /\ UNCHANGED <<coin, active, raw, track, gone, outside>>

PersistSpendPlan(t) == LET us == send[t].sel IN
    /\ send[t].at = "plan"
    /\ IF Spendable(us)
       THEN /\ coin' = [u \in Coins |-> IF u \in us THEN "reserved" ELSE coin[u]]
            /\ active' = active \cup ({t} \X us)
            /\ row' = [row EXCEPT ![t] = "building"] /\ Goes(t, "sign")
       ELSE /\ UpdateStatus(t, "failed_before_sign") /\ Goes(t, "done")
            /\ UNCHANGED <<coin, active>>
    /\ UNCHANGED <<raw, track, gone, outside>>

(* BuildAndSignTx and UpdateTransactionSigned, whose error may follow a    *)
(* commit.                                                                 *)
Sign(t) ==
    /\ send[t].at = "sign"
    /\ \/ Fails(t, "sign") /\ UNCHANGED <<row, raw>>
       \/ Fails(t, "persist") /\ UNCHANGED <<row, raw>>
       \/ /\ row' = [row EXCEPT ![t] = "signed"] /\ raw' = [raw EXCEPT ![t] = send[t].sel]
          /\ Goes(t, "cast") \/ Fails(t, "persist")
    /\ UNCHANGED <<coin, active, track, gone, outside>>

(* External: the network takes t if no other transaction spends its inputs.*)
Accepts(t) == \A v \in Sends \ {t} : net[v] # "none" => raw[v] \cap raw[t] = {}
Taken(t) == IF net[t] = "none" /\ Accepts(t) THEN [net EXCEPT ![t] = "mempool"] ELSE net

(* BroadcastTransaction: a network error is unknown, any other status than *)
(* 200 and 201 an error, sent by the node or by what stands before it; "ok"*)
(* also stands for a transaction that was already known.                   *)
Posting(t) == {<<Taken(t), posted, "unknown">>, <<net, posted \cup {t}, "unknown">>,
               <<net, posted, "unknown">>, <<net, posted, "refused">>,
               <<Taken(t), posted, "refused">>}
    \cup IF Taken(t)[t] = "none" THEN {} ELSE {<<Taken(t), posted, "ok">>}

SendBroadcasts(t) ==
    /\ send[t].at = "cast"
    /\ \E o \in Posting(t) : net' = o[1] /\ posted' = o[2] /\ Goes(t, o[3])
    /\ UNCHANGED <<books, track, gone>>

SendRecords(t) ==
    /\ \/ send[t].at = "unknown" /\ UpdateStatus(t, "broadcast_unknown") /\ Goes(t, "done")
       \/ send[t].at = "ok" /\ UpdateStatus(t, "broadcast") /\ Goes(t, "spend")
       \/ send[t].at = "refused" /\ Fails(t, "cast") /\ UNCHANGED row
    /\ UNCHANGED <<coin, active, raw, track, gone, outside>>

SendMarksSpent(t) ==
    /\ send[t].at = "spend"
    /\ MarkUTXOsSpent(send[t].sel) /\ Goes(t, "done")
    /\ UNCHANGED <<row, active, raw, track, gone, outside>>

(* A failure after the plan: the inputs are released, then the row fails.  *)
SendReleases(t) ==
    /\ send[t].at = "release"
    /\ ReleaseSpend(t) /\ Goes(t, "fail")
    /\ UNCHANGED <<row, raw, track, gone, outside>>
SendFails(t) ==
    /\ send[t].at = "fail"
    /\ CASE send[t].err = "sign"    -> UpdateStatus(t, "failed_before_sign")
         [] send[t].err = "persist" -> UpdateStatus(t, "failed_before_broadcast")
         [] send[t].err = "cast"    -> UpdateError(t, "failed_before_broadcast")
    /\ Goes(t, "done")
    /\ UNCHANGED <<coin, active, raw, track, gone, outside>>

(* The request is cancelled or the process stops.                          *)
SendStops(t) ==
    /\ send[t].at \notin {"idle", "done"}
    /\ Goes(t, "done")
    /\ UNCHANGED <<books, track, gone, outside>>

-----------------------------------------------------------------------------
(* trackConfirmations: a row as GetPendingTransactions read it, the answer *)
(* of the provider, the write.                                             *)
TrackerReads(w, t) ==
    /\ track[w] = Resting /\ row[t] \in Tracked
    /\ track' = [track EXCEPT ![w] = [t |-> t, st |-> row[t], ans |-> "none"]]
    /\ UNCHANGED <<books, send, gone, outside>>

Hears(w, s) == track' = [track EXCEPT ![w].ans = s]
Rests(w) == track' = [track EXCEPT ![w] = Resting]

TrackerAsks(w) == LET t == track[w].t IN
    /\ t # None /\ track[w].ans = "none"
    /\ \/ net[t] # "none" /\ Hears(w, net[t])
       \/ net[t] = "none" /\ track[w].st = "signed" /\ Hears(w, "absent")
       \/ Rests(w)
    /\ UNCHANGED <<books, send, gone, outside>>

(* ReconcileSignedOrBroadcastUnknown: only a row read as signed is sent.   *)
TrackerBroadcasts(w) == LET t == track[w].t IN
    /\ track[w].ans = "absent"
    /\ \E o \in Posting(t) : net' = o[1] /\ posted' = o[2] /\ Hears(w, o[3])
    /\ UNCHANGED <<books, send, gone>>

(* Mutant: a broadcast that may have been lost is recorded as sent.        *)
SentAs(x, was) == CASE x = "mined" -> "confirmed"
                   [] x = "mempool" -> IF was \in {"signed", "broadcast_unknown"} THEN "broadcast"
                                       ELSE "pending"
                   [] x \in {"ok", "unknown"} -> "broadcast" [] x = "refused" -> "manual_review"

Recorded(x, was) ==
    CASE x = "mined" -> "confirmed"
      [] x = "mempool" -> IF was \in {"signed", "broadcast_unknown"} THEN "broadcast" ELSE "pending"
      [] x = "ok" -> "broadcast" [] x = "unknown" -> "broadcast_unknown"
      [] x = "refused" -> "manual_review"

TrackerWrites(w) == LET t == track[w].t  x == track[w].ans IN
    /\ x \in {"mempool", "mined"} \cup Answers
    /\ UpdateStatus(t, Recorded(x, track[w].st))
    /\ IF x = "mined" /\ track[w].st \in {"signed", "broadcast_unknown"}
       THEN Hears(w, "spend") ELSE Rests(w)
    /\ UNCHANGED <<coin, active, raw, send, gone, outside>>

TrackerMarksSpent(w) ==
    /\ track[w].ans = "spend"
    /\ MarkTransactionUTXOsSpent(track[w].t) /\ Rests(w)
    /\ UNCHANGED <<row, active, raw, send, gone, outside>>

TrackerStops(w) ==
    /\ track[w] # Resting /\ Rests(w)
    /\ UNCHANGED <<books, send, gone, outside>>

-----------------------------------------------------------------------------
(* SyncAddressUTXOsWithEvents: the provider lists what nothing spends; the *)
(* active UTXOs it did not list are orphaned, later and if still active.   *)
(* The upsert of those it lists names $13 for 12 arguments and is refused. *)
Unspent(u) == \A t \in Sends : net[t] # "none" => u \notin raw[t]
ScannerReads(w) ==
    /\ gone[w] = {}
    /\ gone' = [gone EXCEPT ![w] = {u \in Coins : coin[u] = "confirmed" /\ ~Unspent(u)}]
    /\ gone'[w] # {}
    /\ UNCHANGED <<books, send, track, outside>>
MarkUTXOOrphaned(w, u) ==
    /\ u \in gone[w] /\ gone' = [gone EXCEPT ![w] = @ \ {u}]
    /\ coin' = IF coin[u] = "confirmed" THEN [coin EXCEPT ![u] = "orphaned"] ELSE coin
    /\ UNCHANGED <<row, active, raw, send, track, outside>>

(* External.                                                               *)
WireArrives(t) ==
    /\ t \in posted /\ posted' = posted \ {t} /\ net' = Taken(t)
    /\ UNCHANGED <<books, send, track, gone>>
Mined(t) ==
    /\ net[t] = "mempool" /\ net' = [net EXCEPT ![t] = "mined"]
    /\ UNCHANGED <<books, send, track, gone, posted>>

WalletNext ==
    \/ \E t \in Sends : \/ ClaimTransaction(t) \/ SelectUTXOs(t) \/ PersistSpendPlan(t) \/ Sign(t)
                        \/ SendBroadcasts(t) \/ SendRecords(t) \/ SendMarksSpent(t)
                        \/ SendReleases(t) \/ SendFails(t) \/ SendStops(t)
                        \/ WireArrives(t) \/ Mined(t)
    \/ \E w \in Trackers : \/ \E t \in Sends : TrackerReads(w, t)
                           \/ TrackerAsks(w) \/ TrackerBroadcasts(w) \/ TrackerWrites(w)
                           \/ TrackerMarksSpent(w) \/ TrackerStops(w) \/ ScannerReads(w)
                           \/ \E u \in Coins : MarkUTXOOrphaned(w, u)

WalletSpec == WalletInit /\ [][WalletNext]_btcvars

-----------------------------------------------------------------------------
WalletTypeOK ==
    /\ row \in [Sends -> TxStatus] /\ coin \in [Coins -> CoinStatus]
    /\ active \subseteq Sends \X Coins /\ raw \in [Sends -> SUBSET Coins]
    /\ send \in [Sends -> Sending] /\ track \in [Trackers -> Tracking]
    /\ gone \in [Trackers -> SUBSET Coins]
    /\ net \in [Sends -> {"none", "mempool", "mined"}] /\ posted \subseteq Sends

(* What the tables say was sent was sent: a withdrawal recorded broadcast  *)
(* or confirmed is known to the network, and a spent UTXO is an input of   *)
(* one that is, whatever goroutine and tracker wrote last.                 *)
RecordedIsSent ==
    /\ \A t \in Sends : /\ row[t] \in {"broadcast", "pending", "confirmed"} => net[t] # "none"
                        /\ row[t] = "confirmed" => net[t] = "mined"
    /\ \A u \in Coins : coin[u] = "spent" => ~Unspent(u)

(* Two withdrawals never hold one UTXO, whatever both read before.         *)
OneSpender == \A p, q \in active : p[2] = q[2] => p = q

(* The wallets: what is recorded as sent was sent, and an input serves one *)
(* live withdrawal.                                                        *)
WalletBooksAreTrue == WalletTypeOK /\ RecordedIsSent /\ OneSpender
=============================================================================
