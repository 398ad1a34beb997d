---------------------------- MODULE SolanaWallet ----------------------------
(***************************************************************************)
(* The Solana rail of the app's wallets: withdrawals (Service.Send, one    *)
(* goroutine per request), and the worker of each replica, which in turn   *)
(* scans deposits and tracks withdrawals.  A withdrawal is a row under an  *)
(* idempotency key; its transaction is signed once, persisted, and only    *)
(* then sent.  Statuses are written by signature, whatever the row holds.  *)
(* Amounts are left out: the balance may not do at any request.            *)
(* External: the RPC nodes, which refuse a question about an empty         *)
(* signature, and the chain.  A call goes from one node to the next, so a  *)
(* refusal does not mean that no node took the transaction.                *)
(***************************************************************************)
EXTENDS FiniteSets, Naturals

CONSTANTS Sends,     \* calls of Send for one user
          KeyOfSend, \* their idempotency keys
          Replicas,  \* each with one worker
          Deposits,  \* transactions that pay the user's address
          NoSig

(* No request is the absence of one.                                      *)
ASSUME SolanaAssumption == NoSig \notin Sends

VARIABLES entry,   \* sol_transactions: the status of a key's withdrawal
          sig,     \* the request whose transaction the row has, if signed
          call,    \* where a request is, and the status it is to write
          net,     \* what became of the transaction a request has signed
          worker,  \* where a worker is, its list, and what it is to write
          arrived, \* deposits the nodes show
          drow     \* sol_transactions: rows of a deposit

solvars == <<entry, sig, call, net, worker, arrived, drow>>

SendKeys == {KeyOfSend[r] : r \in Sends}

Out == {"sent", "moved", "failed"}
Statuses == {"none", "created", "reserved", "signed", "submitted", "submit_unknown", "pending",
             "confirmed", "finalized", "failed", "failed_before_submit", "manual_review",
             "rebuild_required"}
Call == [step : {"idle", "reserve", "sign", "send", "write", "done"}, write : Statuses \cup {NoSig}]
Listed == [sig : Sends \cup {NoSig}, read : Statuses]
Worker == [step : {"idle", "ask", "row", "insert"}, on : Sends \cup Deposits \cup {NoSig},
           todo : UNION {[ks -> Listed] : ks \in SUBSET SendKeys}, write : Statuses \cup {NoSig}]

Step(step) == [step |-> step, write |-> NoSig]
Writing(status) == [step |-> "write", write |-> status]
AtStep(r, step) == call[r].step = step
Goes(r, s) == call' = [call EXCEPT ![r] = s]
Resting == [step |-> "idle", todo |-> [k \in {} |-> NoSig], on |-> NoSig, write |-> NoSig]

SolanaInit ==
    /\ entry = [k \in SendKeys |-> "none"] /\ sig = [k \in SendKeys |-> NoSig]
    /\ call = [r \in Sends |-> Step("idle")] /\ net = [r \in Sends |-> "none"]
    /\ worker = [w \in Replicas |-> Resting]
    /\ arrived = {} /\ drow = [d \in Deposits |-> 0]

-----------------------------------------------------------------------------
(* claimWithdrawal: the request that inserts the row owns the withdrawal;  *)
(* the others are answered from the row.                                   *)
OwnsAgain(k) == entry[k] \in {"none", "failed_before_submit"}
Owns(k) == entry[k] = "none"
ClaimWithdrawal(r) == LET k == KeyOfSend[r] IN
    /\ AtStep(r, "idle")
    /\ IF Owns(k) THEN /\ entry' = [entry EXCEPT ![k] = "created"]
                       /\ \E s \in {"reserve", "done"} : Goes(r, Step(s))
       ELSE Goes(r, Step("done")) /\ UNCHANGED entry
    /\ UNCHANGED <<sig, net, worker, arrived, drow>>

(* reserveWithdrawal, after the balance and the fee.  Without enough       *)
(* balance the update to failed_before_submit is rolled back.              *)
ReserveWithdrawal(r) == LET k == KeyOfSend[r] IN
    /\ AtStep(r, "reserve")
    /\ \/ /\ entry[k] = "created" /\ entry' = [entry EXCEPT ![k] = "reserved"]
          /\ \E s \in {"sign", "done"} : Goes(r, Step(s))
       \/ Goes(r, Step("done")) /\ UNCHANGED entry
    /\ UNCHANGED <<sig, net, worker, arrived, drow>>

(* GetLatestBlockhash, BuildSOLTransfer and persistSigned.                 *)
PersistSigned(r) == LET k == KeyOfSend[r] IN
    /\ AtStep(r, "sign")
    /\ \/ /\ IF entry[k] = "reserved"
             THEN entry' = [entry EXCEPT ![k] = "signed"] /\ sig' = [sig EXCEPT ![k] = r]
             ELSE UNCHANGED <<entry, sig>>
          /\ net' = [net EXCEPT ![r] = "signed"]
          /\ \E s \in {"send", "done"} : Goes(r, Step(s))
       \/ Goes(r, Step("done")) /\ UNCHANGED <<entry, sig, net>>
    /\ UNCHANGED <<worker, arrived, drow>>

(* What SendTransaction may do to the transaction, and what it may return: *)
(* accepted, or known already; no answer; or a refusal.                    *)
Accepted(r) == IF net[r] = "signed" THEN [net EXCEPT ![r] = "sent"] ELSE net
SendSigned(r) ==
    /\ AtStep(r, "send")
    /\ \/ net[r] # "expired" /\ net' = Accepted(r) /\ Goes(r, Writing("submitted"))
       \/ /\ net' \in {net, Accepted(r)}
          /\ \E s \in {"submit_unknown", "failed_before_submit", "manual_review"} :
                Goes(r, Writing(s))
    /\ UNCHANGED <<entry, sig, worker, arrived, drow>>

(* markSubmitStatus and updateTransactionStatus: every row with the        *)
(* signature, whatever its status.                                         *)
WithStatus(r, status) == [k \in SendKeys |-> IF sig[k] = r THEN status ELSE entry[k]]
MarkSubmitStatus(r) ==
    /\ AtStep(r, "write") /\ Goes(r, Step("done"))
    /\ entry' \in {entry, WithStatus(r, call[r].write)}
    /\ UNCHANGED <<sig, net, worker, arrived, drow>>

(* The process stops, or the client leaves and the context is cancelled.   *)
SendStops(r) ==
    /\ call[r].step \notin {"idle", "done"} /\ Goes(r, Step("done"))
    /\ UNCHANGED <<entry, sig, net, worker, arrived, drow>>

-----------------------------------------------------------------------------
(* pendingWithdrawals: the rows, with the statuses read now.               *)
Pending == {"reserved", "signed", "submitted", "submit_unknown", "broadcast"}
PendingWithdrawals(w) == LET ks == {k \in SendKeys : entry[k] \in Pending} IN
    /\ worker[w] = Resting /\ ks # {}
    /\ worker' = [worker EXCEPT ![w] = [Resting EXCEPT !.step = "ask",
         !.todo = [k \in ks |-> [sig |-> sig[k], read |-> entry[k]]]]]
    /\ UNCHANGED <<entry, sig, call, net, arrived, drow>>

(* GetSignatureStatuses, one call for the list: a row not yet signed has   *)
(* the empty signature, and the call fails for all of them.  The answer for*)
(* a row is drawn when the row's turn comes; "pending" may be an old one.  *)
Answer(r) == CASE net[r] = "moved" -> {"pending", "confirmed", "finalized"}
               [] net[r] = "failed" -> {"pending", "failed"}
               [] OTHER -> {"pending"}
GetSignatureStatuses(w) == LET todo == worker[w].todo IN
    /\ worker[w].step = "ask"
    /\ worker' = [worker EXCEPT ![w] =
         IF \E k \in DOMAIN todo : todo[k].sig = NoSig THEN Resting
         ELSE [@ EXCEPT !.step = "row"]]
    /\ UNCHANGED <<entry, sig, call, net, arrived, drow>>

Left(w) == DOMAIN worker[w].todo
Handled(w, k) == [worker[w] EXCEPT !.todo = [j \in Left(w) \ {k} |-> worker[w].todo[j]]]
Move(w, s) == worker' = [worker EXCEPT ![w] = s]

(* rebroadcastSigned: the same bytes again, unless the chain has passed    *)
(* their last block; a refusal asks for a review.                          *)
RebroadcastSigned(w, k) == LET r == worker[w].todo[k].sig
                               write(s) == Move(w, [Handled(w, k) EXCEPT !.on = r, !.write = s]) IN
    \/ net[r] \in {"expired", "moved", "failed"} /\ write("rebuild_required") /\ UNCHANGED net
    \/ net[r] # "expired" /\ net' = Accepted(r) /\ write("submitted")
    \/ /\ net' \in {net, Accepted(r)}
       /\ \E s \in {"submit_unknown", "manual_review"} : write(s)

(* One row of TrackWithdrawals.  A submitted withdrawal of which the chain *)
(* knows nothing yet becomes "pending", which no list holds.               *)
TrackWithdrawal(w, k) == LET u == worker[w].todo[k] IN
    /\ worker[w].step = "row" /\ worker[w].write = NoSig
    /\ \E answer \in Answer(u.sig) :
         \/ answer = "pending" /\ u.read = "signed" /\ RebroadcastSigned(w, k)
         \/ /\ answer = "pending" /\ u.read = "submit_unknown"
            /\ Move(w, Handled(w, k)) /\ UNCHANGED net
         \/ /\ answer # "pending" \/ u.read \notin {"signed", "submit_unknown"}
            /\ Move(w, [Handled(w, k) EXCEPT !.on = u.sig, !.write = answer])
            /\ UNCHANGED net
    /\ UNCHANGED <<entry, sig, call, arrived, drow>>

UpdateTransactionStatus(w) ==
    /\ worker[w].step = "row" /\ worker[w].write # NoSig
    /\ entry' \in {entry, WithStatus(worker[w].on, worker[w].write)}
    /\ Move(w, [worker[w] EXCEPT !.on = NoSig, !.write = NoSig])
    /\ UNCHANGED <<sig, call, net, arrived, drow>>

(* The end of the list, an error, the timeout, or the process stops.       *)
EndsRound(w) ==
    /\ worker[w] # Resting /\ Move(w, Resting)
    /\ UNCHANGED <<entry, sig, call, net, arrived, drow>>

-----------------------------------------------------------------------------
(* SyncAddress: a deposit not seen is fetched, and its row inserted; on a  *)
(* conflict of receive_key the row is updated.                             *)
SeenReceiveKey(w, d) ==
    /\ worker[w] = Resting /\ d \in arrived /\ drow[d] = 0
    /\ Move(w, [Resting EXCEPT !.step = "insert", !.on = d])
    /\ UNCHANGED <<entry, sig, call, net, arrived, drow>>

InsertTransaction(w) == LET d == worker[w].on IN
    /\ worker[w].step = "insert" /\ Move(w, Resting)
    /\ drow' = [drow EXCEPT ![d] = IF @ = 0 THEN 1 ELSE @]
    /\ UNCHANGED <<entry, sig, call, net, arrived>>

-----------------------------------------------------------------------------
(* External: the chain moves what it was sent, refuses it at execution, or *)
(* passes its last block.                                                  *)
Lands(r) ==
    /\ \/ net[r] = "sent" /\ net' \in {[net EXCEPT ![r] = "moved"], [net EXCEPT ![r] = "failed"]}
       \/ net[r] \in {"signed", "sent"} /\ net' = [net EXCEPT ![r] = "expired"]
    /\ UNCHANGED <<entry, sig, call, worker, arrived, drow>>

Arrives(d) ==
    /\ d \notin arrived /\ arrived' = arrived \cup {d}
    /\ UNCHANGED <<entry, sig, call, net, worker, drow>>

SolanaNext ==
    \/ \E r \in Sends :
         \/ ClaimWithdrawal(r) \/ ReserveWithdrawal(r) \/ PersistSigned(r)
         \/ SendSigned(r) \/ MarkSubmitStatus(r) \/ SendStops(r) \/ Lands(r)
    \/ \E w \in Replicas :
         \/ PendingWithdrawals(w) \/ GetSignatureStatuses(w) \/ UpdateTransactionStatus(w)
         \/ EndsRound(w) \/ InsertTransaction(w)
         \/ \E k \in Left(w) : TrackWithdrawal(w, k)
         \/ \E d \in Deposits : SeenReceiveKey(w, d)
    \/ \E d \in Deposits : Arrives(d)

SolanaSpec == SolanaInit /\ [][SolanaNext]_solvars

-----------------------------------------------------------------------------
SolanaTypeOK ==
    /\ entry \in [SendKeys -> Statuses] /\ sig \in [SendKeys -> Sends \cup {NoSig}]
    /\ call \in [Sends -> Call] /\ worker \in [Replicas -> Worker]
    /\ net \in [Sends -> Out \cup {"none", "signed", "expired"}]
    /\ arrived \subseteq Deposits /\ drow \in [Deposits -> Nat]

(* One transaction leaves for a key, whoever repeats the request, and the  *)
(* row held its signature and bytes before it left.                        *)
SentIsRecorded ==
    \A r \in Sends : net[r] \in Out => sig[KeyOfSend[r]] = r

(* What the row says of the chain is so, over the worker's late writes and *)
(* those of Send.                                                          *)
ConfirmedIsTrue == \A k \in SendKeys :
    /\ entry[k] \in {"confirmed", "finalized"} => sig[k] # NoSig /\ net[sig[k]] = "moved"
    /\ entry[k] = "failed" => sig[k] # NoSig /\ net[sig[k]] = "failed"

(* Two replicas that scan the same deposit count it once.                  *)
DepositsOnce == \A d \in Deposits : drow[d] <= 1 /\ (drow[d] = 1 => d \in arrived)

(* The Solana rail moves, and counts, once.                                *)
SolanaMovesOnce == SentIsRecorded /\ ConfirmedIsTrue /\ DepositsOnce
=============================================================================
