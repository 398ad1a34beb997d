--------------------------- MODULE WalletTransfer ---------------------------
(***************************************************************************)
(* Transfers of a custodial EVM wallet from the app.  The handler records  *)
(* a row under the request's idempotency key, may have the signer send gas *)
(* to the wallet, reads the pending nonce, signs, and broadcasts; several  *)
(* handlers may do so for one wallet at once.  The gate in front of the    *)
(* handler (MobileTrade) is left out: nothing here relies on it.           *)
(* External: the nodes, which may know different pools, and the chain,     *)
(* which takes one transaction for a nonce, in order.                      *)
(***************************************************************************)
EXTENDS Naturals, FiniteSets

CONSTANTS Requests,  \* HTTP requests of one user
          KeyOf,     \* the idempotency key a request carries
          Sponsored, \* keys whose transfer asks for gas
          None

VARIABLES row,   \* mobile_wallet_transfers of a key: its status and hash
          req,   \* where a request is, and the nonce it has read
          pool,  \* signed transactions <<key, nonce>> some node holds
          mined, \* the transactions of the chain, by nonce
          gas    \* keys whose gas the signer has sent

transfervars == <<row, req, pool, mined, gas>>
outside == <<pool, mined, gas>>

Keys == {KeyOf[r] : r \in Requests}
Absent == [status |-> "none", hash |-> None]
At(step) == [step |-> step, nonce |-> None]
Here(r, step) == req[r].step = step
Goto(r, step) == req' = [req EXCEPT ![r] = At(step)]
Mined == {mined[n] : n \in DOMAIN mined}

TransferInit ==
    /\ row = [k \in Keys |-> Absent] /\ req = [r \in Requests |-> At("idle")]
    /\ pool = {} /\ mined = <<>> /\ gas = {}

-----------------------------------------------------------------------------
(* mobileTransferByIdempotency: a row that is there answers the request,   *)
(* and so does an error of the query.                                      *)
LookUp(r) ==
    /\ Here(r, "idle")
    /\ \/ Goto(r, "done")
       \/ row[KeyOf[r]] = Absent /\ Goto(r, "record")
    /\ UNCHANGED <<row, outside>>

(* RecordMobileWalletTransfer: a placeholder for the hash; the column's    *)
(* default gives the status.  A lost answer ends the request.              *)
IsNewAnyway(k) == k \in Keys  \* mutant: without the conflict clause
IsNew(k) == row[k] = Absent
RecordMobileWalletTransfer(r) == LET k == KeyOf[r] IN
    /\ Here(r, "record")
    /\ \/ /\ IsNew(k) /\ row' = [row EXCEPT ![k] = [status |-> "submitted", hash |-> None]]
          /\ \E s \in {IF k \in Sponsored THEN "sponsor" ELSE "nonce", "done"} : Goto(r, s)
       \/ Goto(r, "done") /\ UNCHANGED row
    /\ UNCHANGED outside

(* The UPDATE of a failure is not checked for an error.                    *)
TransferFails(r) ==
    /\ row' \in {row, [row EXCEPT ![KeyOf[r]].status = "failed"]}
    /\ Goto(r, "done")

(* ensureSponsoredBSCGas: enough balance, or a transfer of the signer under*)
(* a key made of the idempotency key, whose answer may be lost.            *)
EnsureSponsoredBSCGas(r) ==
    /\ Here(r, "sponsor")
    /\ \/ Goto(r, "nonce") /\ gas' \in {gas, gas \cup {KeyOf[r]}} /\ UNCHANGED row
       \/ TransferFails(r) /\ gas' \in {gas, gas \cup {KeyOf[r]}}
    /\ UNCHANGED <<pool, mined>>

(* PendingNonceAt: the node counts the transactions it knows, in order.    *)
Height == Cardinality(DOMAIN mined)
PendingNonces == {n \in Height .. Height + Cardinality(pool) :
                    \A m \in Height .. n - 1 : \E t \in pool : t[2] = m}
PendingNonceAt(r) ==
    /\ Here(r, "nonce")
    /\ \/ /\ \E n \in PendingNonces : req' = [req EXCEPT ![r] = [step |-> "send", nonce |-> n]]
          /\ UNCHANGED row
       \/ TransferFails(r)
    /\ UNCHANGED <<pool, mined, gas>>

(* SendTransaction: the node took it, refused it (the nonce is used, or    *)
(* another transaction of its pool has it), or its answer was lost.        *)
SendTransaction(r) == LET t == <<KeyOf[r], req[r].nonce>> IN
    /\ Here(r, "send")
    /\ \/ /\ t[2] >= Height /\ pool' = pool \cup {t} /\ UNCHANGED row
          /\ req' = [req EXCEPT ![r].step = "write"]
       \/ t[2] >= Height /\ pool' = pool \cup {t} /\ TransferFails(r)
       \/ TransferFails(r) /\ UNCHANGED pool
    /\ UNCHANGED <<mined, gas>>

(* The hash and the status; the answer is "submitted" either way.          *)
Submitted(r) ==
    /\ Here(r, "write") /\ Goto(r, "done")
    /\ row' \in {row, [row EXCEPT ![KeyOf[r]] = [status |-> "submitted", hash |-> req[r].nonce]]}
    /\ UNCHANGED outside

(* The process stops, or the client leaves and cancels the context.        *)
Stops(r) ==
    /\ ~Here(r, "idle") /\ ~Here(r, "done") /\ Goto(r, "done")
    /\ pool' \in IF Here(r, "send") /\ req[r].nonce >= Height
                 THEN {pool, pool \cup {<<KeyOf[r], req[r].nonce>>}} ELSE {pool}
    /\ UNCHANGED <<row, mined, gas>>

(* External: the chain takes one transaction for its next nonce, and the   *)
(* others of that nonce are void.                                          *)
Mine(t) ==
    /\ t \in pool /\ t[2] = Height
    /\ mined' = [n \in DOMAIN mined \cup {Height} |-> IF n = Height THEN t[1] ELSE mined[n]]
    /\ pool' = {u \in pool : u[2] # Height}
    /\ UNCHANGED <<row, req, gas>>

TransferNext ==
    \/ \E r \in Requests :
         \/ LookUp(r) \/ RecordMobileWalletTransfer(r) \/ EnsureSponsoredBSCGas(r)
         \/ PendingNonceAt(r) \/ SendTransaction(r) \/ Submitted(r) \/ Stops(r)
    \/ \E t \in pool : Mine(t)

TransferSpec == TransferInit /\ [][TransferNext]_transfervars

-----------------------------------------------------------------------------
TransferTypeOK ==
    /\ row \in [Keys -> [status : {"none", "submitted", "failed"}, hash : Nat \cup {None}]]
    /\ req \in [Requests -> [step : {"idle", "record", "sponsor", "nonce", "send", "write",
                                     "done"}, nonce : Nat \cup {None}]]
    /\ pool \subseteq Keys \X Nat /\ Mined \subseteq Keys
    /\ gas \subseteq Keys

(* A key moves the wallet's tokens at most once, over repeated requests,   *)
(* lost answers, failures that were not failures, and stops.               *)
Copies(k) == Cardinality({n \in DOMAIN mined : mined[n] = k})
             + Cardinality({t \in pool : t[1] = k})
TransfersOnce == \A k \in Keys : Copies(k) <= 1

(* A key whose transaction may move or has moved is never without its row, *)
(* so a repeat finds it, and a recorded hash is that of its transaction    *)
(* until another of the wallet takes the nonce.                            *)
HashIsOwn == \A k \in Keys :
    /\ Copies(k) = 1 => row[k].status # "none"
    /\ row[k].hash # None =>
         \/ <<k, row[k].hash>> \in pool
         \/ row[k].hash \in DOMAIN mined /\ Copies(k) = (IF mined[row[k].hash] = k THEN 1 ELSE 0)

(* EVM transfers of the app, both parts.                                   *)
TransferMovesOnce == TransfersOnce /\ HashIsOwn
=============================================================================
