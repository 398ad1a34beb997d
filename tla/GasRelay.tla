------------------------------ MODULE GasRelay ------------------------------
(***************************************************************************)
(* The gas station.  SubmitRelay locks the signature, stores the relay and *)
(* hands its job to the batcher, which pays in batches through the signer: *)
(* one contract call for a uniform batch, else a net leg and a fee leg per *)
(* relay.  A poller hands the pending rows over again, without an amount.  *)
(* External: the signer, which executes a key once, and the chain.         *)
(***************************************************************************)
EXTENDS Naturals, FiniteSets

CONSTANTS Relays, \* requests; the row a request makes has its id
          SigOf,  \* the signature a request carries
          Batch   \* batchMaxSize

VARIABLES sigLock,  \* paymaster_sig_locks: signatures held
          relayReq, \* the step each request is at
          relayRow, \* gas_relay_requests.status
          jobs,     \* the channel of the batcher: <<relay, "amount" or "zero">>
          legs,     \* jobs of the current batch that go one by one, and their leg
          multi,    \* the current batch when it is one contract call
          keys,     \* idempotency keys the signer has executed
          netPaid,  \* <<relay, key>>: net amounts sent to the destination
          inFlight  \* calls that may still reach the signer

gasvars == <<sigLock, relayReq, relayRow, jobs, legs, multi, keys, netPaid, inFlight>>
gasStore == <<sigLock, relayRow>>
batcher == <<jobs, legs, multi>>
gasSigner == <<keys, netPaid, inFlight>>

Jobs == Relays \X {"amount", "zero"}
Sigs == {SigOf[r] : r \in Relays}
Net(r) == <<"net", r>>
Fee(r) == <<"fee", r>>
Multicall(js) == <<"multicall", {j[1] : j \in js}>>

GasInit ==
    /\ sigLock = {} /\ relayReq = [r \in Relays |-> "idle"]
    /\ relayRow = [r \in Relays |-> "none"]
    /\ jobs = {} /\ legs = {} /\ multi = {} /\ keys = {} /\ netPaid = {} /\ inFlight = {}

-----------------------------------------------------------------------------
(* AcquireLock: the INSERT decides; its own answer may be lost.            *)
AcquireLock(r) ==
    /\ relayReq[r] = "idle"
    /\ \/ /\ SigOf[r] \notin sigLock /\ relayReq' = [relayReq EXCEPT ![r] = "store"]
          /\ sigLock' = sigLock \cup {SigOf[r]}
       \/ /\ relayReq' = [relayReq EXCEPT ![r] = "done"]
          /\ sigLock' \in {sigLock, sigLock \cup {SigOf[r]}}
    /\ UNCHANGED <<relayRow, batcher, gasSigner>>

LockExpires(s) ==
    /\ s \in sigLock /\ sigLock' = sigLock \ {s}
    /\ UNCHANGED <<relayReq, relayRow, batcher, gasSigner>>

(* EstimateRelay fails, or the row is stored and its job, with the amount, *)
(* enqueued; a full channel drops the job and a lost answer leaves it out. *)
(* ReleaseLock deletes the lock of the signature, whoever took it.         *)
NewSignatureOnly(r) == r \in Relays  \* mutant: without the unique index
NewSignature(r) == \A q \in Relays : relayRow[q] # "none" => SigOf[q] # SigOf[r]
ReleaseLock(r) == sigLock' = sigLock \ {SigOf[r]}
SubmitRelay(r) ==
    /\ relayReq[r] = "store" /\ relayReq' = [relayReq EXCEPT ![r] = "done"]
    /\ \/ ReleaseLock(r) /\ UNCHANGED <<relayRow, jobs>>
       \/ /\ NewSignature(r) /\ relayRow' = [relayRow EXCEPT ![r] = "pending"]
          /\ \/ ReleaseLock(r) /\ UNCHANGED jobs
             \/ jobs' \in {jobs, jobs \cup {<<r, "amount">>}} /\ UNCHANGED sigLock
    /\ UNCHANGED <<legs, multi, gasSigner>>

(* No step leaves "pending" but markDLQ, so every poll finds the row again.*)
PollPendingRelays(r) ==
    /\ relayRow[r] = "pending" /\ jobs' = jobs \cup {<<r, "zero">>}
    /\ UNCHANGED <<gasStore, relayReq, legs, multi, gasSigner>>

-----------------------------------------------------------------------------
CanMulticall(js) == Cardinality(js) > 1 /\ \A j \in js : j[2] = "amount"
BatcherFree == legs = {} /\ multi = {}

(* collectBatch and dispatchBatch, up to the size.  The channel is a set: a*)
(* job of the poll may come before the one of its request, as when the row *)
(* is polled between the two steps of SubmitRelay.                         *)
CollectBatch ==
    /\ BatcherFree
    /\ \E js \in SUBSET jobs :
         /\ js # {} /\ Cardinality(js) <= Batch /\ jobs' = jobs \ js
         /\ IF CanMulticall(js) THEN multi' = js /\ UNCHANGED legs
            ELSE legs' = {<<j, "net">> : j \in js} /\ UNCHANGED multi
    /\ UNCHANGED <<gasStore, relayReq, gasSigner>>

(* External: the signer executes a call whose key is new, and repeats its  *)
(* first answer otherwise (a call on its way with that key then does       *)
(* nothing more).  An amount of zero pays nobody, if it is taken.          *)
Effect(c) ==
    IF c.key \in keys THEN UNCHANGED gasSigner
    ELSE /\ keys' = keys \cup {c.key}
         /\ netPaid' = netPaid \cup {<<r, c.key>> : r \in c.pays}
         /\ inFlight' = {d \in inFlight : d.key # c.key}
SignerRequest(key, pays) == [key |-> key, pays |-> pays]

(* ExecuteWithRetry of signerTransfer or signerContractCall: it worked, or *)
(* it was refused with a 4xx, or four attempts ended without an answer.    *)
RequestFails(c) ==
    \/ Effect(c)
    \/ /\ c.key \notin keys /\ inFlight' \in {inFlight, inFlight \cup {c}}
       /\ UNCHANGED <<keys, netPaid>>

MarkDLQ(rs) ==
    relayRow' \in {relayRow, [r \in Relays |-> IF r \in rs THEN "dlq" ELSE relayRow[r]]}

(* dispatchMulticallBatch.                                                 *)
MulticallAll == SignerRequest(Multicall(multi), {j[1] : j \in multi})
MulticallFailed ==
    RequestFails(MulticallAll) /\ MarkDLQ({j[1] : j \in multi}) /\ UNCHANGED legs
DispatchMulticallBatch ==
    /\ multi # {} /\ multi' = {}
    /\ \/ Effect(MulticallAll) /\ UNCHANGED <<relayRow, legs>>
       \/ MulticallFailed
    /\ UNCHANGED <<sigLock, relayReq, jobs>>

(* dispatchOne: the fee leg follows a net leg that worked and was split.   *)
NetRequest(j) == SignerRequest(Net(j[1]), IF j[2] = "amount" THEN {j[1]} ELSE {})
NetLeg(j) ==
    /\ <<j, "net">> \in legs
    /\ \/ /\ Effect(NetRequest(j)) /\ UNCHANGED relayRow
          /\ legs' = (legs \ {<<j, "net">>}) \cup (IF j[2] = "amount" THEN {<<j, "fee">>} ELSE {})
       \/ RequestFails(NetRequest(j)) /\ MarkDLQ({j[1]}) /\ legs' = legs \ {<<j, "net">>}
    /\ UNCHANGED <<sigLock, relayReq, jobs, multi>>
FeeRequest(j) == SignerRequest(Fee(j[1]), {})
FeeLeg(j) ==
    /\ <<j, "fee">> \in legs /\ legs' = legs \ {<<j, "fee">>}
    /\ \/ Effect(FeeRequest(j)) /\ UNCHANGED relayRow
       \/ RequestFails(FeeRequest(j)) /\ MarkDLQ({j[1]})
    /\ UNCHANGED <<sigLock, relayReq, jobs, multi>>

RequestArrives(c) ==
    c \in inFlight /\ Effect(c) /\ UNCHANGED <<gasStore, relayReq, batcher>>

(* The process stops: its channel and its batch are gone, a call that was  *)
(* on its way may still arrive.                                            *)
OnTheWay == {IF l[2] = "net" THEN NetRequest(l[1]) ELSE FeeRequest(l[1]) : l \in legs}
            \cup (IF multi = {} THEN {} ELSE {MulticallAll})
BatcherStops ==
    /\ ~BatcherFree \/ jobs # {} \/ \E r \in Relays : relayReq[r] = "store"
    /\ jobs' = {} /\ legs' = {} /\ multi' = {}
    /\ relayReq' = [r \in Relays |-> IF relayReq[r] = "store" THEN "done" ELSE relayReq[r]]
    /\ \E cs \in SUBSET OnTheWay : inFlight' = inFlight \cup {c \in cs : c.key \notin keys}
    /\ UNCHANGED <<gasStore, keys, netPaid>>

GasNext ==
    \/ \E r \in Relays : AcquireLock(r) \/ SubmitRelay(r) \/ PollPendingRelays(r)
    \/ \E s \in Sigs : LockExpires(s)
    \/ CollectBatch \/ DispatchMulticallBatch \/ BatcherStops
    \/ \E j \in Jobs : NetLeg(j) \/ FeeLeg(j)
    \/ \E c \in inFlight : RequestArrives(c)

GasSpec == GasInit /\ [][GasNext]_gasvars

-----------------------------------------------------------------------------
GasTypeOK ==
    /\ sigLock \subseteq Sigs /\ jobs \subseteq Jobs /\ legs \subseteq Jobs \X {"net", "fee"}
    /\ multi \subseteq Relays \X {"amount"}
    /\ relayReq \in [Relays -> {"idle", "store", "done"}]
    /\ relayRow \in [Relays -> {"none", "pending", "dlq"}]

(* A signature pays at most once, over locks that ran out, lost answers,   *)
(* polls, batches cut off by a stop and calls that arrive late.            *)
SignaturePaysOnce == \A p, q \in netPaid : SigOf[p[1]] = SigOf[q[1]] => p = q

(* Nothing is paid that was not stored first, and no fee is taken for a    *)
(* relay whose net leg the signer never executed.                          *)
PaidIsStored == \A p \in netPaid : relayRow[p[1]] # "none"
FeeFollowsNet == \A r \in Relays : Fee(r) \in keys => Net(r) \in keys

(* The three together, for the runs.                                       *)
RelayPaysOnce == GasTypeOK /\ SignaturePaysOnce /\ PaidIsStored /\ FeeFollowsNet
=============================================================================
