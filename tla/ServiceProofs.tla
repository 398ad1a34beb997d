---------------------------- MODULE ServiceProofs ----------------------------
(***************************************************************************)
(* Theorems of four services that pay on behalf of others: the gas station *)
(* (GasRelay), machine-to-machine payments (M2MSettlement), ChainFX Tap    *)
(* (NfcSettlement) and recurring buys (DcaCycle).  They share no state,    *)
(* and each has its own inductive invariant.                               *)
(***************************************************************************)
EXTENDS GasRelay, M2MSettlement, NfcSettlement, DcaCycle, FiniteSetTheorems, TLAPS

(* The gas station.  The money of a relay is in one place at a time: in    *)
(* the channel, in a leg or in a multicall of the batch, in a call on its  *)
(* way, or paid.                                                           *)
Queued(r) == <<r, "amount">> \in jobs
AsLeg(r) == <<<<r, "amount">>, "net">> \in legs
InMulti(r) == <<r, "amount">> \in multi
Travelling(r) == \E c \in inFlight : r \in c.pays
WasPaid(r) == \E p \in netPaid : p[1] = r

KeySet == ({"net", "fee"} \X Relays) \cup ({"multicall"} \X SUBSET Relays)
Requests == [key : KeySet, pays : SUBSET Relays]
GasTyped == /\ GasTypeOK
            /\ keys \subseteq KeySet /\ netPaid \subseteq Relays \X KeySet
            /\ inFlight \subseteq Requests

OnePlace == \A r \in Relays :
    /\ Queued(r) => ~AsLeg(r) /\ ~InMulti(r) /\ ~Travelling(r) /\ ~WasPaid(r)
    /\ AsLeg(r) => ~InMulti(r) /\ ~Travelling(r) /\ ~WasPaid(r)
    /\ InMulti(r) => ~Travelling(r) /\ ~WasPaid(r)
    /\ Travelling(r) => ~WasPaid(r)

OneRequest == \A c, d \in inFlight, r \in Relays : r \in c.pays /\ r \in d.pays => c = d
OnePayment == \A p, q \in netPaid : p[1] = q[1] => p = q

(* Work is done only for rows that exist, and rows have signatures of      *)
(* their own, although a lock may have expired between two requests.       *)
RowsFirst ==
    /\ \A r \in Relays : relayReq[r] # "done" => relayRow[r] = "none"
    /\ \A j \in jobs : relayRow[j[1]] # "none"
    /\ \A l \in legs : relayRow[l[1][1]] # "none"
    /\ \A j \in multi : relayRow[j[1]] # "none"
    /\ \A c \in inFlight : \A r \in c.pays : relayRow[r] # "none"
    /\ PaidIsStored
OwnSignature == \A r, q \in Relays :
    relayRow[r] # "none" /\ relayRow[q] # "none" /\ SigOf[r] = SigOf[q] => r = q

NetsFirst ==
    /\ \A l \in legs : l[2] = "fee" => Net(l[1][1]) \in keys
    /\ \A c \in inFlight, r \in Relays : c.key = Fee(r) => Net(r) \in keys
    /\ FeeFollowsNet

GasInv == /\ GasTyped /\ OnePlace /\ OneRequest /\ OnePayment
          /\ RowsFirst /\ OwnSignature /\ NetsFirst

(* Machine-to-machine payments.                                            *)
Opened == {"none", "pending_deposit", "expired"}
Funding == \A i \in Intents :
    /\ tx[i] # None => /\ AmountOf[tx[i]] >= RequiredOf[i]
                       /\ \A j \in Intents : i # j => tx[i] # tx[j]
    /\ st[i] \notin Opened => tx[i] # None
    /\ efi[i] # "none" \/ i \in wire \/ i \in due \/ i \in told => tx[i] # None
    /\ tx[i] = None => n[i] = 0
    /\ i \in told => n[i] <= MaxAttempts

MatchesSuffice == \A f \in found : AmountOf[f[1]] >= RequiredOf[f[2]]

Settling == \A w \in Settlers :
    /\ task[w].at # "idle" <=> task[w].i # None
    /\ task[w].i # None => st[task[w].i] = "settling" /\ task[w].i \notin due
    /\ task[w].at = "efi" => task[w].i \notin Cards
    /\ task[w].at = "write" =>
         /\ task[w].res # "none"
         /\ task[w].i \in Cards => task[w].res = "paid_crypto"
         /\ task[w].res = "settled" => efi[task[w].i] = "accepted"
         /\ task[w].res = "failed" => efi[task[w].i] = "refused"

Verdicts == \A i \in Intents :
    /\ i \in due => st[i] \in {"settling", "settled"}
    /\ i \notin Cards /\ st[i] = "settled" => efi[i] = "accepted"
    /\ st[i] = "failed" => efi[i] = "refused"

M2MInv == /\ M2MTypeOK /\ Funding /\ MatchesSuffice /\ Settling /\ Verdicts
          /\ OneSettler

LEMMA M2MInitInv == M2MInit => M2MInv
<1> SUFFICES ASSUME M2MInit PROVE M2MInv OBVIOUS
<1>1. M2MTypeOK
  <2>1. NotSettling \in Settlement BY DEF NotSettling, Settlement
  <2>2. 0 \in 0..MaxAttempts + 1 BY M2MAssumption
  <2> QED BY <2>1, <2>2 DEF M2MInit, M2MTypeOK, IntentStatus
<1>2. \A w \in Settlers : task[w].at = "idle" /\ task[w].i = None
  BY DEF M2MInit, NotSettling
<1>3. Funding BY M2MAssumption DEF M2MInit, Funding, Opened
<1>4. Settling BY <1>2, M2MAssumption DEF M2MInit, Settling
<1>5. MatchesSuffice /\ Verdicts /\ OneSettler
  BY <1>2 DEF M2MInit, MatchesSuffice, Verdicts, OneSettler
<1> QED BY <1>1, <1>3, <1>4, <1>5 DEF M2MInv

(* What a single intent of a sufficient deposit is chosen for.             *)
LEMMA ChosenSuffices ==
    ASSUME NEW t \in Deposits, NEW i \in Chosen(t), M2MAssumption
    PROVE  i \in Intents /\ AmountOf[t] >= RequiredOf[i]
<1>1. CASE Cardinality(OpenIntents) = 1 BY <1>1 DEF Chosen, OpenIntents
<1>2. CASE Cardinality(OpenIntents) # 1
  <2> DEFINE exact == {j \in OpenIntents : AmountOf[t] = RequiredOf[j]}
  <2>1. i \in exact BY <1>2 DEF Chosen
  <2>2. i \in Intents /\ AmountOf[t] = RequiredOf[i] BY <2>1 DEF OpenIntents
  <2> QED BY <2>2, M2MAssumption
<1> QED BY <1>1, <1>2

(* The intents an agent opens, lets run out and reads; events that are lost*)
LEMMA OpeningKeeps ==
    ASSUME M2MInv, NEW i \in Intents,
           CreateAgentPaymentIntent(i) \/ IntentLapses(i) \/ GetAgentPaymentIntent(i)
             \/ EventLost(i)
    PROVE  M2MInv'
<1> DEFINE moved == st[i] \in {"none", "pending_deposit"}
                    /\ st' \in {[st EXCEPT ![i] = "pending_deposit"], [st EXCEPT ![i] = "expired"]}
<1>1. /\ st' = st \/ moved
      /\ lapsed' \subseteq Intents /\ told' \subseteq told
      /\ UNCHANGED <<tx, n, found, task, due, efi, wire>>
  BY DEF CreateAgentPaymentIntent, IntentLapses, GetAgentPaymentIntent, EventLost, M2MInv,
         M2MTypeOK
<1>2. \A j \in Intents : st'[j] = st[j] \/ (st[j] \in Opened /\ st'[j] \in Opened)
  BY <1>1 DEF M2MInv, M2MTypeOK, Opened
<1>3. st' \in [Intents -> IntentStatus] BY <1>1 DEF M2MInv, M2MTypeOK, IntentStatus
<1>4. M2MTypeOK' BY <1>1, <1>3 DEF M2MInv, M2MTypeOK
<1>5. Funding' BY <1>1, <1>2 DEF M2MInv, Funding
<1>6. MatchesSuffice' BY <1>1 DEF M2MInv, MatchesSuffice
<1>7. \A w \in Settlers : task[w].i # None => task[w].i \in Intents
  BY DEF M2MInv, M2MTypeOK, Settlement
<1>8. Settling' BY <1>1, <1>2, <1>7 DEF M2MInv, Settling, Opened
<1>9. Verdicts' BY <1>1, <1>2 DEF M2MInv, Verdicts, Opened
<1>10. OneSettler' BY <1>1, <1>2, <1>7 DEF M2MInv, OneSettler, Opened
<1> QED BY <1>4, <1>5, <1>6, <1>8, <1>9, <1>10 DEF M2MInv

LEMMA MatchKeeps ==
    ASSUME M2MInv, NEW t \in Deposits, MatchM2MDeposit(t)
    PROVE  M2MInv'
<1>1. PICK i \in Chosen(t) : found' = found \cup {<<t, i>>} BY DEF MatchM2MDeposit
<1>2. i \in Intents /\ AmountOf[t] >= RequiredOf[i] BY ChosenSuffices, M2MAssumption
<1>3. UNCHANGED <<st, tx, n, lapsed, told, task, due, efi, wire>> BY DEF MatchM2MDeposit
<1>4. M2MTypeOK' BY <1>1, <1>2, <1>3 DEF M2MInv, M2MTypeOK
<1>5. MatchesSuffice' BY <1>1, <1>2 DEF M2MInv, MatchesSuffice
<1>6. Funding' /\ Verdicts' BY <1>3 DEF M2MInv, Funding, Verdicts
<1>7. Settling' /\ OneSettler' BY <1>3 DEF M2MInv, Settling, OneSettler
<1> QED BY <1>4, <1>5, <1>6, <1>7 DEF M2MInv

(* The unique index and the two guards of the update: a deposit funds one  *)
(* intent, an intent takes one deposit.                                    *)
LEMMA ConfirmKeeps ==
    ASSUME M2MInv, NEW t \in Deposits, NEW i \in Intents, ConfirmM2MDeposit(t, i)
    PROVE  M2MInv'
<1>1. /\ <<t, i>> \in found /\ found' = found \ {<<t, i>>}
      /\ UNCHANGED <<n, lapsed, task, due, efi, wire>>
  BY DEF ConfirmM2MDeposit, Claim
<1>2. AmountOf[t] >= RequiredOf[i] BY <1>1 DEF M2MInv, MatchesSuffice
<1>3. MatchesSuffice' BY <1>1 DEF M2MInv, MatchesSuffice
<1>4. CASE UNCHANGED <<st, tx, told>>
  <2>1. M2MTypeOK' BY <1>1, <1>4 DEF M2MInv, M2MTypeOK
  <2>2. Funding' /\ Verdicts' BY <1>1, <1>4 DEF M2MInv, Funding, Verdicts
  <2>3. Settling' /\ OneSettler' BY <1>1, <1>4 DEF M2MInv, Settling, OneSettler
  <2> QED BY <1>3, <2>1, <2>2, <2>3 DEF M2MInv
<1>5. CASE /\ st[i] = "pending_deposit" /\ tx[i] = None /\ Unused(t)
           /\ st' = [st EXCEPT ![i] = "paid_crypto"] /\ tx' = [tx EXCEPT ![i] = t]
           /\ told' = told \cup {i}
  <2>1. M2MTypeOK' BY <1>1, <1>5 DEF M2MInv, M2MTypeOK, IntentStatus
  <2>2. Funding'
    <3>1. n[i] = 0 BY <1>5 DEF M2MInv, Funding
    <3>2. \A j \in Intents : j # i => tx'[j] = tx[j] /\ st'[j] = st[j] /\ tx[j] # t
      BY <1>5 DEF M2MInv, M2MTypeOK, Unused
    <3>3. tx'[i] = t /\ t # None BY <1>5, M2MAssumption DEF M2MInv, M2MTypeOK
    <3> QED BY <1>1, <1>2, <1>5, <3>1, <3>2, <3>3, M2MAssumption DEF M2MInv, Funding
  <2>3. Verdicts' BY <1>1, <1>5 DEF M2MInv, M2MTypeOK, Verdicts
  <2>4. \A w \in Settlers : task[w].i # i BY <1>5, M2MAssumption DEF M2MInv, Settling
  <2>5. \A w \in Settlers : task[w].i # None => task[w].i \in Intents
    BY DEF M2MInv, M2MTypeOK, Settlement
  <2>6. Settling' /\ OneSettler'
    BY <1>1, <1>5, <2>4, <2>5 DEF M2MInv, M2MTypeOK, Settling, OneSettler
  <2> QED BY <1>3, <2>1, <2>2, <2>3, <2>6 DEF M2MInv
<1> QED BY <1>4, <1>5 DEF ConfirmM2MDeposit, Claim

(* Only a paid intent is taken, so nobody else works on it.                *)
LEMMA TakeKeeps ==
    ASSUME M2MInv, NEW w \in Settlers, NEW i \in Intents,
           HandleEvent(w, i) \/ SweepPaidCrypto(w, i)
    PROVE  M2MInv'
<1> DEFINE r == [NotSettling EXCEPT !.at = "cap", !.i = i]
<1>1. /\ task[w].at = "idle" /\ st[i] = "paid_crypto"
      /\ st' = [st EXCEPT ![i] = "settling"] /\ n' = [n EXCEPT ![i] = @ + 1]
      /\ task' = [task EXCEPT ![w] = r]
      /\ UNCHANGED <<tx, lapsed, found, due, efi, wire>>
  BY DEF HandleEvent, SweepPaidCrypto, MarkM2MSettling, Settleable
<1>2. r \in Settlement /\ r.at = "cap" /\ r.i = i
  BY DEF NotSettling, Settlement
<1> HIDE DEF r
<1>3. told' \subseteq told /\ n[i] <= MaxAttempts /\ (i \in told' => n[i] < MaxAttempts)
  BY M2MAssumption DEF HandleEvent, SweepPaidCrypto, M2MInv, M2MTypeOK, Funding
<1>4. n[i] \in Nat /\ n'[i] = n[i] + 1 /\ \A j \in Intents : j # i => n'[j] = n[j]
  BY <1>1, M2MAssumption DEF M2MInv, M2MTypeOK
<1>5. M2MTypeOK'
  <2>1. n' \in [Intents -> 0..MaxAttempts + 1]
    BY <1>1, <1>3, <1>4, M2MAssumption DEF M2MInv, M2MTypeOK
  <2> QED BY <1>1, <1>2, <1>3, <2>1 DEF M2MInv, M2MTypeOK, IntentStatus
<1>6. tx[i] # None BY <1>1 DEF M2MInv, Funding, Opened
<1>7. Funding'
  <2>1. \A j \in Intents : j # i => st'[j] = st[j] BY <1>1 DEF M2MInv, M2MTypeOK
  <2>2. \A j \in Intents : j \in told' => n'[j] <= MaxAttempts
    BY <1>3, <1>4, M2MAssumption DEF M2MInv, Funding
  <2> QED BY <1>1, <1>3, <1>4, <1>6, <2>1, <2>2 DEF M2MInv, Funding
<1>8. MatchesSuffice' BY <1>1 DEF M2MInv, MatchesSuffice
<1>9. i \notin due BY <1>1 DEF M2MInv, Verdicts
<1>10. \A v \in Settlers : task[v].i # i BY <1>1, M2MAssumption DEF M2MInv, Settling
<1>11. task'[w] = r /\ \A v \in Settlers : v # w => task'[v] = task[v]
  BY <1>1 DEF M2MInv, M2MTypeOK
<1>12. st'[i] = "settling" /\ \A j \in Intents : j # i => st'[j] = st[j]
  BY <1>1 DEF M2MInv, M2MTypeOK
<1>13. \A v \in Settlers : task[v].i # None => task[v].i \in Intents
  BY DEF M2MInv, M2MTypeOK, Settlement
<1>14. Settling'
  BY <1>1, <1>2, <1>9, <1>10, <1>11, <1>12, <1>13, M2MAssumption DEF M2MInv, Settling
<1>15. OneSettler'
  BY <1>2, <1>10, <1>11, <1>12, <1>13, M2MAssumption DEF M2MInv, OneSettler
<1>16. Verdicts' BY <1>1, <1>12 DEF M2MInv, Verdicts
<1> QED BY <1>5, <1>7, <1>8, <1>14, <1>15, <1>16 DEF M2MInv

(* The cap and the answer of Efi move one settler on and leave the rows    *)
(* alone; what it will write is what Efi has said.                         *)
LEMMA ProgressKeeps ==
    ASSUME M2MInv, NEW w \in Settlers, CheckDailyOutflow(w) \/ CallEfiPix(w)
    PROVE  M2MInv'
<1> DEFINE i == task[w].i
<1>1. /\ task[w] \in Settlement /\ task[w].at \in {"cap", "efi"} /\ i \in Intents
      /\ st[i] = "settling" /\ i \notin due /\ tx[i] # None
  BY DEF CheckDailyOutflow, CallEfiPix, M2MInv, M2MTypeOK, Settling, Settlement, Funding,
         Opened
<1>2. UNCHANGED <<st, tx, n, lapsed, found, told>> BY DEF CheckDailyOutflow, CallEfiPix
<1> DEFINE Good(r) ==
         /\ task' = [task EXCEPT ![w] = r] /\ (r.i = None <=> r.at = "idle")
         /\ r.i \in {i, None}
         /\ r.i # None => i \notin due'
         /\ r.at = "efi" => i \notin Cards
         /\ r.at = "write" => /\ r.res # "none"
                              /\ i \in Cards => r.res = "paid_crypto"
                              /\ r.res = "settled" => efi'[i] = "accepted"
                              /\ r.res = "failed" => efi'[i] = "refused"
<1>3. PICK r \in Settlement : Good(r)
  <2> DEFINE back == [task[w] EXCEPT !.at = "write", !.res = "paid_crypto"]
  <2>1. /\ back \in Settlement /\ back.at = "write" /\ back.i = i
        /\ back.res = "paid_crypto"
    BY <1>1 DEF Settlement
  <2>2. NotSettling \in Settlement /\ NotSettling.i = None /\ NotSettling.at = "idle"
    BY DEF NotSettling, Settlement
  <2>3. CASE CheckDailyOutflow(w)
    <3>1. CASE Ends(w, "paid_crypto") /\ UNCHANGED due
      <4>1. task' = [task EXCEPT ![w] = back] BY <3>1, <1>1 DEF Ends, Settlement, M2MInv, M2MTypeOK
      <4> QED BY <4>1, <2>1, <1>1, <3>1, M2MAssumption
    <3>2. CASE i \in Cards /\ due' = due \cup {i} /\ task' = [task EXCEPT ![w] = NotSettling]
      BY <3>2, <2>2
    <3>3. CASE i \notin Cards /\ task' = [task EXCEPT ![w].at = "efi"] /\ UNCHANGED due
      <4> DEFINE r == [task[w] EXCEPT !.at = "efi"]
      <4>1. r \in Settlement /\ r.at = "efi" /\ r.i = i BY <1>1 DEF Settlement
      <4>2. task' = [task EXCEPT ![w] = r] BY <3>3
      <4> QED BY <4>1, <4>2, <1>1, <3>3, M2MAssumption
    <3> QED BY <2>3, <3>1, <3>2, <3>3 DEF CheckDailyOutflow
  <2>4. CASE CallEfiPix(w)
    <3>1. i \notin Cards /\ UNCHANGED due BY <2>4 DEF CallEfiPix, M2MInv, Settling
    <3>2. ASSUME NEW ans \in Answer(i), efi' = [efi EXCEPT ![i] = ans],
                 Ends(w, ErrorResult(i, ans))
          PROVE  \E r \in Settlement : Good(r)
      <4> DEFINE res == ErrorResult(i, ans)
                 r == [task[w] EXCEPT !.at = "write", !.res = res]
      <4>1. res \in {"settled", "paid_crypto", "failed"} BY DEF ErrorResult
      <4>2. ans \in {"accepted", "refused"} BY <1>1 DEF Answer, M2MInv, M2MTypeOK
      <4>3. (res = "failed" => ans = "refused") /\ (res = "settled" => ans = "accepted")
        BY <4>2 DEF ErrorResult
      <4>4. efi'[i] = ans BY <3>2, <1>1 DEF M2MInv, M2MTypeOK
      <4> HIDE DEF res
      <4>5. r \in Settlement /\ r.at = "write" /\ r.i = i /\ r.res = res
        BY <1>1, <4>1 DEF Settlement
      <4>6. task' = [task EXCEPT ![w] = r]
        BY <3>2, <1>1 DEF Ends, Settlement, M2MInv, M2MTypeOK, res
      <4> HIDE DEF r
      <4> QED BY <4>1, <4>3, <4>4, <4>5, <4>6, <3>1, <1>1, M2MAssumption
    <3>3. CASE UNCHANGED efi /\ task' = task
      <4>1. task' = [task EXCEPT ![w] = task[w]] BY <3>3 DEF M2MInv, M2MTypeOK
      <4> QED BY <4>1, <3>1, <3>3, <2>4, <1>1, M2MAssumption DEF CallEfiPix
    <3>4. CASE UNCHANGED efi /\ Ends(w, "paid_crypto")
      <4>1. task' = [task EXCEPT ![w] = back] BY <3>4, <1>1 DEF Ends, Settlement, M2MInv, M2MTypeOK
      <4> QED BY <4>1, <2>1, <1>1, <3>1, M2MAssumption
    <3> QED BY <2>4, <3>2, <3>3, <3>4 DEF CallEfiPix
  <2> QED BY <2>3, <2>4
<1>4. /\ efi' \in [Intents -> {"none", "accepted", "refused"}] /\ wire' \subseteq wire \cup {i}
      /\ due \subseteq due' /\ due' \subseteq due \cup ({i} \cap Cards)
      /\ \A j \in Intents : efi'[j] = efi[j] \/ (j = i /\ efi[j] = "none")
  <2>1. CASE CheckDailyOutflow(w) BY <2>1 DEF CheckDailyOutflow, M2MInv, M2MTypeOK
  <2>2. CASE CallEfiPix(w)
    <3>1. CASE UNCHANGED efi BY <2>2, <3>1 DEF CallEfiPix, M2MInv, M2MTypeOK
    <3>2. CASE UNCHANGED wire /\ \E ans \in Answer(i) : efi' = [efi EXCEPT ![i] = ans]
      <4> PICK ans \in Answer(i) : efi' = [efi EXCEPT ![i] = ans] BY <3>2
      <4>1. ans \in {"accepted", "refused"} /\ (efi[i] # "none" => ans = efi[i])
        BY <1>1 DEF Answer, M2MInv, M2MTypeOK
      <4> QED BY <2>2, <3>2, <4>1, <1>1 DEF CallEfiPix, M2MInv, M2MTypeOK
    <3> QED BY <2>2, <3>1, <3>2 DEF CallEfiPix
  <2> QED BY <2>1, <2>2
<1> HIDE DEF i
<1>5. task'[w] = r /\ \A v \in Settlers : v # w => task'[v] = task[v]
  BY <1>3 DEF M2MInv, M2MTypeOK
<1>6. M2MTypeOK' BY <1>1, <1>2, <1>3, <1>4 DEF M2MInv, M2MTypeOK
<1>7. Funding' BY <1>1, <1>2, <1>4 DEF M2MInv, Funding
<1>8. MatchesSuffice' BY <1>2 DEF M2MInv, MatchesSuffice
<1>9. Verdicts' BY <1>1, <1>2, <1>4, M2MAssumption DEF M2MInv, Verdicts
<1>10. \A v \in Settlers : task[v].i # None => task[v].i \in Intents
  BY DEF M2MInv, M2MTypeOK, Settlement
<1>11. \A v \in Settlers : v # w => task[v].i # i
  BY <1>1, M2MAssumption DEF M2MInv, OneSettler, i
<1>12. OneSettler'
  BY <1>1, <1>2, <1>3, <1>5, <1>10, <1>11 DEF M2MInv, OneSettler
<1>13. Settling'
  <2> SUFFICES ASSUME NEW v \in Settlers
      PROVE /\ task'[v].at # "idle" <=> task'[v].i # None
            /\ task'[v].i # None => st'[task'[v].i] = "settling" /\ task'[v].i \notin due'
            /\ task'[v].at = "efi" => task'[v].i \notin Cards
            /\ task'[v].at = "write" =>
                 /\ task'[v].res # "none"
                 /\ task'[v].i \in Cards => task'[v].res = "paid_crypto"
                 /\ task'[v].res = "settled" => efi'[task'[v].i] = "accepted"
                 /\ task'[v].res = "failed" => efi'[task'[v].i] = "refused"
    BY DEF Settling
  <2>1. CASE v = w BY <2>1, <1>1, <1>2, <1>3, <1>5
  <2>2. CASE v # w
    <3>1. task[v].i # None => /\ task[v].i \in Intents /\ task[v].i # i
      BY <1>10, <1>11, <2>2
    <3>2. task[v].i # None => efi'[task[v].i] = efi[task[v].i]
      BY <3>1, <1>4
    <3>3. task[v].i # None => task[v].i \notin due'
      BY <3>1, <1>4 DEF M2MInv, Settling
    <3>4. task[v].at = "write" => task[v].i # None BY DEF M2MInv, Settling
    <3> QED BY <2>2, <1>2, <1>5, <3>2, <3>3, <3>4 DEF M2MInv, Settling
  <2> QED BY <2>1, <2>2
<1> QED BY <1>6, <1>7, <1>8, <1>9, <1>12, <1>13 DEF M2MInv

(* A settler writes its result, if it gets to, or stops: then nobody works *)
(* on its intent any more.                                                 *)
LEMMA FinishKeeps ==
    ASSUME M2MInv, NEW w \in Settlers, WriteResult(w) \/ SettlerStops(w)
    PROVE  M2MInv'
<1> DEFINE i == task[w].i
<1>1. /\ task' = [task EXCEPT ![w] = NotSettling] /\ i \in Intents /\ st[i] = "settling"
      /\ i \notin due /\ tx[i] # None
      /\ UNCHANGED <<tx, n, lapsed, found, told, due, efi, wire>>
  BY DEF WriteResult, SettlerStops, M2MInv, M2MTypeOK, Settling, Settlement, Funding, Opened
<1>2. PICK res \in {"settled", "paid_crypto", "failed", "settling"} :
        /\ st' = [st EXCEPT ![i] = res]
        /\ i \in Cards => res \in {"paid_crypto", "settling"}
        /\ res = "settled" => efi[i] = "accepted"
        /\ res = "failed" => efi[i] = "refused"
  <2>1. CASE UNCHANGED st
    <3>1. st' = [st EXCEPT ![i] = "settling"] BY <2>1, <1>1 DEF M2MInv, M2MTypeOK
    <3> QED BY <3>1
  <2>2. CASE task[w].at = "write" /\ st' = [st EXCEPT ![i] = task[w].res]
    <3>1. task[w].res \in {"settled", "paid_crypto", "failed"}
      BY <2>2 DEF M2MInv, M2MTypeOK, Settling, Settlement
    <3> QED BY <2>2, <3>1 DEF M2MInv, Settling
  <2> QED BY <2>1, <2>2 DEF WriteResult, SettlerStops
<1> HIDE DEF i
<1>3. st'[i] = res /\ \A j \in Intents : j # i => st'[j] = st[j]
  BY <1>1, <1>2 DEF M2MInv, M2MTypeOK
<1>4. NotSettling \in Settlement /\ NotSettling.i = None /\ NotSettling.at = "idle"
  BY DEF NotSettling, Settlement
<1>5. task'[w] = NotSettling /\ \A v \in Settlers : v # w => task'[v] = task[v]
  BY <1>1 DEF M2MInv, M2MTypeOK
<1>6. M2MTypeOK' BY <1>1, <1>2, <1>4 DEF M2MInv, M2MTypeOK, IntentStatus
<1>7. Funding' BY <1>1, <1>3 DEF M2MInv, Funding
<1>8. MatchesSuffice' BY <1>1 DEF M2MInv, MatchesSuffice
<1>9. Verdicts' BY <1>1, <1>2, <1>3 DEF M2MInv, Verdicts
<1>10. \A v \in Settlers : task[v].i # None => task[v].i \in Intents
  BY DEF M2MInv, M2MTypeOK, Settlement
<1>11. \A v \in Settlers : v # w => task[v].i # i
  BY <1>1, M2MAssumption DEF M2MInv, OneSettler, i
<1>12. OneSettler' BY <1>1, <1>3, <1>4, <1>5, <1>10, <1>11 DEF M2MInv, OneSettler
<1>13. Settling' BY <1>1, <1>3, <1>4, <1>5, <1>10, <1>11 DEF M2MInv, Settling
<1> QED BY <1>6, <1>7, <1>8, <1>9, <1>12, <1>13 DEF M2MInv

(* The operator's report and a late PIX.                                   *)
LEMMA OutsideKeeps ==
    ASSUME M2MInv, NEW i \in Intents, InternalM2MSettled(i) \/ PixArrives(i)
    PROVE  M2MInv'
<1>1. CASE InternalM2MSettled(i)
  <2>1. /\ i \in due /\ st' = [st EXCEPT ![i] = "settled"]
        /\ UNCHANGED <<tx, n, lapsed, found, told, task, due, efi, wire>>
    BY <1>1 DEF InternalM2MSettled
  <2>2. i \in Cards /\ tx[i] # None BY <2>1 DEF M2MInv, M2MTypeOK, Funding
  <2>3. st'[i] = "settled" /\ \A j \in Intents : j # i => st'[j] = st[j]
    BY <2>1 DEF M2MInv, M2MTypeOK
  <2>4. M2MTypeOK' BY <2>1 DEF M2MInv, M2MTypeOK, IntentStatus
  <2>5. Funding' BY <2>1, <2>2, <2>3 DEF M2MInv, Funding
  <2>6. MatchesSuffice' /\ Verdicts' BY <2>1, <2>2, <2>3 DEF M2MInv, MatchesSuffice, Verdicts
  <2>7. \A v \in Settlers : task[v].i # None => task[v].i \in Intents /\ task[v].i # i
    BY <2>1 DEF M2MInv, M2MTypeOK, Settlement, Settling
  <2>8. Settling' /\ OneSettler' BY <2>1, <2>3, <2>7 DEF M2MInv, Settling, OneSettler
  <2> QED BY <2>4, <2>5, <2>6, <2>8 DEF M2MInv
<1>2. CASE PixArrives(i)
  <2>1. PICK ans \in Answer(i) : efi' = [efi EXCEPT ![i] = ans] BY <1>2 DEF PixArrives
  <2>2. ans \in {"accepted", "refused"} /\ (efi[i] # "none" => ans = efi[i])
    BY DEF Answer, M2MInv, M2MTypeOK
  <2>3. /\ i \in wire /\ wire' = wire \ {i}
        /\ UNCHANGED <<st, tx, n, lapsed, found, told, task, due>>
    BY <1>2 DEF PixArrives
  <2>4. tx[i] # None BY <2>3 DEF M2MInv, Funding
  <2>5. \A j \in Intents : efi'[j] = efi[j] \/ (j = i /\ efi[j] = "none")
    BY <2>1, <2>2 DEF M2MInv, M2MTypeOK
  <2>6. M2MTypeOK' BY <2>1, <2>2, <2>3 DEF M2MInv, M2MTypeOK
  <2>7. Funding' BY <2>3, <2>4, <2>5 DEF M2MInv, Funding
  <2>8. MatchesSuffice' /\ Verdicts' BY <2>3, <2>5 DEF M2MInv, MatchesSuffice, Verdicts
  <2>9. \A v \in Settlers : task[v].i # None => task[v].i \in Intents
    BY DEF M2MInv, M2MTypeOK, Settlement
  <2>10. OneSettler' BY <2>3 DEF M2MInv, OneSettler
  <2>11. \A v \in Settlers : task[v].at = "write" => task[v].i \in Intents
    BY <2>9 DEF M2MInv, Settling
  <2>12. Settling' BY <2>3, <2>5, <2>11 DEF M2MInv, Settling
  <2> QED BY <2>6, <2>7, <2>8, <2>10, <2>12 DEF M2MInv
<1> QED BY <1>1, <1>2

LEMMA M2MNextInv == M2MInv /\ [M2MNext]_m2mvars => M2MInv'
<1> SUFFICES ASSUME M2MInv, [M2MNext]_m2mvars PROVE M2MInv' OBVIOUS
<1>1. CASE M2MNext
  BY <1>1, OpeningKeeps, MatchKeeps, ConfirmKeeps, TakeKeeps, ProgressKeeps, FinishKeeps,
     OutsideKeeps DEF M2MNext
<1>2. CASE UNCHANGED m2mvars
  BY <1>2 DEF m2mvars, M2MInv, M2MTypeOK, Funding, MatchesSuffice, Settling, Verdicts,
              OneSettler
<1> QED BY <1>1, <1>2

LEMMA M2MInvEnough == M2MInv => M2MPaysOnce
<1> SUFFICES ASSUME M2MInv PROVE M2MPaysOnce OBVIOUS
<1>1. DepositPaysOne BY DEF DepositPaysOne, M2MInv, Funding
<1>2. RecordedAsAccepted BY DEF RecordedAsAccepted, M2MInv, Verdicts
<1> QED BY <1>1, <1>2 DEF M2MPaysOnce, M2MInv

(* For any number of intents, deposits and settlers in any number of       *)
(* replicas: a deposit funds at most one payment and covers it, nobody     *)
(* settles the same intent together, and a PIX is recorded as what Efi     *)
(* made of it (database/m2m.go, workers/m2m_settlement.go).                *)
THEOREM DepositsAreSpentOnce == M2MSpec => []M2MPaysOnce
<1>1. M2MSpec => []M2MInv BY M2MInitInv, M2MNextInv, PTL DEF M2MSpec
<1> QED BY <1>1, M2MInvEnough, PTL

-----------------------------------------------------------------------------
LEMMA GasInitInv == GasInit => GasInv
<1> SUFFICES ASSUME GasInit PROVE GasInv OBVIOUS
<1>1. GasTyped BY DEF GasInit, GasTyped, GasTypeOK
<1>2. OnePlace BY DEF GasInit, OnePlace, Queued, AsLeg, InMulti, Travelling, WasPaid
<1>3. OneRequest /\ OnePayment BY DEF GasInit, OneRequest, OnePayment
<1>4. RowsFirst /\ OwnSignature BY DEF GasInit, RowsFirst, PaidIsStored, OwnSignature
<1>5. NetsFirst BY DEF GasInit, NetsFirst, FeeFollowsNet
<1> QED BY <1>1, <1>2, <1>3, <1>4, <1>5 DEF GasInv

(* What a call to the signer does, executed, repeated, refused or left     *)
(* without an answer, when nothing it pays is paid or travels otherwise.   *)
Untouched(c) == \A r \in c.pays :
    ~WasPaid(r) /\ \A d \in inFlight : r \in d.pays => d = c
SignerSound ==
    /\ keys \subseteq KeySet /\ netPaid \subseteq Relays \X KeySet
    /\ inFlight \subseteq Requests
    /\ OneRequest /\ OnePayment
    /\ \A r \in Relays : Travelling(r) => ~WasPaid(r)
    /\ \A d \in inFlight, r \in Relays : d.key = Fee(r) => Net(r) \in keys
    /\ FeeFollowsNet

LEMMA CallServes ==
    ASSUME SignerSound, NEW c \in Requests, Effect(c) \/ RequestFails(c), Untouched(c),
           \A r \in Relays : c.key = Fee(r) => Net(r) \in keys
    PROVE  /\ SignerSound'
           /\ keys \subseteq keys'
           /\ \A d \in inFlight' : d \in inFlight \/ d = c
           /\ \A p \in netPaid' : p \in netPaid \/ p[1] \in c.pays
<1>1. c.key \in KeySet /\ c.pays \subseteq Relays BY DEF Requests
<1>2. CASE UNCHANGED gasSigner
  <2>1. UNCHANGED <<keys, netPaid, inFlight>> BY <1>2 DEF gasSigner
  <2> QED BY <2>1 DEF SignerSound, OneRequest, OnePayment, Travelling, WasPaid, FeeFollowsNet
<1>3. CASE /\ c.key \notin keys /\ keys' = keys \cup {c.key}
           /\ netPaid' = netPaid \cup {<<r, c.key>> : r \in c.pays}
           /\ inFlight' = {d \in inFlight : d.key # c.key}
  <2>1. \A p \in netPaid' : p \in netPaid \/ \E r \in c.pays : p = <<r, c.key>> BY <1>3
  <2>2. keys' \subseteq KeySet /\ inFlight' \subseteq Requests
    BY <1>1, <1>3 DEF SignerSound
  <2>3. netPaid' \subseteq Relays \X KeySet BY <1>1, <2>1 DEF SignerSound
  <2>4. OneRequest' BY <1>3 DEF SignerSound, OneRequest
  <2>5. OnePayment'
    <3> SUFFICES ASSUME NEW p \in netPaid', NEW q \in netPaid', p[1] = q[1] PROVE p = q
      BY DEF OnePayment
    <3>1. CASE p \in netPaid /\ q \in netPaid BY <3>1 DEF SignerSound, OnePayment
    <3>2. ASSUME NEW r \in c.pays, p = <<r, c.key>>, q \in netPaid PROVE FALSE
      <4>1. q[1] = r BY <3>2
      <4> QED BY <4>1, <3>2 DEF Untouched, WasPaid
    <3>3. ASSUME NEW r \in c.pays, q = <<r, c.key>>, p \in netPaid PROVE FALSE
      <4>1. p[1] = r BY <3>3
      <4> QED BY <4>1, <3>3 DEF Untouched, WasPaid
    <3>4. ASSUME NEW r \in c.pays, NEW s \in c.pays, p = <<r, c.key>>, q = <<s, c.key>>
          PROVE  p = q
      BY <3>4
    <3> QED BY <2>1, <3>1, <3>2, <3>3, <3>4
  <2>6. ASSUME NEW r \in Relays, Travelling(r)', WasPaid(r)' PROVE FALSE
    <3>1. PICK d \in inFlight : d.key # c.key /\ r \in d.pays BY <2>6, <1>3 DEF Travelling
    <3>2. ~WasPaid(r) BY <3>1 DEF SignerSound, Travelling
    <3>3. PICK p \in netPaid' : p[1] = r BY <2>6 DEF WasPaid
    <3>4. r \in c.pays BY <3>2, <3>3, <2>1 DEF WasPaid
    <3> QED BY <3>1, <3>4 DEF Untouched
  <2>7. \A d \in inFlight', r \in Relays : d.key = Fee(r) => Net(r) \in keys'
    BY <1>3 DEF SignerSound
  <2>8. FeeFollowsNet' BY <1>3 DEF SignerSound, FeeFollowsNet
  <2>9. \A p \in netPaid' : p \in netPaid \/ p[1] \in c.pays BY <2>1
  <2> QED BY <1>3, <2>2, <2>3, <2>4, <2>5, <2>6, <2>7, <2>8, <2>9 DEF SignerSound
<1>4. CASE c.key \notin keys /\ inFlight' = inFlight \cup {c} /\ UNCHANGED <<keys, netPaid>>
  <2>1. OneRequest' BY <1>4 DEF SignerSound, OneRequest, Untouched
  <2>2. \A r \in Relays : Travelling(r)' => Travelling(r) \/ r \in c.pays
    BY <1>4 DEF Travelling
  <2>3. \A r \in Relays : WasPaid(r)' => WasPaid(r) BY <1>4 DEF WasPaid
  <2>4. \A r \in Relays : Travelling(r)' => ~WasPaid(r)'
    BY <2>2, <2>3 DEF SignerSound, Untouched
  <2>5. OnePayment' /\ FeeFollowsNet' BY <1>4 DEF SignerSound, OnePayment, FeeFollowsNet
  <2> QED BY <1>4, <2>1, <2>4, <2>5 DEF SignerSound
<1>5. CASE c.key \notin keys /\ UNCHANGED <<keys, netPaid, inFlight>>
  BY <1>5 DEF SignerSound, OneRequest, OnePayment, Travelling, WasPaid, FeeFollowsNet
<1> QED BY <1>2, <1>3, <1>4, <1>5 DEF Effect, RequestFails

LEMMA InvSignerSound == GasInv => SignerSound
BY DEF GasInv, GasTyped, SignerSound, OnePlace, NetsFirst

LEMMA LockKeeps ==
    ASSUME GasInv, NEW r \in Relays, NEW s, AcquireLock(r) \/ LockExpires(s)
    PROVE  GasInv'
<1>1. UNCHANGED <<relayRow, jobs, legs, multi, keys, netPaid, inFlight>>
  BY DEF AcquireLock, LockExpires, batcher, gasSigner
<1>2. /\ sigLock' \subseteq Sigs /\ relayReq' \in [Relays -> {"idle", "store", "done"}]
      /\ \A q \in Relays : relayReq'[q] # "done" => relayReq[q] # "done"
  BY DEF AcquireLock, LockExpires, Sigs, GasInv, GasTyped, GasTypeOK
<1>3. GasTyped' BY <1>1, <1>2 DEF GasInv, GasTyped, GasTypeOK
<1>4. OnePlace' BY <1>1 DEF GasInv, OnePlace, Queued, AsLeg, InMulti, Travelling, WasPaid
<1>5. OneRequest' /\ OnePayment' BY <1>1 DEF GasInv, OneRequest, OnePayment
<1>6. RowsFirst' BY <1>1, <1>2 DEF GasInv, RowsFirst, PaidIsStored
<1>7. OwnSignature' /\ NetsFirst' BY <1>1 DEF GasInv, OwnSignature, NetsFirst, FeeFollowsNet
<1> QED BY <1>3, <1>4, <1>5, <1>6, <1>7 DEF GasInv

(* A row is stored, under a signature no row has, and its job enqueued.    *)
LEMMA SubmitKeeps ==
    ASSUME GasInv, NEW r \in Relays, SubmitRelay(r) \/ PollPendingRelays(r)
    PROVE  GasInv'
<1>1. UNCHANGED <<legs, multi, keys, netPaid, inFlight>>
  BY DEF SubmitRelay, PollPendingRelays, gasSigner, gasStore
<1>2. sigLock' \subseteq Sigs
  BY DEF SubmitRelay, PollPendingRelays, ReleaseLock, gasStore, GasInv, GasTyped, GasTypeOK
<1>3. /\ relayReq' \in [Relays -> {"idle", "store", "done"}]
      /\ \A q \in Relays : relayReq'[q] # "done" => relayReq[q] # "done" /\ relayRow'[q] = relayRow[q]
  BY DEF SubmitRelay, PollPendingRelays, gasStore, GasInv, GasTyped, GasTypeOK
<1>4. CASE PollPendingRelays(r)
  <2>1. relayRow' = relayRow /\ relayRow[r] = "pending" /\ jobs' = jobs \cup {<<r, "zero">>}
    BY <1>4 DEF PollPendingRelays, gasStore
  <2>2. GasTyped' BY <1>1, <1>2, <1>3, <2>1 DEF GasInv, GasTyped, GasTypeOK, Jobs
  <2>3. \A q \in Relays : Queued(q)' => Queued(q) BY <2>1 DEF Queued
  <2>4. OnePlace' BY <1>1, <2>3 DEF GasInv, OnePlace, AsLeg, InMulti, Travelling, WasPaid
  <2>5. OneRequest' /\ OnePayment' BY <1>1 DEF GasInv, OneRequest, OnePayment
  <2>6. RowsFirst' BY <1>1, <1>3, <2>1 DEF GasInv, RowsFirst, PaidIsStored
  <2>7. OwnSignature' /\ NetsFirst' BY <1>1, <2>1 DEF GasInv, OwnSignature, NetsFirst, FeeFollowsNet
  <2> QED BY <2>2, <2>4, <2>5, <2>6, <2>7 DEF GasInv
<1>5. CASE SubmitRelay(r)
  <2>1. relayRow[r] = "none" BY <1>5 DEF SubmitRelay, GasInv, RowsFirst
  <2>2. \/ UNCHANGED <<relayRow, jobs>>
        \/ /\ NewSignature(r) /\ relayRow' = [relayRow EXCEPT ![r] = "pending"]
           /\ jobs' \in {jobs, jobs \cup {<<r, "amount">>}}
    BY <1>5 DEF SubmitRelay
  <2>3. /\ relayRow' \in [Relays -> {"none", "pending", "dlq"}] /\ jobs' \subseteq Jobs
        /\ \A q \in Relays : relayRow[q] # "none" => relayRow'[q] # "none"
        /\ \A q \in Relays : relayRow'[q] # "none" => relayRow[q] # "none" \/ (q = r /\ NewSignature(r))
        /\ \A j \in jobs' : j \in jobs \/ (j = <<r, "amount">> /\ relayRow'[r] # "none")
    BY <2>2 DEF GasInv, GasTyped, GasTypeOK, Jobs
  <2>4. GasTyped' BY <1>1, <1>2, <1>3, <2>3 DEF GasInv, GasTyped, GasTypeOK
  <2>5. ~AsLeg(r) /\ ~InMulti(r) /\ ~Travelling(r) /\ ~WasPaid(r)
    BY <2>1 DEF GasInv, RowsFirst, PaidIsStored, AsLeg, InMulti, Travelling, WasPaid
  <2>6. \A q \in Relays : Queued(q)' => Queued(q) \/ q = r BY <2>3 DEF Queued
  <2>7. OnePlace' BY <1>1, <2>5, <2>6 DEF GasInv, OnePlace, AsLeg, InMulti, Travelling, WasPaid
  <2>8. OneRequest' /\ OnePayment' BY <1>1 DEF GasInv, OneRequest, OnePayment
  <2>9. RowsFirst'
    <3>1. \A q \in Relays : relayReq'[q] # "done" => relayRow'[q] = "none"
      BY <1>3 DEF GasInv, RowsFirst
    <3>2. \A j \in jobs' : relayRow'[j[1]] # "none"
      BY <2>3 DEF GasInv, RowsFirst, GasTyped, GasTypeOK, Jobs
    <3>3. \A l \in legs' : relayRow'[l[1][1]] # "none"
      <4>1. \A l \in legs : l[1][1] \in Relays BY DEF GasInv, GasTyped, GasTypeOK, Jobs
      <4> QED BY <1>1, <2>3, <4>1 DEF GasInv, RowsFirst
    <3>4. \A j \in multi' : relayRow'[j[1]] # "none"
      BY <1>1, <2>3 DEF GasInv, RowsFirst, GasTyped, GasTypeOK
    <3>5. \A c \in inFlight' : \A q \in c.pays : relayRow'[q] # "none"
      BY <1>1, <2>3 DEF GasInv, RowsFirst, GasTyped, Requests
    <3>6. PaidIsStored'
      BY <1>1, <2>3 DEF GasInv, RowsFirst, GasTyped, PaidIsStored
    <3> QED BY <3>1, <3>2, <3>3, <3>4, <3>5, <3>6 DEF RowsFirst
  <2>10. OwnSignature' BY <2>3 DEF GasInv, OwnSignature, NewSignature
  <2>11. NetsFirst' BY <1>1 DEF GasInv, NetsFirst, FeeFollowsNet
  <2> QED BY <2>4, <2>7, <2>8, <2>9, <2>10, <2>11 DEF GasInv
<1> QED BY <1>4, <1>5

(* The batch takes its jobs out of the channel.                            *)
LEMMA CollectKeeps == ASSUME GasInv, CollectBatch PROVE GasInv'
<1>1. PICK js \in SUBSET jobs :
        /\ jobs' = jobs \ js
        /\ \/ CanMulticall(js) /\ multi' = js /\ legs' = legs
           \/ legs' = {<<j, "net">> : j \in js} /\ multi' = multi
  BY DEF CollectBatch
<1>2. UNCHANGED <<sigLock, relayReq, relayRow, keys, netPaid, inFlight>> /\ legs = {} /\ multi = {}
  BY DEF CollectBatch, BatcherFree, gasStore, gasSigner
<1>3. multi' \subseteq Relays \X {"amount"} /\ multi' \subseteq js
  <2>1. CASE CanMulticall(js) /\ multi' = js
    <3>1. \A j \in js : j \in Jobs /\ j[2] = "amount"
      BY <2>1 DEF CanMulticall, GasInv, GasTyped, GasTypeOK
    <3> QED BY <2>1, <3>1 DEF Jobs
  <2> QED BY <1>1, <1>2, <2>1
<1>4. \A l \in legs' : \E j \in js : l = <<j, "net">> BY <1>1, <1>2
<1>5. legs' = {} \/ multi' = {} BY <1>1, <1>2
<1>6. GasTyped'
  <2>1. legs' \subseteq Jobs \X {"net", "fee"} BY <1>4 DEF GasInv, GasTyped, GasTypeOK
  <2> QED BY <1>1, <1>2, <1>3, <2>1 DEF GasInv, GasTyped, GasTypeOK
<1>7. \A r \in Relays : /\ Queued(r)' => Queued(r) /\ <<r, "amount">> \notin js
                        /\ AsLeg(r)' => <<r, "amount">> \in js
                        /\ InMulti(r)' => <<r, "amount">> \in js
  BY <1>1, <1>3, <1>4 DEF Queued, AsLeg, InMulti
<1>8. \A r \in Relays : <<r, "amount">> \in js => Queued(r) BY DEF Queued
<1>9. OnePlace'
  <2>1. \A r \in Relays : AsLeg(r)' => ~InMulti(r)' BY <1>5 DEF AsLeg, InMulti
  <2>2. \A r \in Relays : (Travelling(r)' <=> Travelling(r)) /\ (WasPaid(r)' <=> WasPaid(r))
    BY <1>2 DEF Travelling, WasPaid
  <2> SUFFICES ASSUME NEW r \in Relays
      PROVE /\ Queued(r)' => ~AsLeg(r)' /\ ~InMulti(r)' /\ ~Travelling(r)' /\ ~WasPaid(r)'
            /\ AsLeg(r)' => ~InMulti(r)' /\ ~Travelling(r)' /\ ~WasPaid(r)'
            /\ InMulti(r)' => ~Travelling(r)' /\ ~WasPaid(r)'
            /\ Travelling(r)' => ~WasPaid(r)'
    BY DEF OnePlace
  <2>3. /\ Queued(r) => ~Travelling(r) /\ ~WasPaid(r)
        /\ Travelling(r) => ~WasPaid(r)
    BY DEF GasInv, OnePlace
  <2>4. Queued(r)' => Queued(r) /\ ~AsLeg(r)' /\ ~InMulti(r)' BY <1>7
  <2>5. AsLeg(r)' \/ InMulti(r)' => Queued(r) BY <1>7, <1>8
  <2>6. AsLeg(r)' => ~InMulti(r)' BY <2>1
  <2>7. (Travelling(r)' => Travelling(r)) /\ (WasPaid(r)' => WasPaid(r)) BY <2>2
  <2> QED BY <2>3, <2>4, <2>5, <2>6, <2>7
<1>10. OneRequest' /\ OnePayment' BY <1>2 DEF GasInv, OneRequest, OnePayment
<1>11. RowsFirst'
  <2>1. \A l \in legs' : relayRow[l[1][1]] # "none" BY <1>4 DEF GasInv, RowsFirst
  <2> QED BY <1>1, <1>2, <1>3, <2>1 DEF GasInv, RowsFirst, PaidIsStored
<1>12. OwnSignature' /\ NetsFirst'
  BY <1>2, <1>4 DEF GasInv, OwnSignature, NetsFirst, FeeFollowsNet
<1> QED BY <1>6, <1>9, <1>10, <1>11, <1>12 DEF GasInv

(* A call of the batch: what it pays leaves the leg or the multicall that  *)
(* made it, and its rows may become dlq.                                   *)
Paid(c) == \A r \in c.pays : relayRow[r] # "none" /\ ~Queued(r) /\ ~AsLeg(r)' /\ ~InMulti(r)'
LEMMA CallKeeps ==
    ASSUME GasInv, NEW c \in Requests, Effect(c) \/ RequestFails(c), Untouched(c), Paid(c),
           \A r \in Relays : c.key = Fee(r) => Net(r) \in keys,
           NEW rs \in SUBSET Relays, \A r \in rs : relayRow[r] # "none",
           relayRow' = relayRow \/ MarkDLQ(rs),
           UNCHANGED <<sigLock, relayReq, jobs>>,
           legs' \subseteq Jobs \X {"net", "fee"}, multi' \subseteq multi,
           \A l \in legs' : l \in legs \/ (/\ l[2] = "fee" /\ Net(l[1][1]) \in keys'
                                           /\ relayRow[l[1][1]] # "none")
    PROVE  GasInv'
<1>1. /\ SignerSound' /\ keys \subseteq keys'
      /\ \A d \in inFlight' : d \in inFlight \/ d = c
      /\ \A p \in netPaid' : p \in netPaid \/ p[1] \in c.pays
  BY CallServes, InvSignerSound
<1>2. /\ relayRow' \in [Relays -> {"none", "pending", "dlq"}]
      /\ \A r \in Relays : relayRow'[r] # "none" <=> relayRow[r] # "none"
  BY DEF MarkDLQ, GasInv, GasTyped, GasTypeOK
<1>3. GasTyped' BY <1>1, <1>2 DEF GasInv, GasTyped, GasTypeOK, SignerSound
<1>4. OnePlace'
  <2> SUFFICES ASSUME NEW r \in Relays
      PROVE /\ Queued(r)' => ~AsLeg(r)' /\ ~InMulti(r)' /\ ~Travelling(r)' /\ ~WasPaid(r)'
            /\ AsLeg(r)' => ~InMulti(r)' /\ ~Travelling(r)' /\ ~WasPaid(r)'
            /\ InMulti(r)' => ~Travelling(r)' /\ ~WasPaid(r)'
            /\ Travelling(r)' => ~WasPaid(r)'
    BY DEF OnePlace
  <2>1. /\ Queued(r) => ~AsLeg(r) /\ ~InMulti(r) /\ ~Travelling(r) /\ ~WasPaid(r)
        /\ AsLeg(r) => ~InMulti(r) /\ ~Travelling(r) /\ ~WasPaid(r)
        /\ InMulti(r) => ~Travelling(r) /\ ~WasPaid(r)
    BY DEF GasInv, OnePlace
  <2>2. Queued(r)' = Queued(r) /\ (AsLeg(r)' => AsLeg(r)) /\ (InMulti(r)' => InMulti(r))
    BY DEF Queued, AsLeg, InMulti
  <2>3. Travelling(r)' => Travelling(r) \/ r \in c.pays BY <1>1 DEF Travelling
  <2>4. WasPaid(r)' => WasPaid(r) \/ r \in c.pays BY <1>1 DEF WasPaid
  <2>5. Travelling(r)' => ~WasPaid(r)' BY <1>1 DEF SignerSound
  <2>6. r \in c.pays => ~Queued(r) /\ ~AsLeg(r)' /\ ~InMulti(r)' BY DEF Paid
  <2> QED BY <2>1, <2>2, <2>3, <2>4, <2>5, <2>6
<1>5. OneRequest' /\ OnePayment' BY <1>1 DEF SignerSound
<1>6. RowsFirst'
  <2>1. \A r \in Relays : relayReq'[r] # "done" => relayRow'[r] = "none"
    BY <1>2 DEF GasInv, RowsFirst
  <2>2. \A j \in jobs' : relayRow'[j[1]] # "none"
    <3>1. \A j \in jobs : j[1] \in Relays BY DEF GasInv, GasTyped, GasTypeOK, Jobs
    <3> QED BY <1>2, <3>1 DEF GasInv, RowsFirst
  <2>3. \A l \in legs' : relayRow'[l[1][1]] # "none"
    <3>1. \A l \in legs' : l[1][1] \in Relays BY DEF Jobs
    <3> QED BY <1>2, <3>1 DEF GasInv, RowsFirst
  <2>4. \A j \in multi' : relayRow'[j[1]] # "none"
    <3>1. \A j \in multi : j[1] \in Relays BY DEF GasInv, GasTyped, GasTypeOK
    <3> QED BY <1>2, <3>1 DEF GasInv, RowsFirst
  <2>5. \A d \in inFlight' : \A r \in d.pays : relayRow'[r] # "none"
    <3>1. \A d \in inFlight' : d.pays \subseteq Relays BY <1>3 DEF GasTyped, Requests
    <3> QED BY <1>1, <1>2, <3>1 DEF GasInv, RowsFirst, Paid
  <2>6. PaidIsStored'
    <3>1. \A p \in netPaid' : p[1] \in Relays BY <1>3 DEF GasTyped
    <3> QED BY <1>1, <1>2, <3>1 DEF GasInv, RowsFirst, Paid, PaidIsStored
  <2> QED BY <2>1, <2>2, <2>3, <2>4, <2>5, <2>6 DEF RowsFirst
<1>7. OwnSignature' BY <1>2 DEF GasInv, OwnSignature
<1>8. NetsFirst' BY <1>1 DEF GasInv, NetsFirst, SignerSound
<1> QED BY <1>3, <1>4, <1>5, <1>6, <1>7, <1>8 DEF GasInv

LEMMA MulticallKeeps == ASSUME GasInv, DispatchMulticallBatch PROVE GasInv'
<1> DEFINE c == MulticallAll
           rs == {j[1] : j \in multi}
<1>1. /\ Effect(c) \/ RequestFails(c)
      /\ relayRow' = relayRow \/ MarkDLQ(rs)
      /\ UNCHANGED <<sigLock, relayReq, jobs>>
  BY DEF DispatchMulticallBatch, MulticallFailed
<1>2. multi' = {} /\ legs' = legs BY DEF DispatchMulticallBatch, MulticallFailed
<1>3. rs \subseteq Relays /\ \A r \in rs : <<r, "amount">> \in multi /\ relayRow[r] # "none"
  BY DEF GasInv, GasTyped, GasTypeOK, RowsFirst
<1>4. c.pays = rs /\ c.key = <<"multicall", rs>> /\ c \in Requests
  BY <1>3 DEF MulticallAll, Multicall, SignerRequest, Requests, KeySet
<1>5. \A r \in rs : /\ ~Travelling(r) /\ ~WasPaid(r) /\ ~Queued(r) /\ ~AsLeg(r)
  BY <1>3 DEF GasInv, OnePlace, InMulti
<1>6. \A r \in Relays : c.key # Fee(r) BY <1>4 DEF Fee
<1> HIDE DEF c, rs
<1>7. Untouched(c) BY <1>4, <1>5 DEF Untouched, Travelling
<1>8. Paid(c) BY <1>2, <1>3, <1>4, <1>5 DEF Paid, AsLeg, InMulti
<1>9. legs' \subseteq Jobs \X {"net", "fee"} BY <1>2 DEF GasInv, GasTyped, GasTypeOK
<1> QED BY <1>1, <1>2, <1>3, <1>4, <1>6, <1>7, <1>8, <1>9, CallKeeps

LEMMA NetLegKeeps == ASSUME GasInv, NEW j \in Jobs, NetLeg(j) PROVE GasInv'
<1> DEFINE c == NetRequest(j)
           r == j[1]
           rs == {j[1]}
<1>1. /\ <<j, "net">> \in legs /\ r \in Relays /\ relayRow[r] # "none"
      /\ j = <<r, j[2]>>
  BY DEF NetLeg, GasInv, RowsFirst, Jobs
<1>2. /\ Effect(c) \/ RequestFails(c)
      /\ relayRow' = relayRow \/ MarkDLQ(rs)
      /\ UNCHANGED <<sigLock, relayReq, jobs, multi>>
  BY DEF NetLeg
<1>3. c \in Requests /\ c.key = Net(r) /\ c.pays = IF j[2] = "amount" THEN {r} ELSE {}
  BY <1>1 DEF NetRequest, SignerRequest, Requests, KeySet, Net
<1>4. \A q \in Relays : c.key # Fee(q) BY <1>3 DEF Fee, Net
<1>5. \A q \in c.pays : /\ q = r /\ j = <<q, "amount">> BY <1>1, <1>3
<1>6. \A q \in c.pays : ~Travelling(q) /\ ~WasPaid(q) /\ ~Queued(q) /\ ~InMulti(q)
  BY <1>1, <1>5 DEF GasInv, OnePlace, AsLeg
<1>7. /\ \A l \in legs' : l \in legs \/ (l = <<j, "fee">> /\ Effect(c))
      /\ <<j, "net">> \notin legs'
  BY DEF NetLeg
<1>8. Effect(c) => Net(r) \in keys'
  BY <1>3 DEF Effect, gasSigner
<1> HIDE DEF c
<1>9. Untouched(c) BY <1>6 DEF Untouched, Travelling
<1>10. Paid(c) BY <1>1, <1>2, <1>5, <1>6, <1>7 DEF Paid, AsLeg, InMulti
<1>11. legs' \subseteq Jobs \X {"net", "fee"} BY <1>7 DEF GasInv, GasTyped, GasTypeOK
<1>12. \A l \in legs' : l \in legs \/ (/\ l[2] = "fee" /\ Net(l[1][1]) \in keys'
                                       /\ relayRow[l[1][1]] # "none")
  BY <1>1, <1>7, <1>8
<1> QED BY <1>1, <1>2, <1>3, <1>4, <1>9, <1>10, <1>11, <1>12, CallKeeps

LEMMA FeeLegKeeps == ASSUME GasInv, NEW j \in Jobs, FeeLeg(j) PROVE GasInv'
<1> DEFINE c == FeeRequest(j)
           r == j[1]
           rs == {j[1]}
<1>1. /\ <<j, "fee">> \in legs /\ r \in Relays /\ relayRow[r] # "none" /\ Net(r) \in keys
  <2>1. <<j, "fee">> \in legs BY DEF FeeLeg
  <2>2. Net(r) \in keys BY <2>1 DEF GasInv, NetsFirst
  <2> QED BY <2>1, <2>2 DEF GasInv, RowsFirst, Jobs
<1>2. /\ Effect(c) \/ RequestFails(c)
      /\ relayRow' = relayRow \/ MarkDLQ(rs)
      /\ UNCHANGED <<sigLock, relayReq, jobs, multi>>
  BY DEF FeeLeg
<1>3. c \in Requests /\ c.key = Fee(r) /\ c.pays = {}
  BY <1>1 DEF FeeRequest, SignerRequest, Requests, KeySet, Fee
<1>4. legs' \subseteq Jobs \X {"net", "fee"} /\ legs' \subseteq legs
  BY DEF GasInv, GasTyped, GasTypeOK, FeeLeg
<1>5. \A q \in Relays : c.key = Fee(q) => Net(q) \in keys BY <1>1, <1>3 DEF Fee
<1> HIDE DEF c
<1>6. Untouched(c) /\ Paid(c) BY <1>3 DEF Untouched, Paid
<1> QED BY <1>1, <1>2, <1>3, <1>4, <1>5, <1>6, CallKeeps

LEMMA ArriveKeeps == ASSUME GasInv, NEW c \in inFlight, RequestArrives(c) PROVE GasInv'
<1>1. /\ Effect(c) /\ c \in Requests
      /\ UNCHANGED <<sigLock, relayRow, relayReq, jobs, legs, multi>>
  BY DEF RequestArrives, gasStore, batcher, GasInv, GasTyped
<1>2. \A r \in c.pays : r \in Relays /\ Travelling(r) BY <1>1 DEF Requests, Travelling
<1>3. Untouched(c) BY <1>2 DEF GasInv, OnePlace, OneRequest, Untouched
<1>4. Paid(c) BY <1>1, <1>2 DEF GasInv, OnePlace, RowsFirst, Paid, AsLeg, InMulti
<1>5. legs' \subseteq Jobs \X {"net", "fee"} BY <1>1 DEF GasInv, GasTyped, GasTypeOK
<1>6. \A r \in Relays : c.key = Fee(r) => Net(r) \in keys BY DEF GasInv, NetsFirst
<1> DEFINE rs == {}
<1>7. rs \in SUBSET Relays /\ \A r \in rs : relayRow[r] # "none" OBVIOUS
<1> QED BY <1>1, <1>3, <1>4, <1>5, <1>6, <1>7, CallKeeps

(* A stop loses the channel and the batch; calls of it may still arrive,   *)
(* each relay in at most one of them.                                      *)
LEMMA StopKeeps == ASSUME GasInv, BatcherStops PROVE GasInv'
<1>1. /\ jobs' = {} /\ legs' = {} /\ multi' = {}
      /\ UNCHANGED <<sigLock, relayRow, keys, netPaid>>
      /\ relayReq' = [r \in Relays |-> IF relayReq[r] = "store" THEN "done" ELSE relayReq[r]]
  BY DEF BatcherStops, gasStore
<1>2. PICK cs \in SUBSET OnTheWay : inFlight' = inFlight \cup {c \in cs : c.key \notin keys}
  BY DEF BatcherStops
<1>3. /\ relayReq' \in [Relays -> {"idle", "store", "done"}]
      /\ \A r \in Relays : relayReq'[r] # "done" => relayReq[r] # "done"
  BY <1>1 DEF GasInv, GasTyped, GasTypeOK
<1>4. \A c \in cs : \/ \E j \in Jobs : c = NetRequest(j) /\ <<j, "net">> \in legs
                    \/ \E j \in Jobs : c = FeeRequest(j) /\ <<j, "fee">> \in legs
                    \/ c = MulticallAll
  <2> SUFFICES ASSUME NEW c \in cs, c # MulticallAll
      PROVE  \/ \E j \in Jobs : c = NetRequest(j) /\ <<j, "net">> \in legs
             \/ \E j \in Jobs : c = FeeRequest(j) /\ <<j, "fee">> \in legs
    OBVIOUS
  <2>1. PICK l \in legs : c = IF l[2] = "net" THEN NetRequest(l[1]) ELSE FeeRequest(l[1])
    BY DEF OnTheWay
  <2>2. l = <<l[1], l[2]>> /\ l[1] \in Jobs /\ l[2] \in {"net", "fee"}
    BY DEF GasInv, GasTyped, GasTypeOK
  <2> QED BY <2>1, <2>2
<1>5. ASSUME NEW j \in Jobs, <<j, "net">> \in legs
      PROVE  /\ NetRequest(j) \in Requests
             /\ \A r \in Relays : NetRequest(j).key # Fee(r)
             /\ \A r \in NetRequest(j).pays : j = <<r, "amount">> /\ AsLeg(r) /\ relayRow[r] # "none"
  <2>1. j = <<j[1], j[2]>> /\ j[1] \in Relays BY DEF Jobs
  <2>2. NetRequest(j) \in Requests /\ \A r \in Relays : NetRequest(j).key # Fee(r)
    BY <2>1 DEF NetRequest, SignerRequest, Requests, KeySet, Net, Fee
  <2>3. \A r \in NetRequest(j).pays : j = <<r, "amount">> BY <2>1 DEF NetRequest, SignerRequest
  <2> QED BY <1>5, <2>2, <2>3 DEF AsLeg, GasInv, RowsFirst
<1>6. ASSUME NEW j \in Jobs, <<j, "fee">> \in legs
      PROVE  /\ FeeRequest(j) \in Requests /\ FeeRequest(j).pays = {}
             /\ \A r \in Relays : FeeRequest(j).key = Fee(r) => Net(r) \in keys
  <2>1. Net(j[1]) \in keys BY <1>6 DEF GasInv, NetsFirst
  <2> QED BY <2>1 DEF FeeRequest, SignerRequest, Requests, KeySet, Fee, Jobs
<1>7. /\ MulticallAll \in Requests
      /\ \A r \in Relays : MulticallAll.key # Fee(r)
      /\ \A r \in MulticallAll.pays : InMulti(r) /\ relayRow[r] # "none"
  <2>1. {j[1] : j \in multi} \subseteq Relays BY DEF GasInv, GasTyped, GasTypeOK
  <2>2. \A r \in {j[1] : j \in multi} : InMulti(r) /\ relayRow[r] # "none"
    BY DEF GasInv, GasTyped, GasTypeOK, RowsFirst, InMulti
  <2> QED BY <2>1, <2>2 DEF MulticallAll, Multicall, SignerRequest, Requests, KeySet, Fee
<1>8. \A c \in cs : /\ c \in Requests
                    /\ \A r \in c.pays : (AsLeg(r) \/ InMulti(r)) /\ relayRow[r] # "none"
                    /\ \A r \in Relays : c.key = Fee(r) => Net(r) \in keys
  <2> SUFFICES ASSUME NEW c \in cs
      PROVE  /\ c \in Requests
             /\ \A r \in c.pays : (AsLeg(r) \/ InMulti(r)) /\ relayRow[r] # "none"
             /\ \A r \in Relays : c.key = Fee(r) => Net(r) \in keys
    OBVIOUS
  <2>1. CASE \E j \in Jobs : c = NetRequest(j) /\ <<j, "net">> \in legs BY <2>1, <1>5
  <2>2. CASE \E j \in Jobs : c = FeeRequest(j) /\ <<j, "fee">> \in legs BY <2>2, <1>6
  <2>3. CASE c = MulticallAll BY <2>3, <1>7
  <2> QED BY <1>4, <2>1, <2>2, <2>3
<1>9. ASSUME NEW c \in cs, NEW d \in cs, NEW r \in Relays, r \in c.pays, r \in d.pays
      PROVE  c = d
  <2>1. \A e \in cs : r \in e.pays => \/ e = NetRequest(<<r, "amount">>) /\ AsLeg(r)
                                      \/ e = MulticallAll /\ InMulti(r)
    <3> SUFFICES ASSUME NEW e \in cs, r \in e.pays
        PROVE  \/ e = NetRequest(<<r, "amount">>) /\ AsLeg(r)
               \/ e = MulticallAll /\ InMulti(r)
      OBVIOUS
    <3>1. CASE \E j \in Jobs : e = NetRequest(j) /\ <<j, "net">> \in legs BY <3>1, <1>5
    <3>2. CASE \E j \in Jobs : e = FeeRequest(j) /\ <<j, "fee">> \in legs BY <3>2, <1>6
    <3>3. CASE e = MulticallAll BY <3>3, <1>7
    <3> QED BY <1>4, <3>1, <3>2, <3>3
  <2>2. AsLeg(r) => ~InMulti(r) BY DEF GasInv, OnePlace
  <2> QED BY <1>9, <2>1, <2>2
<1>10. \A c \in inFlight' : c \in inFlight \/ c \in cs BY <1>2
<1>11. GasTyped' BY <1>1, <1>3, <1>8, <1>10 DEF GasInv, GasTyped, GasTypeOK
<1>12. OnePlace'
  <2>1. \A r \in Relays : ~Queued(r)' /\ ~AsLeg(r)' /\ ~InMulti(r)'
    BY <1>1 DEF Queued, AsLeg, InMulti
  <2>2. ASSUME NEW r \in Relays, Travelling(r)' PROVE ~WasPaid(r)'
    <3>1. Travelling(r) \/ AsLeg(r) \/ InMulti(r) BY <2>2, <1>8, <1>10 DEF Travelling
    <3>2. ~WasPaid(r) BY <3>1 DEF GasInv, OnePlace
    <3> QED BY <3>2, <1>1 DEF WasPaid
  <2> QED BY <2>1, <2>2 DEF OnePlace
<1>13. OneRequest'
  <2> SUFFICES ASSUME NEW c \in inFlight', NEW d \in inFlight', NEW r \in Relays,
                      r \in c.pays, r \in d.pays
      PROVE  c = d
    BY DEF OneRequest
  <2>1. CASE c \in inFlight /\ d \in inFlight BY <2>1 DEF GasInv, OneRequest
  <2>2. CASE c \in cs /\ d \in cs BY <2>2, <1>9
  <2>3. \A a \in cs, b \in inFlight : ~(r \in a.pays /\ r \in b.pays)
    <3>1. \A b \in inFlight : r \in b.pays => Travelling(r) BY DEF Travelling
    <3> QED BY <1>8, <3>1 DEF GasInv, OnePlace
  <2> QED BY <1>10, <2>1, <2>2, <2>3
<1>14. OnePayment' BY <1>1 DEF GasInv, OnePayment
<1>15. RowsFirst' BY <1>1, <1>3, <1>8, <1>10 DEF GasInv, RowsFirst, PaidIsStored
<1>16. OwnSignature' BY <1>1 DEF GasInv, OwnSignature
<1>17. NetsFirst'
  <2>1. \A c \in inFlight', r \in Relays : c.key = Fee(r) => Net(r) \in keys'
    BY <1>1, <1>8, <1>10 DEF GasInv, NetsFirst
  <2> QED BY <1>1, <2>1 DEF GasInv, NetsFirst, FeeFollowsNet
<1> QED BY <1>11, <1>12, <1>13, <1>14, <1>15, <1>16, <1>17 DEF GasInv

LEMMA GasNextInv == GasInv /\ [GasNext]_gasvars => GasInv'
<1> SUFFICES ASSUME GasInv, [GasNext]_gasvars PROVE GasInv' OBVIOUS
<1>1. ASSUME NEW r \in Relays, AcquireLock(r) PROVE GasInv' BY <1>1, LockKeeps
<1>2. ASSUME NEW r \in Relays, SubmitRelay(r) \/ PollPendingRelays(r) PROVE GasInv'
  BY <1>2, SubmitKeeps
<1>3. ASSUME NEW s \in Sigs, LockExpires(s) PROVE GasInv'
  <2> PICK r \in Relays : s = SigOf[r] BY DEF Sigs
  <2> QED BY <1>3, LockKeeps
<1>4. CASE UNCHANGED gasvars
  <2>1. UNCHANGED <<sigLock, relayReq, relayRow, jobs, legs, multi, keys, netPaid, inFlight>>
    BY <1>4 DEF gasvars
  <2>2. GasTyped' BY <2>1 DEF GasInv, GasTyped, GasTypeOK
  <2>3. OnePlace' BY <2>1 DEF GasInv, OnePlace, Queued, AsLeg, InMulti, Travelling, WasPaid
  <2>4. OneRequest' /\ OnePayment' /\ RowsFirst'
    BY <2>1 DEF GasInv, OneRequest, OnePayment, RowsFirst, PaidIsStored
  <2>5. OwnSignature' /\ NetsFirst' BY <2>1 DEF GasInv, OwnSignature, NetsFirst, FeeFollowsNet
  <2> QED BY <2>2, <2>3, <2>4, <2>5 DEF GasInv
<1> QED BY <1>1, <1>2, <1>3, <1>4, CollectKeeps, MulticallKeeps, StopKeeps, NetLegKeeps,
           FeeLegKeeps, ArriveKeeps DEF GasNext

LEMMA GasInvEnough == GasInv => RelayPaysOnce
<1> SUFFICES ASSUME GasInv PROVE RelayPaysOnce OBVIOUS
<1>1. SignaturePaysOnce
  <2> SUFFICES ASSUME NEW p \in netPaid, NEW q \in netPaid, SigOf[p[1]] = SigOf[q[1]]
      PROVE  p = q
    BY DEF SignaturePaysOnce
  <2>1. p[1] \in Relays /\ q[1] \in Relays BY DEF GasInv, GasTyped
  <2>2. relayRow[p[1]] # "none" /\ relayRow[q[1]] # "none"
    BY DEF GasInv, RowsFirst, PaidIsStored
  <2>3. p[1] = q[1] BY <2>1, <2>2 DEF GasInv, OwnSignature
  <2> QED BY <2>3 DEF GasInv, OnePayment
<1> QED BY <1>1 DEF RelayPaysOnce, GasInv, GasTyped, RowsFirst, NetsFirst

(* For any requests, signatures and batch sizes: a signature pays once,    *)
(* for a relay that was stored, and its fee follows its net amount         *)
(* (internal/paymaster, database/gas_station.go).                          *)
THEOREM SignaturesPayOnce == GasSpec => []RelayPaysOnce
<1>1. GasSpec => []GasInv BY GasInitInv, GasNextInv, PTL DEF GasSpec
<1> QED BY <1>1, GasInvEnough, PTL

-----------------------------------------------------------------------------
(* ChainFX Tap.  A goroutine is paying from its claim to what it writes of *)
(* the answer of its PUT, and nobody else is then at the settlement.       *)
Paying(w) == \/ job[w].at \in {"mark", "put"}
             \/ job[w].at = "apply" /\ job[w].ans \in Seen \cup {"ambiguous"}
Alone(w) == \A v \in Goroutines : v # w => job[v].a # job[w].a

JobSound(w) == LET a == job[w].a IN
    /\ job[w].at = "idle" <=> a = NoAuth
    /\ a # NoAuth => settle[a].st # "none"
    /\ a # NoAuth /\ settle[a].out = "not_submitted" =>
         job[w].at \in {"mark", "review"} /\ settle[a].st = "PROCESSING" /\ Alone(w)
    /\ job[w].at = "mark" => settle[a].out = "not_submitted"
    /\ job[w].at = "put" => /\ settle[a].st = "PROCESSING" /\ settle[a].out = "started"
                            /\ puts[a] = 0
    /\ Paying(w) => /\ Alone(w) /\ settle[a].st \in {"PROCESSING"} \cup Final
                    /\ settle[a].st = "PROCESSING" => settle[a].runs < MaxRuns
    /\ job[w].at = "apply" => job[w].ans # "none"
    /\ job[w].at = "idle" => job[w].ans = "none"
    /\ job[w].at = "event" => job[w].ans \in Seen
    /\ job[w].ans = "paid" => pixAt[a] = "paid"
    /\ job[w].ans = "rejected" => pixAt[a] = "rejected"

RowSound(a) ==
    /\ settle[a].st \in {"none", "PENDING"} =>
         settle[a].runs = 0 /\ settle[a].out = "not_submitted"
    /\ settle[a].st \in Open => settle[a].runs <= MaxRuns
    /\ settle[a].st \in {"SUBMITTED", "SUBMISSION_UNKNOWN"} => settle[a].out # "not_submitted"
    /\ settle[a].out = "rejected" => settle[a].st = "REJECTED"
    /\ puts[a] <= 1 /\ (puts[a] = 1 => settle[a].out # "not_submitted")
    /\ puts[a] = 0 => pixAt[a] = "none" /\ a \notin onWire
    /\ settle[a].st = "CONFIRMED" => pixAt[a] = "paid"
    /\ settle[a].st = "REJECTED" => pixAt[a] = "rejected"

TapInv == /\ TapTypeOK /\ HoldsAddUp
          /\ \A w \in Goroutines : JobSound(w)
          /\ \A a \in Auths : RowSound(a)

LEMMA TapInitInv == TapInit => TapInv
<1> SUFFICES ASSUME TapInit PROVE TapInv OBVIOUS
<1>1. NoSettlement \in SettlementRow /\ Free \in Job
  BY TapAssumption DEF NoSettlement, SettlementRow, SettlementStatus, SubmissionStates, Free, Job
<1>2. IsFiniteSet(HeldBefore) /\ Cardinality(HeldBefore) \in Nat
  BY TapAssumption, FS_Subset, FS_CardinalityType
<1>3. TapTypeOK BY <1>1, <1>2, TapAssumption DEF TapInit, TapTypeOK, AuthStatus
<1>4. In("approved") = HeldBefore /\ In("captured") = {}
  BY TapAssumption DEF TapInit, In
<1>5. Issues = {} BY DEF TapInit, Issues, NoSettlement
<1>6. HoldsAddUp
  <2>1. /\ locked = Cardinality(HeldBefore) /\ avail = Funds /\ Funds \in Nat
        /\ Cardinality(In("captured")) = 0
    BY <1>4, FS_EmptySet, TapAssumption DEF TapInit
  <2> QED BY <1>2, <1>4, <1>5, <2>1 DEF HoldsAddUp
<1>7. \A w \in Goroutines : JobSound(w) BY DEF TapInit, JobSound, Free, Paying
<1>8. ASSUME NEW a \in Auths PROVE RowSound(a)
  <2>1. settle[a].st = "none" /\ settle[a].out = "not_submitted" /\ settle[a].runs = 0
    BY DEF TapInit, NoSettlement
  <2>2. puts[a] = 0 /\ pixAt[a] = "none" /\ a \notin onWire BY DEF TapInit
  <2> QED BY <2>1, <2>2, TapAssumption DEF RowSound, Open
<1> QED BY <1>3, <1>6, <1>7, <1>8 DEF TapInv

(* What a goroutine does at one settlement leaves the others, and those    *)
(* who are at them, alone; nobody who is paying is at this one.            *)
LEMMA OthersKeep ==
    ASSUME TapInv, NEW w \in Goroutines, NEW a \in Auths,
           job[w].a = a \/ (job[w].a = NoAuth /\ Claimable(a)),
           job' \in [Goroutines -> Job], job'[w].a \in {a, NoAuth},
           \A v \in Goroutines : v # w => job'[v] = job[v],
           \A b \in Auths : b # a =>
               settle'[b] = settle[b] /\ pixAt'[b] = pixAt[b] /\ puts'[b] = puts[b]
               /\ (b \in onWire' <=> b \in onWire),
           settle'[a].st # "none",
           settle[a].out # "not_submitted" => settle'[a].out # "not_submitted",
           pixAt[a] \in {"paid", "rejected"} => pixAt'[a] = pixAt[a]
    PROVE  /\ \A v \in Goroutines : v # w => JobSound(v)'
           /\ \A b \in Auths : b # a => RowSound(b)'
<1>1. \A b \in Auths : b # a => RowSound(b)' BY DEF TapInv, RowSound
<1>2. ASSUME NEW v \in Goroutines, v # w PROVE JobSound(v)'
  <2>1. JobSound(v) /\ JobSound(w) BY DEF TapInv
  <2>2. job[v] \in Job /\ job[v].a \in Auths \cup {NoAuth} BY DEF TapInv, TapTypeOK, Job
  <2>3. job'[v] = job[v] BY <1>2
  <2>4. CASE job[v].a = NoAuth
    <3>1. job[v].at = "idle" BY <2>1, <2>4 DEF JobSound
    <3>2. job[v].ans = "none" BY <2>1, <3>1 DEF JobSound
    <3> QED BY <2>1, <2>3, <2>4, <3>1, <3>2 DEF JobSound, Paying
  <2>5. CASE job[v].a # NoAuth /\ job[v].a # a
    <3>1. job[v].a \in Auths BY <2>2, <2>5
    <3>2. Alone(v) => Alone(v)' BY <2>3, <2>5, <3>1 DEF Alone
    <3>3. Paying(v)' <=> Paying(v) BY <2>3 DEF Paying
    <3> QED BY <2>1, <2>3, <2>5, <3>1, <3>2, <3>3 DEF JobSound
  <2>6. CASE job[v].a = a
    <3>1. ~Alone(v) \/ (job[w].a = NoAuth /\ Claimable(a)) BY <1>2, <2>6 DEF Alone
    <3>2. settle[a].out # "not_submitted" /\ ~Paying(v)
      BY <2>1, <2>6, <3>1, TapAssumption DEF JobSound, Claimable, Open, Final
    <3>3. ~Paying(v)' BY <2>3, <3>2 DEF Paying
    <3> QED BY <2>1, <2>3, <2>6, <3>2, <3>3 DEF JobSound, Paying
  <2> QED BY <2>4, <2>5, <2>6
<1> QED BY <1>1, <1>2

(* A step that moves no hold and creates no settlement keeps the books of  *)
(* the wallet.                                                             *)
LEMMA HoldsKeep ==
    ASSUME HoldsAddUp, UNCHANGED hold,
           \A a \in Auths : settle'[a].st = "none" <=> settle[a].st = "none"
    PROVE  HoldsAddUp'
<1>1. auth' = auth /\ avail' = avail /\ locked' = locked BY DEF hold
<1>2. In("approved")' = In("approved") /\ In("captured")' = In("captured") BY <1>1 DEF In
<1>3. Issues' = {} BY <1>1 DEF HoldsAddUp, Issues
<1> QED BY <1>1, <1>2, <1>3 DEF HoldsAddUp

(* The steps of the holds: the settlement of a capture is created, pending.*)
LEMMA CreatedKeeps ==
    ASSUME TapInv, UNCHANGED <<job, pix>>,
           \A a \in Auths : \/ settle'[a] = settle[a]
                            \/ /\ settle[a].st = "none"
                               /\ settle'[a] = [settle[a] EXCEPT !.st = "PENDING"]
    PROVE  /\ \A w \in Goroutines : JobSound(w)'
           /\ \A a \in Auths : RowSound(a)'
<1>1. job' = job /\ pixAt' = pixAt /\ onWire' = onWire /\ puts' = puts BY DEF pix
<1>2. ASSUME NEW a \in Auths
      PROVE  /\ \/ settle'[a].st = settle[a].st
                \/ settle[a].st = "none" /\ settle'[a].st = "PENDING"
             /\ settle'[a].out = settle[a].out /\ settle'[a].runs = settle[a].runs
  <2>1. settle[a] \in SettlementRow BY DEF TapInv, TapTypeOK
  <2>2. CASE settle'[a] = settle[a] BY <2>2
  <2>3. CASE settle[a].st = "none" /\ settle'[a] = [settle[a] EXCEPT !.st = "PENDING"]
    BY <2>1, <2>3 DEF SettlementRow
  <2> QED BY <2>2, <2>3
<1>3. ASSUME NEW w \in Goroutines PROVE JobSound(w)'
  <2>1. JobSound(w) BY DEF TapInv
  <2>2. CASE job[w].a = NoAuth
    BY <1>1, <2>1, <2>2 DEF JobSound, Paying
  <2>3. CASE job[w].a # NoAuth
    <3>1. job[w].a \in Auths BY <2>3 DEF TapInv, TapTypeOK, Job
    <3>2. settle'[job[w].a] = settle[job[w].a] BY <2>1, <2>3, <3>1 DEF JobSound
    <3>3. Alone(w)' <=> Alone(w) BY <1>1 DEF Alone
    <3>4. Paying(w)' <=> Paying(w) BY <1>1 DEF Paying
    <3> QED BY <1>1, <2>1, <3>2, <3>3, <3>4 DEF JobSound
  <2> QED BY <2>2, <2>3
<1>4. ASSUME NEW a \in Auths PROVE RowSound(a)'
  BY <1>1, <1>2, TapAssumption DEF TapInv, RowSound, Open
<1> QED BY <1>3, <1>4

LEMMA AuthorizeKeeps == ASSUME TapInv, NEW a \in Auths, Authorize(a) PROVE TapInv'
<1> Columns # Values BY DEF Columns, Values
<1>1. /\ UNCHANGED <<auth, used, avail, locked, late, settle, announced, job, pix>>
      /\ answer' = [answer EXCEPT ![a] = "error"]
  BY DEF Authorize, AuthorizeNFCPayment
<1>2. TapTypeOK' BY <1>1 DEF TapInv, TapTypeOK, pix
<1>3. In("approved")' = In("approved") /\ In("captured")' = In("captured") /\ Issues' = Issues
  BY <1>1 DEF In, Issues
<1>4. HoldsAddUp' BY <1>1, <1>3 DEF TapInv, HoldsAddUp
<1> QED BY <1>1, <1>2, <1>4, CreatedKeeps DEF TapInv

LEMMA HoldEndsKeeps == ASSUME TapInv, NEW a \in Auths, HoldEnds(a) PROVE TapInv'
<1>1. /\ UNCHANGED <<auth, answer, used, avail, locked, settle, announced, job, pix>>
      /\ late' = late \cup {a}
  BY DEF HoldEnds
<1>2. TapTypeOK' BY <1>1 DEF TapInv, TapTypeOK, pix
<1>3. In("approved")' = In("approved") /\ In("captured")' = In("captured") /\ Issues' = Issues
  BY <1>1 DEF In, Issues
<1>4. HoldsAddUp' BY <1>1, <1>3 DEF TapInv, HoldsAddUp
<1> QED BY <1>1, <1>2, <1>4, CreatedKeeps DEF TapInv

LEMMA GivenBackAdds ==
    ASSUME NEW x \in Nat, NEW y \in Nat, NEW c \in Nat, NEW m \in Nat, y >= c
    PROVE  /\ x + c \in Nat /\ y - c \in Nat
           /\ (x + c) + (y - c) + m = x + y + m
OBVIOUS

(* A set of holds is given back: they leave the approved ones and nothing  *)
(* is captured.                                                            *)
LEMMA GivenBackKeeps ==
    ASSUME TapInv, NEW as \in SUBSET In("approved"), NEW s \in {"expired", "reversed"},
           GiveBack(Cardinality(as)),
           auth' = [a \in Auths |-> IF a \in as THEN s ELSE auth[a]],
           UNCHANGED <<answer, used, late, settle, announced, job, pix>>
    PROVE  TapInv'
<1>1. IsFiniteSet(as) /\ IsFiniteSet(In("approved")) /\ IsFiniteSet(In("captured"))
  BY TapAssumption, FS_Subset DEF In
<1>2. Cardinality(as) \in Nat /\ Cardinality(In("approved")) \in Nat
      /\ Cardinality(In("captured")) \in Nat
  BY <1>1, FS_CardinalityType
<1>3. /\ In("approved")' = In("approved") \ as /\ In("captured")' = In("captured")
  BY DEF In
<1>4. In("approved") \cap as = as OBVIOUS
<1>5. Cardinality(In("approved")') = Cardinality(In("approved")) - Cardinality(as)
  BY <1>1, <1>3, <1>4, FS_Difference
<1>6. avail \in Nat /\ locked \in Nat BY DEF TapInv, TapTypeOK
<1>7. /\ locked >= Cardinality(as) /\ locked' = locked - Cardinality(as)
      /\ avail' = avail + Cardinality(as)
  BY DEF GiveBack, Unlock
<1>8. Issues' = {} BY DEF TapInv, HoldsAddUp, Issues, In
<1>9. HoldsAddUp'
  <2>1. locked = Cardinality(In("approved"))
        /\ avail + locked + Cardinality(In("captured")) = Funds + Cardinality(HeldBefore)
    BY DEF TapInv, HoldsAddUp
  <2>2. locked' = Cardinality(In("approved")') BY <1>5, <1>7, <2>1
  <2>3. avail' + locked' + Cardinality(In("captured")) = Funds + Cardinality(HeldBefore)
    <3>1. locked >= Cardinality(as) BY <1>7
    <3> DEFINE c == Cardinality(as)
               m == Cardinality(In("captured"))
    <3>2. c \in Nat /\ m \in Nat /\ avail \in Nat /\ locked \in Nat BY <1>2, <1>6
    <3>3. locked >= c BY <3>1
    <3>4. avail' = avail + c /\ locked' = locked - c BY <1>7
    <3> HIDE DEF c, m
    <3>5. (avail + c) + (locked - c) + m = avail + locked + m BY <3>2, <3>3
    <3>6. avail' + locked' + m = avail + locked + m BY <3>4, <3>5
    <3> QED BY <2>1, <3>6 DEF m
  <2> QED BY <1>3, <1>8, <2>2, <2>3 DEF HoldsAddUp
<1>10. auth' \in [Auths -> AuthStatus] BY DEF TapInv, TapTypeOK, AuthStatus
<1>11. avail' \in Nat /\ locked' \in Nat BY <1>2, <1>6, <1>7, GivenBackAdds
<1>12. TapTypeOK' BY <1>10, <1>11 DEF TapInv, TapTypeOK, pix
<1> QED BY <1>9, <1>12, CreatedKeeps DEF TapInv

LEMMA ExpireKeeps == ASSUME TapInv, NEW as \in SUBSET Auths, ExpireNFCHolds(as) PROVE TapInv'
<1>1. as \in SUBSET In("approved") BY DEF ExpireNFCHolds, In
<1> QED BY <1>1, GivenBackKeeps DEF ExpireNFCHolds

LEMMA ReverseKeeps == ASSUME TapInv, NEW a \in Auths, Reverse(a) PROVE TapInv'
<1>1. {a} \in SUBSET In("approved") BY DEF Reverse, FinishNFCAuthorization, In
<1>2. Cardinality({a}) = 1 BY FS_Singleton
<1>3. auth' = [b \in Auths |-> IF b \in {a} THEN "reversed" ELSE auth[b]]
  BY DEF Reverse, FinishNFCAuthorization, TapInv, TapTypeOK
<1> QED BY <1>1, <1>2, <1>3, GivenBackKeeps DEF Reverse, FinishNFCAuthorization

LEMMA CaptureKeeps == ASSUME TapInv, NEW a \in Auths, Capture(a) PROVE TapInv'
<1>1. TapTypeOK /\ HoldsAddUp BY DEF TapInv
<1>2. settle[a] \in SettlementRow /\ avail \in Nat /\ locked \in Nat BY <1>1 DEF TapTypeOK
<1>3. CASE auth[a] = "captured"
  <2>1. settle[a].st # "none" BY <1>1, <1>3 DEF HoldsAddUp, Issues
  <2>2. UNCHANGED <<auth, avail, locked, settle, answer, used, late, job, pix>>
        /\ announced' \subseteq Auths
    BY <1>1, <1>3, <2>1 DEF Capture, CaptureNFCAuthorization, Create, TapTypeOK
  <2>3. TapTypeOK' BY <1>1, <2>2 DEF TapTypeOK, pix
  <2>4. HoldsAddUp' BY <1>1, <2>2, HoldsKeep DEF hold
  <2> QED BY <2>2, <2>3, <2>4, CreatedKeeps DEF TapInv
<1>4. CASE auth[a] = "approved" /\ a \in late
  <2>1. {a} \in SUBSET In("approved") BY <1>4 DEF In
  <2>2. Cardinality({a}) = 1 BY FS_Singleton
  <2>3. auth' = [b \in Auths |-> IF b \in {a} THEN "expired" ELSE auth[b]]
    BY <1>1, <1>4 DEF Capture, CaptureNFCAuthorization, TapTypeOK
  <2>4. GiveBack(1) /\ UNCHANGED <<answer, used, late, settle, announced, job, pix>>
    BY <1>4 DEF Capture, CaptureNFCAuthorization
  <2> QED BY <2>1, <2>2, <2>3, <2>4, GivenBackKeeps
<1>5. CASE auth[a] = "approved" /\ a \notin late
  <2>1. settle[a].st = "none" BY <1>1, <1>5 DEF HoldsAddUp, Issues
  <2>2. /\ UNCHANGED <<avail, answer, used, late, job, pix>> /\ announced' = announced \cup {a}
        /\ locked >= 1 /\ locked' = locked - 1 /\ auth' = [auth EXCEPT ![a] = "captured"]
        /\ settle' = [settle EXCEPT ![a].st = "PENDING"]
    BY <1>5, <2>1 DEF Capture, CaptureNFCAuthorization, Create, Unlock
  <2>3. settle' \in [Auths -> SettlementRow]
    <3> DEFINE to == [settle[a] EXCEPT !.st = "PENDING"]
    <3>1. to \in SettlementRow BY <1>2 DEF SettlementRow, SettlementStatus
    <3>2. settle' = [settle EXCEPT ![a] = to] BY <2>2
    <3> HIDE DEF to
    <3> QED BY <1>1, <3>1, <3>2 DEF TapTypeOK
  <2>4. TapTypeOK'
    <3>1. auth' \in [Auths -> AuthStatus] BY <1>1, <2>2 DEF TapTypeOK, AuthStatus
    <3>2. locked' \in Nat BY <1>2, <2>2
    <3>3. announced' \subseteq Auths BY <1>1, <2>2 DEF TapTypeOK
    <3> QED BY <1>1, <2>2, <2>3, <3>1, <3>2, <3>3 DEF TapTypeOK, pix
  <2>5. /\ settle'[a] = [settle[a] EXCEPT !.st = "PENDING"]
        /\ \A b \in Auths : b # a => settle'[b] = settle[b]
    BY <1>1, <2>2 DEF TapTypeOK
  <2>6. settle'[a].st = "PENDING" BY <1>2, <2>5 DEF SettlementRow
  <2>7. auth'[a] = "captured" /\ \A b \in Auths : b # a => auth'[b] = auth[b]
    BY <1>1, <2>2 DEF TapTypeOK
  <2>8. Issues' = {}
    <3>1. \A b \in Auths : auth[b] = "captured" <=> settle[b].st # "none"
      BY <1>1 DEF HoldsAddUp, Issues
    <3>2. \A b \in Auths : auth'[b] = "captured" <=> settle'[b].st # "none"
      BY <2>5, <2>6, <2>7, <3>1
    <3> QED BY <3>2 DEF Issues
  <2>9. IsFiniteSet(In("approved")) /\ IsFiniteSet(In("captured"))
    BY TapAssumption, FS_Subset DEF In
  <2>10. /\ In("approved")' = In("approved") \ {a} /\ a \in In("approved")
         /\ In("captured")' = In("captured") \cup {a} /\ a \notin In("captured")
    BY <1>5, <2>7 DEF In
  <2>11. /\ Cardinality(In("approved")') = Cardinality(In("approved")) - 1
         /\ Cardinality(In("captured")') = Cardinality(In("captured")) + 1
    BY <2>9, <2>10, FS_AddElement, FS_RemoveElement
  <2>12. Cardinality(In("approved")) \in Nat /\ Cardinality(In("captured")) \in Nat
    BY <2>9, FS_CardinalityType
  <2>13. HoldsAddUp'
    <3>1. locked = Cardinality(In("approved"))
          /\ avail + locked + Cardinality(In("captured")) = Funds + Cardinality(HeldBefore)
      BY <1>1 DEF HoldsAddUp
    <3> QED BY <1>2, <2>2, <2>8, <2>11, <2>12, <3>1 DEF HoldsAddUp
  <2>14. \A b \in Auths : \/ settle'[b] = settle[b]
                          \/ /\ settle[b].st = "none"
                             /\ settle'[b] = [settle[b] EXCEPT !.st = "PENDING"]
    BY <2>1, <2>5
  <2> QED BY <2>2, <2>4, <2>13, <2>14, CreatedKeeps DEF TapInv
<1> QED BY <1>3, <1>4, <1>5 DEF Capture

(* A goroutine w takes its next step at settlement a.                      *)
LEMMA JobStepKeeps ==
    ASSUME TapInv, NEW w \in Goroutines, NEW a \in Auths,
           job[w].a = a \/ (job[w].a = NoAuth /\ Claimable(a)),
           NEW j \in Job, job' = [job EXCEPT ![w] = j], j.a \in {a, NoAuth},
           NEW r \in SettlementRow, settle' = [settle EXCEPT ![a] = r],
           settle[a].st # "none", r.st # "none",
           settle[a].out # "not_submitted" => r.out # "not_submitted",
           UNCHANGED hold, announced' \subseteq Auths,
           \/ UNCHANGED pix
           \/ /\ pixAt' \in [Auths -> {"none", "accepted", "paid", "rejected"}]
              /\ onWire' \subseteq Auths /\ puts' \in [Auths -> Nat]
              /\ \A b \in Auths : b # a => pixAt'[b] = pixAt[b] /\ puts'[b] = puts[b]
                                           /\ (b \in onWire' <=> b \in onWire)
              /\ pixAt[a] \in {"paid", "rejected"} => pixAt'[a] = pixAt[a],
           JobSound(w)', RowSound(a)'
    PROVE  TapInv'
<1>1. TapTypeOK /\ HoldsAddUp BY DEF TapInv
<1>2. settle' \in [Auths -> SettlementRow] /\ job' \in [Goroutines -> Job]
  BY <1>1 DEF TapTypeOK
<1>3. settle'[a] = r /\ \A b \in Auths : b # a => settle'[b] = settle[b]
  BY <1>1 DEF TapTypeOK
<1>4. job'[w] = j /\ \A v \in Goroutines : v # w => job'[v] = job[v]
  BY <1>1 DEF TapTypeOK
<1>5. /\ pixAt' \in [Auths -> {"none", "accepted", "paid", "rejected"}]
      /\ onWire' \subseteq Auths /\ puts' \in [Auths -> Nat]
  BY <1>1 DEF TapTypeOK, pix
<1>6. TapTypeOK' BY <1>1, <1>2, <1>5 DEF TapTypeOK, hold
<1>7. HoldsAddUp' BY <1>1, <1>3, HoldsKeep
<1>8. /\ \A b \in Auths : b # a => pixAt'[b] = pixAt[b] /\ puts'[b] = puts[b]
                                     /\ (b \in onWire' <=> b \in onWire)
      /\ pixAt[a] \in {"paid", "rejected"} => pixAt'[a] = pixAt[a]
  BY DEF pix
<1>9. /\ \A v \in Goroutines : v # w => JobSound(v)'
      /\ \A b \in Auths : b # a => RowSound(b)'
  <2>1. job'[w].a \in {a, NoAuth} BY <1>4
  <2>2. settle'[a].st # "none"
        /\ (settle[a].out # "not_submitted" => settle'[a].out # "not_submitted")
    BY <1>3
  <2>3. \A b \in Auths : b # a =>
           settle'[b] = settle[b] /\ pixAt'[b] = pixAt[b] /\ puts'[b] = puts[b]
           /\ (b \in onWire' <=> b \in onWire)
    BY <1>3, <1>8
  <2> QED BY <1>2, <1>4, <1>8, <2>1, <2>2, <2>3, OthersKeep
<1> QED BY <1>6, <1>7, <1>9 DEF TapInv

(* A row is changed from outside: by the webhook or for the manual mode.   *)
LEMMA RowStepKeeps ==
    ASSUME TapInv, NEW a \in Auths, NEW r \in SettlementRow,
           settle' = [settle EXCEPT ![a] = r], UNCHANGED <<hold, job, pix>>,
           announced' \subseteq Auths,
           r.st = "none" <=> settle[a].st = "none",
           r.out = "not_submitted" => settle[a].out = "not_submitted",
           r.runs = settle[a].runs,
           settle[a].st = "PROCESSING" => \/ r.st = "PROCESSING" /\ r.out = settle[a].out
                                          \/ r.st \in Final /\ puts[a] # 0,
           settle[a].st \in Final => r.st \in Final,
           r.st \in Open => settle[a].st \in Open,
           r.st \in {"none", "PENDING"} => r.st = settle[a].st /\ r.out = settle[a].out,
           r.st \in {"PROCESSING", "SUBMITTED", "SUBMISSION_UNKNOWN"} => r.st = settle[a].st,
           r.out = "rejected" => r.st = "REJECTED",
           r.st = "CONFIRMED" => pixAt[a] = "paid",
           r.st = "REJECTED" => pixAt[a] = "rejected"
    PROVE  TapInv'
<1>1. TapTypeOK /\ HoldsAddUp BY DEF TapInv
<1>2. settle' \in [Auths -> SettlementRow] BY <1>1 DEF TapTypeOK
<1>3. settle'[a] = r /\ \A b \in Auths : b # a => settle'[b] = settle[b]
  BY <1>1 DEF TapTypeOK
<1>4. TapTypeOK' BY <1>1, <1>2 DEF TapTypeOK, hold, pix
<1>5. HoldsAddUp' BY <1>1, <1>3, HoldsKeep
<1>6. job' = job /\ pixAt' = pixAt /\ onWire' = onWire /\ puts' = puts BY DEF pix
<1>7. ASSUME NEW v \in Goroutines PROVE JobSound(v)'
  <2>1. JobSound(v) BY DEF TapInv
  <2>2. Alone(v)' <=> Alone(v) BY <1>6 DEF Alone
  <2>3. Paying(v)' <=> Paying(v) BY <1>6 DEF Paying
  <2>4. CASE job[v].a # a
    <3>1. job[v].a \in Auths \/ job[v].a = NoAuth BY <1>1 DEF TapTypeOK, Job
    <3>2. CASE job[v].a \in Auths
      <4>1. settle'[job[v].a] = settle[job[v].a] BY <1>3, <2>4, <3>2
      <4> QED BY <1>6, <2>1, <2>2, <2>3, <4>1 DEF JobSound
    <3>3. CASE job[v].a = NoAuth
      BY <1>6, <2>1, <3>3 DEF JobSound, Paying
    <3> QED BY <3>1, <3>2, <3>3
  <2>5. CASE job[v].a = a
    <3>1. RowSound(a) BY DEF TapInv
    <3>2. settle[a].out = "not_submitted" => puts[a] = 0
      <4>1. puts[a] \in Nat BY <1>1 DEF TapTypeOK
      <4> QED BY <3>1, <4>1 DEF RowSound
    <3> DEFINE s == settle[a]
    <3>3. a # NoAuth /\ s.st # "none" BY <2>1, <2>5, TapAssumption DEF JobSound
    <3>4. s.st = "PROCESSING" /\ s.out = "not_submitted" =>
            r.st = "PROCESSING" /\ r.out = "not_submitted"
      BY <3>2 DEF Final
    <3>5. job[v].at = "mark" => r.out = "not_submitted"
      BY <2>1, <2>5, <3>3, <3>4 DEF JobSound
    <3>6. job[v].at = "put" => r.st = "PROCESSING" /\ r.out = "started" /\ puts[a] = 0
      BY <2>1, <2>5 DEF JobSound
    <3>7. r.out = "not_submitted" =>
            job[v].at \in {"mark", "review"} /\ r.st = "PROCESSING" /\ Alone(v)
      BY <2>1, <2>5, <3>3, <3>4 DEF JobSound
    <3>8. Paying(v) => /\ Alone(v) /\ r.st \in {"PROCESSING"} \cup Final
                       /\ r.st = "PROCESSING" => r.runs < MaxRuns
      BY <2>1, <2>5, <3>3 DEF JobSound
    <3>9. r.st # "none" BY <3>3
    <3> HIDE DEF s
    <3> QED BY <1>3, <1>6, <2>1, <2>2, <2>3, <2>5, <3>5, <3>6, <3>7, <3>8, <3>9 DEF JobSound
  <2> QED BY <2>4, <2>5
<1>8. ASSUME NEW b \in Auths PROVE RowSound(b)'
  <2>1. RowSound(b) BY DEF TapInv
  <2>2. CASE b # a BY <1>3, <1>6, <2>1, <2>2 DEF RowSound
  <2>3. CASE b = a
    <3>1. puts[a] \in Nat BY <1>1 DEF TapTypeOK
    <3>2. settle[a].out = "not_submitted" => puts[a] = 0 BY <2>1, <2>3, <3>1 DEF RowSound
    <3> QED BY <1>3, <1>6, <2>1, <2>3, <3>1, <3>2 DEF RowSound
  <2> QED BY <2>2, <2>3
<1> QED BY <1>4, <1>5, <1>7, <1>8 DEF TapInv

(* External: Efi alone.                                                    *)
LEMMA EfiKeeps ==
    ASSUME TapInv, NEW a \in Auths, UNCHANGED <<hold, settle, announced, job, puts>>,
           onWire' \subseteq onWire, NEW s \in {"none", "accepted", "paid", "rejected"},
           pixAt' = [pixAt EXCEPT ![a] = s],
           s # pixAt[a] => pixAt[a] \notin {"paid", "rejected"} /\ (pixAt[a] = "none" => a \in onWire)
    PROVE  TapInv'
<1>1. TapTypeOK /\ HoldsAddUp BY DEF TapInv
<1>2. TapTypeOK' BY <1>1 DEF TapTypeOK, hold
<1>3. HoldsAddUp' BY <1>1, HoldsKeep
<1>4. \A b \in Auths : /\ pixAt[b] \in {"paid", "rejected"} => pixAt'[b] = pixAt[b]
                       /\ pixAt'[b] # "none" => pixAt[b] # "none" \/ b \in onWire
  BY <1>1 DEF TapTypeOK
<1>5. ASSUME NEW v \in Goroutines PROVE JobSound(v)'
  <2>1. JobSound(v) /\ (job[v].a \in Auths \/ job[v].a = NoAuth)
    BY <1>1 DEF TapInv, TapTypeOK, Job
  <2>2. Alone(v)' <=> Alone(v) BY DEF Alone
  <2>3. Paying(v)' <=> Paying(v) BY DEF Paying
  <2>4. job[v].ans \in {"paid", "rejected"} => job[v].a \in Auths
    BY <2>1 DEF JobSound
  <2> QED BY <1>4, <2>1, <2>2, <2>3, <2>4 DEF JobSound
<1>6. ASSUME NEW b \in Auths PROVE RowSound(b)'
  <2>1. RowSound(b) BY DEF TapInv
  <2> QED BY <1>4, <2>1 DEF RowSound
<1> QED BY <1>2, <1>3, <1>5, <1>6 DEF TapInv

LEMMA FreeSound ==
    ASSUME NEW w \in Goroutines, job'[w] = Free
    PROVE  JobSound(w)'
BY DEF JobSound, Free, Paying

(* Where a goroutine with work stands.                                     *)
LEMMA AtWork ==
    ASSUME TapInv, NEW w \in Goroutines, job[w].at # "idle"
    PROVE  /\ job[w].a \in Auths /\ job[w].a # NoAuth /\ job[w] \in Job
           /\ settle[job[w].a] \in SettlementRow /\ settle[job[w].a].st # "none"
           /\ JobSound(w) /\ RowSound(job[w].a) /\ puts[job[w].a] \in Nat
           /\ pixAt[job[w].a] \in {"none", "accepted", "paid", "rejected"}
<1>1. JobSound(w) /\ job[w] \in Job BY DEF TapInv, TapTypeOK
<1>2. job[w].a # NoAuth /\ job[w].a \in Auths BY <1>1 DEF JobSound, Job
<1> QED BY <1>1, <1>2 DEF TapInv, TapTypeOK, JobSound

LEMMA GoroutineStopKeeps == ASSUME TapInv, NEW w \in Goroutines, GoroutineStops(w) PROVE TapInv'
<1>1. job' = [job EXCEPT ![w] = Free] /\ UNCHANGED <<hold, settle, announced, pix>>
  BY DEF GoroutineStops, JobEnds
<1>2. CASE job[w].at = "idle"
  <2>1. \A v \in Goroutines : job'[v].a = job[v].a /\ (v # w => job'[v] = job[v])
    BY <1>1, <1>2 DEF TapInv, TapTypeOK, JobSound, Free
  <2>2. job'[w] = Free BY <1>1 DEF TapInv, TapTypeOK
  <2>3. \A v \in Goroutines : JobSound(v)'
    <3> SUFFICES ASSUME NEW v \in Goroutines PROVE JobSound(v)' OBVIOUS
    <3>1. CASE v = w BY <2>2, <3>1, FreeSound
    <3>2. CASE v # w
      <4>1. JobSound(v) /\ job'[v] = job[v] BY <2>1, <3>2 DEF TapInv
      <4>2. Alone(v)' <=> Alone(v) BY <2>1 DEF Alone
      <4>3. Paying(v)' <=> Paying(v) BY <4>1 DEF Paying
      <4> QED BY <1>1, <4>1, <4>2, <4>3 DEF JobSound, pix
    <3> QED BY <3>1, <3>2
  <2>4. \A b \in Auths : RowSound(b)' BY <1>1 DEF TapInv, RowSound, pix
  <2>5. Free \in Job BY DEF Free, Job
  <2>6. TapTypeOK' BY <1>1, <2>5 DEF TapInv, TapTypeOK, hold, pix
  <2>7. HoldsAddUp' BY <1>1, HoldsKeep DEF TapInv
  <2> QED BY <2>3, <2>4, <2>6, <2>7 DEF TapInv
<1>3. CASE job[w].at # "idle"
  <2>0. PICK a \in Auths : a = job[w].a BY <1>3, AtWork
  <2>1. a \in Auths /\ settle[a] \in SettlementRow /\ settle[a].st # "none" /\ RowSound(a)
    BY <1>3, <2>0, AtWork
  <2>2. Free \in Job /\ Free.a = NoAuth BY DEF Free, Job
  <2>3. settle' = [settle EXCEPT ![a] = settle[a]] BY <1>1, <2>1 DEF TapInv, TapTypeOK
  <2>4. job'[w] = Free BY <1>1 DEF TapInv, TapTypeOK
  <2>5. JobSound(w)' BY <2>4, FreeSound
  <2>6. RowSound(a)' BY <1>1, <2>1 DEF RowSound, pix
  <2>7. announced' \subseteq Auths BY <1>1 DEF TapInv, TapTypeOK
  <2> QED BY <1>1, <2>0, <2>1, <2>2, <2>3, <2>5, <2>6, <2>7, JobStepKeeps
<1> QED BY <1>2, <1>3

LEMMA ReviewKeeps == ASSUME TapInv, NEW w \in Goroutines, Review(w) PROVE TapInv'
<1>0. PICK a \in Auths : a = job[w].a BY AtWork DEF Review
<1> a = job[w].a BY <1>0
<1> DEFINE r == IF settle[a].st \in Open \cup {"PENDING", "MANUAL_REQUIRED"}
                THEN [settle[a] EXCEPT !.st = "MANUAL_REVIEW"] ELSE settle[a]
<1>1. /\ job' = [job EXCEPT ![w] = Free] /\ settle' = [settle EXCEPT ![a] = r]
      /\ UNCHANGED <<hold, announced, pix>> /\ job[w].at = "review"
  BY <1>0 DEF Review, JobEnds, ManualReview, MarkIf, Put
<1>2. a \in Auths /\ settle[a] \in SettlementRow /\ settle[a].st # "none" /\ RowSound(a)
  BY <1>0, <1>1, AtWork
<1>3. Free \in Job /\ Free.a = NoAuth BY DEF Free, Job
<1>4. /\ r \in SettlementRow /\ r.st \in {settle[a].st, "MANUAL_REVIEW"}
      /\ r.out = settle[a].out /\ r.runs = settle[a].runs
      /\ settle[a].st = "REJECTED" => r.st = "REJECTED"
  BY <1>2 DEF SettlementRow, SettlementStatus, Open
<1> HIDE DEF r
<1>5. settle'[a] = r /\ job'[w] = Free BY <1>1, <1>2 DEF TapInv, TapTypeOK
<1>6. JobSound(w)' BY <1>5, FreeSound
<1>7. RowSound(a)' BY <1>1, <1>2, <1>4, <1>5 DEF RowSound, pix, Open
<1>8. announced' \subseteq Auths BY <1>1 DEF TapInv, TapTypeOK
<1>9. r.st # "none" BY <1>2, <1>4
<1> QED BY <1>0, <1>1, <1>2, <1>3, <1>4, <1>6, <1>7, <1>8, <1>9, JobStepKeeps

LEMMA MarkKeeps == ASSUME TapInv, NEW w \in Goroutines, MarkSubmitStarted(w) PROVE TapInv'
<1>0. PICK a \in Auths : a = job[w].a BY AtWork DEF MarkSubmitStarted
<1> a = job[w].a BY <1>0
<1> DEFINE r == [settle[a] EXCEPT !.out = "started"]
           j == [job[w] EXCEPT !.at = "put"]
<1>1. /\ job[w].at = "mark" /\ UNCHANGED <<hold, announced, pix>>
      /\ job' = [job EXCEPT ![w] = j]
  BY DEF MarkSubmitStarted, Goes
<1>2. /\ a \in Auths /\ a # NoAuth /\ job[w] \in Job /\ settle[a] \in SettlementRow
      /\ JobSound(w) /\ RowSound(a) /\ puts[a] \in Nat
  BY <1>0, <1>1, AtWork
<1>3. /\ settle[a].out = "not_submitted" /\ settle[a].st = "PROCESSING" /\ Alone(w)
      /\ settle[a].runs < MaxRuns /\ puts[a] = 0
  BY <1>1, <1>2 DEF JobSound, RowSound, Paying
<1>4. settle' = [settle EXCEPT ![a] = r]
  BY <1>0, <1>3 DEF MarkSubmitStarted, SubmitStarted, MarkIf, Put
<1>5. /\ r \in SettlementRow /\ r.st = "PROCESSING" /\ r.out = "started"
      /\ r.runs = settle[a].runs
  BY <1>2, <1>3 DEF SettlementRow, SubmissionStates
<1>6. j \in Job /\ j.a = a /\ j.at = "put" /\ j.ans = job[w].ans BY <1>2 DEF Job
<1> HIDE DEF r, j
<1>7. settle'[a] = r /\ job'[w] = j /\ \A v \in Goroutines : v # w => job'[v] = job[v]
  BY <1>1, <1>2, <1>4 DEF TapInv, TapTypeOK
<1>8. Alone(w)' BY <1>3, <1>6, <1>7 DEF Alone
<1>9. JobSound(w)'
  BY <1>1, <1>2, <1>3, <1>5, <1>6, <1>7, <1>8 DEF JobSound, Paying, pix
<1>10. RowSound(a)' BY <1>1, <1>2, <1>3, <1>5, <1>7 DEF RowSound, pix, Open
<1>11. announced' \subseteq Auths BY <1>1 DEF TapInv, TapTypeOK
<1> QED BY <1>0, <1>1, <1>2, <1>3, <1>4, <1>5, <1>6, <1>9, <1>10, <1>11, JobStepKeeps

LEMMA CallEfiKeeps == ASSUME TapInv, NEW w \in Goroutines, CallEfi(w) PROVE TapInv'
<1>0. PICK a \in Auths : a = job[w].a BY AtWork DEF CallEfi
<1> a = job[w].a BY <1>0
<1>1. job[w].at \in {"put", "get"} /\ UNCHANGED <<hold, settle, announced>>
  BY DEF CallEfi
<1>2. /\ a \in Auths /\ a # NoAuth /\ job[w] \in Job /\ settle[a] \in SettlementRow
      /\ JobSound(w) /\ RowSound(a) /\ puts[a] \in Nat /\ settle[a].st # "none"
      /\ pixAt[a] \in {"none", "accepted", "paid", "rejected"}
  BY <1>0, <1>1, AtWork
<1>3. PICK o \in (IF job[w].at = "put" THEN PutOutcomes(pixAt[a]) ELSE GetOutcomes(pixAt[a])) :
        /\ pixAt' = [pixAt EXCEPT ![a] = o[1]]
        /\ onWire' = IF o[2] = "travels" THEN onWire \cup {a} ELSE onWire
        /\ job' = [job EXCEPT ![w].at = IF job[w].at = "get" /\ o[3] \in Seen THEN "event"
                                        ELSE "apply", ![w].ans = o[3]]
  BY <1>0 DEF CallEfi
<1>4. puts' = IF job[w].at = "put" THEN [puts EXCEPT ![a] = @ + 1] ELSE puts
  BY <1>0 DEF CallEfi
<1> DEFINE e == o[1]
           x == o[3]
           j == [job[w] EXCEPT !.at = IF job[w].at = "get" /\ x \in Seen THEN "event" ELSE "apply",
                               !.ans = x]
<1>5. /\ e \in {"none", "accepted", "paid", "rejected"} /\ x \in Seen \cup EfiErrors \cup {"notfound"}
      /\ pixAt[a] # "none" => e = pixAt[a]
      /\ x = "paid" => e = "paid"
      /\ x = "rejected" => e = "rejected"
      /\ job[w].at = "put" => x # "notfound"
      /\ job[w].at = "get" => e = pixAt[a] /\ x # "ambiguous" /\ o[2] = "ended"
  <2>1. CASE job[w].at = "put"
    BY <1>2, <1>3, <2>1 DEF PutOutcomes, ReportedAs, Seen, EfiErrors
  <2>2. CASE job[w].at = "get"
    BY <1>2, <1>3, <2>2 DEF GetOutcomes, ReportedAs, Seen, EfiErrors
  <2> QED BY <1>1, <2>1, <2>2
<1>6. job' = [job EXCEPT ![w] = j] BY <1>3
<1>7. /\ j \in Job /\ j.a = a /\ j.ans = x /\ x # "none"
      /\ j.at = IF job[w].at = "get" /\ x \in Seen THEN "event" ELSE "apply"
  BY <1>2, <1>5 DEF Job, Seen, EfiErrors
<1>8. e \in {"none", "accepted", "paid", "rejected"} /\ pixAt' = [pixAt EXCEPT ![a] = e]
  BY <1>3, <1>5
<1> HIDE DEF j, e, x
<1>9. /\ job'[w] = j /\ \A v \in Goroutines : v # w => job'[v] = job[v]
      /\ pixAt'[a] = e /\ \A b \in Auths : b # a => pixAt'[b] = pixAt[b]
      /\ pixAt' \in [Auths -> {"none", "accepted", "paid", "rejected"}]
  BY <1>2, <1>6, <1>8 DEF TapInv, TapTypeOK
<1>10. /\ puts'[a] = IF job[w].at = "put" THEN puts[a] + 1 ELSE puts[a]
       /\ \A b \in Auths : b # a => puts'[b] = puts[b]
       /\ puts' \in [Auths -> Nat]
  <2>1. puts[a] + 1 \in Nat BY <1>2
  <2>2. puts' = [puts EXCEPT ![a] = puts[a] + 1] \/ puts' = puts BY <1>4
  <2> QED BY <1>2, <1>4, <2>1, <2>2 DEF TapInv, TapTypeOK
<1>11. /\ onWire' \subseteq Auths
       /\ \A b \in Auths : b # a => (b \in onWire' <=> b \in onWire)
       /\ job[w].at = "get" => onWire' = onWire
  BY <1>2, <1>3, <1>5 DEF TapInv, TapTypeOK
<1>12. Alone(w) => Alone(w)' BY <1>7, <1>9 DEF Alone
<1>13. JobSound(w)'
  <2>1. CASE job[w].at = "put"
    <3>1. /\ settle[a].out = "started" /\ settle[a].st = "PROCESSING" /\ Alone(w)
          /\ settle[a].runs < MaxRuns /\ j.at = "apply"
      BY <1>2, <1>7, <2>1 DEF JobSound, Paying
    <3> QED BY <1>1, <1>2, <1>5, <1>7, <1>9, <1>12, <2>1, <3>1 DEF JobSound, Paying
  <2>2. CASE job[w].at = "get"
    <3>1. settle[a].out # "not_submitted" BY <1>2, <2>2 DEF JobSound
    <3>2. ~Paying(w)' BY <1>5, <1>7, <1>9, <2>2 DEF Paying
    <3> QED BY <1>1, <1>2, <1>5, <1>7, <1>9, <2>2, <3>1, <3>2 DEF JobSound
  <2> QED BY <1>1, <2>1, <2>2
<1>14. RowSound(a)'
  <2>1. CASE job[w].at = "put"
    <3>1. settle[a].out = "started" /\ settle[a].st = "PROCESSING" /\ puts[a] = 0
      BY <1>2, <2>1 DEF JobSound
    <3> QED BY <1>1, <1>2, <1>10, <2>1, <3>1 DEF RowSound
  <2>2. CASE job[w].at = "get"
    <3>1. e = pixAt[a] /\ onWire' = onWire /\ puts'[a] = puts[a] BY <1>5, <1>10, <1>11, <2>2
    <3> QED BY <1>1, <1>2, <1>9, <3>1 DEF RowSound
  <2> QED BY <1>1, <2>1, <2>2
<1>15. settle' = [settle EXCEPT ![a] = settle[a]] BY <1>1, <1>2 DEF TapInv, TapTypeOK
<1>16. announced' \subseteq Auths BY <1>1 DEF TapInv, TapTypeOK
<1>17. pixAt[a] \in {"paid", "rejected"} => pixAt'[a] = pixAt[a] BY <1>5, <1>9
<1> QED BY <1>0, <1>1, <1>2, <1>6, <1>7, <1>9, <1>10, <1>11, <1>13, <1>14, <1>15, <1>16, <1>17,
           JobStepKeeps

(* A goroutine writes what it was told to the row it is at.                *)
LEMMA WriteKeeps ==
    ASSUME TapInv, NEW w \in Goroutines, job[w].at \in {"apply", "event"},
           NEW a \in Auths, a = job[w].a, UNCHANGED <<hold, announced, pix>>,
           NEW r \in SettlementRow, settle' = [settle EXCEPT ![a] = r],
           NEW j \in Job, job' = [job EXCEPT ![w] = j],
           \/ j = Free
           \/ j.at = "event" /\ j.a = a /\ j.ans = job[w].ans /\ job[w].ans \in Seen,
           r.st \notin {"none", "PENDING"}, r.out # "not_submitted",
           r.st \in Open => r.runs <= MaxRuns,
           r.out = "rejected" => r.st = "REJECTED",
           r.st = "CONFIRMED" => pixAt[a] = "paid",
           r.st = "REJECTED" => pixAt[a] = "rejected"
    PROVE  TapInv'
<1>1. /\ JobSound(w) /\ RowSound(a) /\ settle[a].st # "none" /\ a # NoAuth
      /\ job[w] \in Job
  BY AtWork
<1>2. settle'[a] = r /\ job'[w] = j BY DEF TapInv, TapTypeOK
<1>3. JobSound(w)'
  <2>1. CASE j = Free BY <1>2, <2>1, FreeSound
  <2>2. CASE j.at = "event" /\ j.a = a /\ j.ans = job[w].ans /\ job[w].ans \in Seen
    <3>1. ~Paying(w)' BY <1>2, <2>2 DEF Paying
    <3> QED BY <1>1, <1>2, <2>2, <3>1 DEF JobSound, pix
  <2> QED BY <2>1, <2>2
<1>4. RowSound(a)' BY <1>1, <1>2 DEF RowSound, pix
<1>5. announced' \subseteq Auths BY DEF TapInv, TapTypeOK
<1>6. j.a \in {a, NoAuth} BY DEF Free
<1> QED BY <1>1, <1>3, <1>4, <1>5, <1>6, JobStepKeeps

LEMMA ApplyAnswerKeeps == ASSUME TapInv, NEW w \in Goroutines, ApplyEfiAnswer(w) PROVE TapInv'
<1>0. PICK a \in Auths : a = job[w].a BY AtWork DEF ApplyEfiAnswer
<1> a = job[w].a BY <1>0
<1> DEFINE x == job[w].ans
           s == settle[a]
<1>1. job[w].at = "apply" /\ UNCHANGED <<hold, announced, pix>> BY DEF ApplyEfiAnswer
<1>2. /\ a \in Auths /\ s \in SettlementRow /\ s.st # "none" /\ RowSound(a) /\ JobSound(w)
      /\ job[w] \in Job /\ a # NoAuth
  BY <1>0, <1>1, AtWork
<1>3. /\ s.out # "not_submitted" /\ x # "none"
      /\ x \in Seen \cup {"ambiguous"} => (s.st = "PROCESSING" => s.runs < MaxRuns)
  BY <1>1, <1>2 DEF JobSound, Paying
<1>4. x \in Seen \cup EfiErrors \cup {"notfound"} BY <1>2, <1>3 DEF Job
<1>5. /\ s.st \in SettlementStatus /\ s.out \in SubmissionStates /\ s.runs \in 0..MaxRuns + 1
      /\ s.recon \in 0..NotFoundMin
  BY <1>2 DEF SettlementRow
<1>6. s.st # "PENDING"
  BY <1>1, <1>2, <1>3 DEF JobSound, RowSound
<1> s.st \in Open => s.runs <= MaxRuns BY <1>2 DEF RowSound
<1> s.out = "rejected" => s.st = "REJECTED" BY <1>2 DEF RowSound
<1> s.st = "CONFIRMED" => pixAt[a] = "paid" BY <1>2 DEF RowSound
<1> s.st = "REJECTED" => pixAt[a] = "rejected" BY <1>2 DEF RowSound
<1>7. job[w].at \in {"apply", "event"} /\ Free \in Job BY <1>1 DEF Free, Job
<1>8. CASE x \in Seen
  <2> DEFINE r == IF s.st = "PROCESSING"
                  THEN [s EXCEPT !.st = "SUBMITTED", !.runs = s.runs + 1, !.out = "confirmed"]
                  ELSE s
             j == [job[w] EXCEPT !.at = "event"]
  <2>1. settle' = [settle EXCEPT ![a] = r] /\ job' = [job EXCEPT ![w] = j]
    BY <1>1, <1>8 DEF ApplyEfiAnswer, Submitted, MarkIf, Put, Goes, Seen
  <2>2. j \in Job /\ j.at = "event" /\ j.a = a /\ j.ans = x BY <1>2 DEF Job
  <2>3. /\ r \in SettlementRow /\ r.st \notin {"none", "PENDING"} /\ r.out # "not_submitted"
        /\ r.st \in Open => r.runs <= MaxRuns
        /\ r.out = "rejected" => r.st = "REJECTED"
        /\ r.st = "CONFIRMED" => pixAt[a] = "paid"
        /\ r.st = "REJECTED" => pixAt[a] = "rejected"
    <3>1. CASE s.st = "PROCESSING"
      <4>1. /\ r = [s EXCEPT !.st = "SUBMITTED", !.runs = s.runs + 1, !.out = "confirmed"]
            /\ s.runs + 1 \in 0..MaxRuns + 1 /\ s.runs + 1 <= MaxRuns
        BY <1>3, <1>5, <1>8, <3>1, TapAssumption
      <4>2. /\ r \in SettlementRow /\ r.st = "SUBMITTED" /\ r.out = "confirmed"
            /\ r.runs = s.runs + 1
        BY <1>2, <4>1 DEF SettlementRow, SettlementStatus, SubmissionStates, Open
      <4> QED BY <4>1, <4>2
    <3>2. CASE s.st # "PROCESSING"
      BY <1>2, <1>3, <1>6, <3>2 DEF RowSound
    <3> QED BY <3>1, <3>2
  <2> HIDE DEF r, j
  <2> QED BY <1>0, <1>1, <1>7, <1>8, <2>1, <2>2, <2>3, WriteKeeps
<1>9. CASE x = "ambiguous"
  <2> DEFINE r == IF s.st = "PROCESSING"
                  THEN [s EXCEPT !.st = "SUBMISSION_UNKNOWN", !.runs = s.runs + 1,
                                 !.out = "ambiguous"]
                  ELSE s
  <2>1. settle' = [settle EXCEPT ![a] = r] /\ job' = [job EXCEPT ![w] = Free]
    BY <1>1, <1>9 DEF ApplyEfiAnswer, SubmissionUnknown, MarkIf, Put, JobEnds, Seen
  <2>2. /\ r \in SettlementRow /\ r.st \notin {"none", "PENDING"} /\ r.out # "not_submitted"
        /\ r.st \in Open => r.runs <= MaxRuns
        /\ r.out = "rejected" => r.st = "REJECTED"
        /\ r.st = "CONFIRMED" => pixAt[a] = "paid"
        /\ r.st = "REJECTED" => pixAt[a] = "rejected"
    <3>1. CASE s.st = "PROCESSING"
      <4>1. /\ r = [s EXCEPT !.st = "SUBMISSION_UNKNOWN", !.runs = s.runs + 1, !.out = "ambiguous"]
            /\ s.runs + 1 \in 0..MaxRuns + 1 /\ s.runs + 1 <= MaxRuns
        BY <1>3, <1>5, <1>9, <3>1, TapAssumption
      <4>2. /\ r \in SettlementRow /\ r.st = "SUBMISSION_UNKNOWN" /\ r.out = "ambiguous"
            /\ r.runs = s.runs + 1
        BY <1>2, <4>1 DEF SettlementRow, SettlementStatus, SubmissionStates, Open
      <4> QED BY <4>1, <4>2
    <3>2. CASE s.st # "PROCESSING"
      BY <1>2, <1>3, <1>6, <3>2 DEF RowSound
    <3> QED BY <3>1, <3>2
  <2> HIDE DEF r
  <2> QED BY <1>0, <1>1, <1>7, <2>1, <2>2, WriteKeeps
<1>10. CASE x = "permanent"
  <2> DEFINE r == IF s.st \in Open \cup {"PENDING", "MANUAL_REQUIRED"}
                  THEN [s EXCEPT !.st = "MANUAL_REVIEW"] ELSE s
  <2>1. settle' = [settle EXCEPT ![a] = r] /\ job' = [job EXCEPT ![w] = Free]
    BY <1>1, <1>10 DEF ApplyEfiAnswer, ManualReview, MarkIf, Put, JobEnds, Seen
  <2>2. /\ r \in SettlementRow /\ r.st \in {s.st, "MANUAL_REVIEW"} /\ r.out = s.out
        /\ r.runs = s.runs
        /\ s.st \in Final => r.st = s.st
    BY <1>2 DEF SettlementRow, SettlementStatus, Open, Final
  <2> HIDE DEF r
  <2>3. /\ r.st \notin {"none", "PENDING"} /\ r.out # "not_submitted"
        /\ r.st \in Open => r.runs <= MaxRuns
        /\ r.out = "rejected" => r.st = "REJECTED"
        /\ r.st = "CONFIRMED" => pixAt[a] = "paid"
        /\ r.st = "REJECTED" => pixAt[a] = "rejected"
    BY <1>2, <1>3, <1>6, <2>2 DEF Open, Final
  <2> QED BY <1>0, <1>1, <1>7, <2>1, <2>2, <2>3, WriteKeeps
<1>11. CASE x = "transient"
  <2> DEFINE to == IF s.runs >= MaxRuns THEN "MANUAL_REVIEW" ELSE "RETRYABLE"
             r == IF s.st \in Open THEN [s EXCEPT !.st = to, !.runs = s.runs + 1] ELSE s
  <2>1. settle' = [settle EXCEPT ![a] = r] /\ job' = [job EXCEPT ![w] = Free]
    BY <1>1, <1>11 DEF ApplyEfiAnswer, Retryable, MarkIf, Put, JobEnds, Seen
  <2>2. /\ r \in SettlementRow /\ r.st \notin {"none", "PENDING"} /\ r.out # "not_submitted"
        /\ r.st \in Open => r.runs <= MaxRuns
        /\ r.out = "rejected" => r.st = "REJECTED"
        /\ r.st = "CONFIRMED" => pixAt[a] = "paid"
        /\ r.st = "REJECTED" => pixAt[a] = "rejected"
    <3>1. CASE s.st \in Open
      <4>1. r = [s EXCEPT !.st = to, !.runs = s.runs + 1] BY <3>1
      <4>2. s.runs \in Nat /\ s.runs <= MaxRuns /\ s.out # "rejected"
        BY <1>2, <1>5, <3>1, TapAssumption DEF RowSound, Open
      <4>3. s.runs + 1 \in 0..MaxRuns + 1 /\ (to # "MANUAL_REVIEW" => s.runs + 1 <= MaxRuns)
            /\ to \in {"MANUAL_REVIEW", "RETRYABLE"}
        BY <4>2, TapAssumption
      <4> HIDE DEF to
      <4>4. r \in SettlementRow /\ r.st = to /\ r.out = s.out /\ r.runs = s.runs + 1
        BY <1>2, <4>1, <4>3 DEF SettlementRow, SettlementStatus, Open
      <4> HIDE DEF r
      <4> QED BY <1>3, <4>2, <4>3, <4>4 DEF Open
    <3>2. CASE s.st \notin Open
      BY <1>2, <1>3, <1>6, <3>2 DEF RowSound
    <3> QED BY <3>1, <3>2
  <2> HIDE DEF r
  <2> QED BY <1>0, <1>1, <1>7, <2>1, <2>2, WriteKeeps
<1>12. CASE x = "notfound"
  <2>1. PICK aged \in BOOLEAN : MarkIf(a, Open,
          [s EXCEPT !.st = IF aged /\ s.recon + 1 >= NotFoundMin THEN "MANUAL_REVIEW" ELSE @,
                    !.recon = Next1(@, NotFoundMin)])
    BY <1>1, <1>12 DEF ApplyEfiAnswer, ReconcileNotFound, Seen
  <2> DEFINE to == IF aged /\ s.recon + 1 >= NotFoundMin THEN "MANUAL_REVIEW" ELSE s.st
             r == IF s.st \in Open THEN [s EXCEPT !.st = to, !.recon = Next1(s.recon, NotFoundMin)]
                  ELSE s
  <2>2. settle' = [settle EXCEPT ![a] = r] /\ job' = [job EXCEPT ![w] = Free]
    BY <1>1, <1>12, <2>1 DEF ApplyEfiAnswer, MarkIf, Put, JobEnds, Seen
  <2>3. to \in {s.st, "MANUAL_REVIEW"} OBVIOUS
  <2>4. Next1(s.recon, NotFoundMin) \in 0..NotFoundMin
    BY <1>5, TapAssumption DEF Next1
  <2> HIDE DEF to
  <2>5. /\ r \in SettlementRow /\ r.st \in {s.st, "MANUAL_REVIEW"} /\ r.out = s.out
        /\ r.runs = s.runs
        /\ s.st \notin Open => r.st = s.st
    BY <1>2, <2>3, <2>4 DEF SettlementRow, SettlementStatus
  <2> HIDE DEF r
  <2>6. /\ r.st \notin {"none", "PENDING"} /\ r.out # "not_submitted"
        /\ r.st \in Open => r.runs <= MaxRuns
        /\ r.out = "rejected" => r.st = "REJECTED"
        /\ r.st = "CONFIRMED" => pixAt[a] = "paid"
        /\ r.st = "REJECTED" => pixAt[a] = "rejected"
    BY <1>2, <1>3, <1>6, <2>5 DEF Open
  <2> QED BY <1>0, <1>1, <1>7, <2>2, <2>5, <2>6, WriteKeeps
<1> QED BY <1>4, <1>8, <1>9, <1>10, <1>11, <1>12 DEF EfiErrors

(* ApplyMerchantSettlementProviderEvent, from a look-up or from the webhook*)
Applied(s, ans) ==
    LET counted == [s EXCEPT !.recon = Next1(@, NotFoundMin)]
    IN  IF ans = "pending" \/ s.st \notin Open THEN IF ans = "pending" THEN counted ELSE s
        ELSE [counted EXCEPT !.st = IF ans = "paid" THEN "CONFIRMED" ELSE "REJECTED",
                             !.out = IF ans = "paid" THEN "confirmed" ELSE "rejected"]
LEMMA EventRow ==
    ASSUME NEW s \in SettlementRow, NEW ans \in Seen
    PROVE  LET r == Applied(s, ans) IN
           /\ r \in SettlementRow /\ r.runs = s.runs
           /\ ans = "pending" \/ s.st \notin Open => r.st = s.st /\ r.out = s.out
           /\ ans = "paid" /\ s.st \in Open => r.st = "CONFIRMED" /\ r.out = "confirmed"
           /\ ans = "rejected" /\ s.st \in Open => r.st = "REJECTED" /\ r.out = "rejected"
<1> DEFINE c == [s EXCEPT !.recon = Next1(s.recon, NotFoundMin)]
<1>1. Next1(s.recon, NotFoundMin) \in 0..NotFoundMin
  BY TapAssumption DEF Next1, SettlementRow
<1>2. c \in SettlementRow /\ c.st = s.st /\ c.out = s.out /\ c.runs = s.runs
  BY <1>1 DEF SettlementRow
<1> HIDE DEF c
<1>3. CASE ans = "pending" \/ s.st \notin Open BY <1>2, <1>3 DEF c, Applied
<1>4. CASE ans = "paid" /\ s.st \in Open
  <2> DEFINE r == [c EXCEPT !.st = "CONFIRMED", !.out = "confirmed"]
  <2>1. /\ r \in SettlementRow /\ r.st = "CONFIRMED" /\ r.out = "confirmed"
        /\ r.runs = s.runs
    BY <1>2 DEF SettlementRow, SettlementStatus, SubmissionStates, Final
  <2> QED BY <1>4, <2>1 DEF c, Applied
<1>5. CASE ans = "rejected" /\ s.st \in Open
  <2> DEFINE r == [c EXCEPT !.st = "REJECTED", !.out = "rejected"]
  <2>1. /\ r \in SettlementRow /\ r.st = "REJECTED" /\ r.out = "rejected"
        /\ r.runs = s.runs
    BY <1>2 DEF SettlementRow, SettlementStatus, SubmissionStates, Final
  <2> QED BY <1>5, <2>1 DEF c, Applied
<1> QED BY <1>3, <1>4, <1>5 DEF Seen

LEMMA ApplyReportedKeeps ==
    ASSUME TapInv, NEW w \in Goroutines, ApplyReported(w)
    PROVE  TapInv'
<1>0. PICK a \in Auths : a = job[w].a BY AtWork DEF ApplyReported
<1> a = job[w].a BY <1>0
<1> DEFINE ans == job[w].ans
           s == settle[a]
           r == Applied(s, ans)
<1>1. /\ job[w].at = "event" /\ UNCHANGED <<hold, announced, pix>>
      /\ job' = [job EXCEPT ![w] = Free]
  BY DEF ApplyReported, JobEnds
<1>2. /\ s \in SettlementRow /\ s.st # "none" /\ RowSound(a) /\ JobSound(w) /\ a # NoAuth
  BY <1>0, <1>1, AtWork
<1>3. /\ s.out # "not_submitted" /\ ans \in Seen /\ s.st # "PENDING"
      /\ ans = "paid" => pixAt[a] = "paid"
      /\ ans = "rejected" => pixAt[a] = "rejected"
  BY <1>1, <1>2 DEF JobSound, RowSound
<1>4. settle' = [settle EXCEPT ![a] = r]
  BY <1>3 DEF Applied, ApplyReported, ApplyProviderEvent, MarkIf, Put
<1>5. /\ r \in SettlementRow /\ r.runs = s.runs
      /\ ans = "pending" \/ s.st \notin Open => r.st = s.st /\ r.out = s.out
      /\ ans = "paid" /\ s.st \in Open => r.st = "CONFIRMED" /\ r.out = "confirmed"
      /\ ans = "rejected" /\ s.st \in Open => r.st = "REJECTED" /\ r.out = "rejected"
  BY <1>2, <1>3, EventRow
<1> HIDE DEF r
<1>6. /\ s.st \in Open => s.runs <= MaxRuns
      /\ s.out = "rejected" => s.st = "REJECTED"
      /\ s.st = "CONFIRMED" => pixAt[a] = "paid"
      /\ s.st = "REJECTED" => pixAt[a] = "rejected"
  BY <1>2 DEF RowSound
<1>7. /\ r.st \notin {"none", "PENDING"} /\ r.out # "not_submitted"
      /\ r.st \in Open => r.runs <= MaxRuns
      /\ r.out = "rejected" => r.st = "REJECTED"
      /\ r.st = "CONFIRMED" => pixAt[a] = "paid"
      /\ r.st = "REJECTED" => pixAt[a] = "rejected"
  <2>1. CASE ans = "pending" \/ s.st \notin Open BY <1>2, <1>3, <1>5, <1>6, <2>1
  <2>2. CASE ans = "paid" /\ s.st \in Open BY <1>3, <1>5, <2>2 DEF Open
  <2>3. CASE ans = "rejected" /\ s.st \in Open BY <1>3, <1>5, <2>3 DEF Open
  <2> QED BY <1>3, <2>1, <2>2, <2>3 DEF Seen
<1>8. Free \in Job BY DEF Free, Job
<1> QED BY <1>0, <1>1, <1>4, <1>5, <1>7, <1>8, WriteKeeps

LEMMA WebhookKeeps ==
    ASSUME TapInv, NEW a \in Auths, NEW ans \in Seen, Webhook(a, ans)
    PROVE  TapInv'
<1> DEFINE s == settle[a]
           r == Applied(s, ans)
<1>1. /\ s.st # "none" /\ UNCHANGED <<hold, announced, job, pix>> BY DEF Webhook
<1>2. s \in SettlementRow /\ RowSound(a) /\ puts[a] \in Nat BY DEF TapInv, TapTypeOK
<1>3. /\ ans = "paid" => pixAt[a] = "paid"
      /\ ans = "rejected" => pixAt[a] = "rejected"
      /\ pixAt[a] # "none"
  BY DEF Webhook, Seen
<1>4. settle' = [settle EXCEPT ![a] = r]
  BY DEF Applied, Webhook, ApplyProviderEvent, MarkIf, Put
<1>5. /\ r \in SettlementRow /\ r.runs = s.runs
      /\ ans = "pending" \/ s.st \notin Open => r.st = s.st /\ r.out = s.out
      /\ ans = "paid" /\ s.st \in Open => r.st = "CONFIRMED" /\ r.out = "confirmed"
      /\ ans = "rejected" /\ s.st \in Open => r.st = "REJECTED" /\ r.out = "rejected"
  BY <1>2, EventRow
<1> HIDE DEF r
<1>6. /\ s.out = "rejected" => s.st = "REJECTED"
      /\ s.st = "CONFIRMED" => pixAt[a] = "paid"
      /\ s.st = "REJECTED" => pixAt[a] = "rejected"
      /\ puts[a] # 0
  BY <1>2, <1>3 DEF RowSound
<1>7. announced' \subseteq Auths BY <1>1 DEF TapInv, TapTypeOK
<1>8. CASE ans = "pending" \/ s.st \notin Open
  <2>1. r.st = s.st /\ r.out = s.out BY <1>5, <1>8
  <2> QED BY <1>1, <1>4, <1>5, <1>6, <1>7, <2>1, RowStepKeeps
<1>9. CASE ans = "paid" /\ s.st \in Open
  <2>1. r.st = "CONFIRMED" /\ r.out = "confirmed" /\ pixAt[a] = "paid" BY <1>3, <1>5, <1>9
  <2> QED BY <1>1, <1>4, <1>5, <1>6, <1>7, <1>9, <2>1, RowStepKeeps DEF Open, Final
<1>10. CASE ans = "rejected" /\ s.st \in Open
  <2>1. r.st = "REJECTED" /\ r.out = "rejected" /\ pixAt[a] = "rejected"
    BY <1>3, <1>5, <1>10
  <2> QED BY <1>1, <1>4, <1>5, <1>6, <1>7, <1>10, <2>1, RowStepKeeps DEF Open, Final
<1> QED BY <1>8, <1>9, <1>10 DEF Seen

LEMMA ManualKeeps ==
    ASSUME TapInv, NEW w \in Goroutines, NEW a \in Auths, ManualRequired(w, a)
    PROVE  TapInv'
<1> DEFINE s == settle[a]
           r == IF s.st \in {"PENDING", "RETRYABLE"}
                THEN [s EXCEPT !.st = "MANUAL_REQUIRED"] ELSE s
<1>1. UNCHANGED <<hold, job, pix>> BY DEF ManualRequired
<1>2. s \in SettlementRow /\ RowSound(a) BY DEF TapInv, TapTypeOK
<1>3. settle' = [settle EXCEPT ![a] = r] BY DEF ManualRequired, MarkIf, Put
<1>4. /\ r \in SettlementRow /\ r.runs = s.runs /\ r.out = s.out
      /\ s.st \in {"PENDING", "RETRYABLE"} => r.st = "MANUAL_REQUIRED"
      /\ s.st \notin {"PENDING", "RETRYABLE"} => r.st = s.st
  BY <1>2 DEF SettlementRow, SettlementStatus
<1> HIDE DEF r
<1>5. /\ s.out = "rejected" => s.st = "REJECTED"
      /\ s.st = "CONFIRMED" => pixAt[a] = "paid"
      /\ s.st = "REJECTED" => pixAt[a] = "rejected"
  BY <1>2 DEF RowSound
<1>6. announced' \subseteq Auths BY DEF ManualRequired, TapInv, TapTypeOK
<1> QED BY <1>1, <1>3, <1>4, <1>5, <1>6, RowStepKeeps DEF Open, Final

LEMMA ProcessKeeps ==
    ASSUME TapInv, NEW w \in Goroutines, NEW a \in Auths, ProcessOne(w, a)
    PROVE  TapInv'
<1> DEFINE s == settle[a]
           r == [s EXCEPT !.st = IF @ \in {"PENDING", "RETRYABLE"} THEN "PROCESSING" ELSE @]
           at == IF a \in NoPixKey THEN "review" ELSE IF MustReconcile(r) THEN "get"
                 ELSE IF r.runs >= MaxRuns THEN "review" ELSE "mark"
           j == [Free EXCEPT !.a = a, !.at = at]
<1>1. /\ job[w] = Free /\ Claimable(a) /\ UNCHANGED <<hold, pix>>
      /\ settle' = [settle EXCEPT ![a] = r] /\ job' = [job EXCEPT ![w] = j]
      /\ announced' = announced \ {a}
  BY DEF ProcessOne, Put
<1>2. /\ s \in SettlementRow /\ RowSound(a) /\ puts[a] \in Nat
      /\ s.runs \in Nat /\ a # NoAuth
  <2>1. s \in SettlementRow /\ RowSound(a) /\ puts[a] \in Nat BY DEF TapInv, TapTypeOK
  <2>2. s.runs \in 0..MaxRuns + 1 BY <2>1 DEF SettlementRow
  <2> QED BY <2>1, <2>2, TapAssumption
<1>3. s.st \in {"PENDING"} \cup Open BY <1>1 DEF Claimable, Open
<1>4. /\ r \in SettlementRow /\ r.out = s.out /\ r.runs = s.runs /\ r.st \in Open
      /\ r.st = "PROCESSING" \/ (r.st = s.st /\ s.st \in {"SUBMITTED", "SUBMISSION_UNKNOWN"})
  BY <1>2, <1>3 DEF SettlementRow, SettlementStatus, Open
<1>5. at \in {"review", "get", "mark"} OBVIOUS
<1>6. /\ at = "mark" => ~MustReconcile(r) /\ r.runs < MaxRuns
      /\ at = "get" => MustReconcile(r)
  BY <1>2, <1>4, TapAssumption
<1> HIDE DEF at
<1>7. j \in Job /\ j.a = a /\ j.at = at /\ j.ans = "none"
  BY <1>5 DEF Job, Free
<1> HIDE DEF r, j
<1>8. r.out \in SubmissionStates \ {"rejected"}
  BY <1>2, <1>3, <1>4 DEF SettlementRow, RowSound, Open
<1>9. s.out = "not_submitted" => r.st = "PROCESSING" /\ \A v \in Goroutines : job[v].a # a
  <2>1. s.out = "not_submitted" => s.st \notin {"SUBMITTED", "SUBMISSION_UNKNOWN"}
    BY <1>2 DEF RowSound
  <2>2. ASSUME s.out = "not_submitted", NEW v \in Goroutines, job[v].a = a PROVE FALSE
    <3>1. s.st = "PROCESSING" BY <1>2, <2>2 DEF TapInv, JobSound
    <3> QED BY <1>1, <2>2, <3>1 DEF Claimable, Open
  <2> QED BY <1>4, <2>1, <2>2
<1>10. r.out = "not_submitted" => at \in {"mark", "review"}
  BY <1>4, <1>5, <1>6, <1>9 DEF MustReconcile
<1>11. at = "mark" => r.out = "not_submitted" /\ r.st = "PROCESSING"
  BY <1>4, <1>6, <1>8 DEF MustReconcile, SubmissionStates
<1>12. settle'[a] = r /\ job'[w] = j /\ \A v \in Goroutines : v # w => job'[v] = job[v]
  BY <1>1, <1>2 DEF TapInv, TapTypeOK
<1>13. r.out = "not_submitted" => Alone(w)' BY <1>4, <1>7, <1>9, <1>12 DEF Alone
<1>14. JobSound(w)'
  <2>1. Paying(w)' => at = "mark" BY <1>5, <1>7, <1>12 DEF Paying
  <2>2. r.st # "none" BY <1>4 DEF Open
  <2>3. r.out = "not_submitted" =>
          at \in {"mark", "review"} /\ r.st = "PROCESSING" /\ Alone(w)'
    BY <1>4, <1>9, <1>10, <1>13
  <2>4. Paying(w)' => /\ Alone(w)' /\ r.st \in {"PROCESSING"} \cup Final
                      /\ r.st = "PROCESSING" => r.runs < MaxRuns
    BY <1>6, <1>11, <1>13, <2>1
  <2> QED BY <1>2, <1>5, <1>7, <1>11, <1>12, <2>2, <2>3, <2>4 DEF JobSound
<1>15. RowSound(a)' BY <1>1, <1>2, <1>3, <1>4, <1>8, <1>12, TapAssumption DEF RowSound, pix, Open
<1>16. announced' \subseteq Auths BY <1>1 DEF TapInv, TapTypeOK
<1>17. job[w].a = NoAuth BY <1>1 DEF Free
<1>18. s.st # "none" /\ r.st # "none" BY <1>3, <1>4 DEF Open
<1> QED BY <1>1, <1>2, <1>4, <1>7, <1>14, <1>15, <1>16, <1>17, <1>18, JobStepKeeps

LEMMA TapNextInv == TapInv /\ [TapNext]_tapvars => TapInv'
<1> SUFFICES ASSUME TapInv, [TapNext]_tapvars PROVE TapInv' OBVIOUS
<1>1. CASE UNCHANGED tapvars
  <2>1. \A v \in Goroutines : Alone(v)' <=> Alone(v) BY <1>1 DEF tapvars, Alone
  <2>2. \A v \in Goroutines : JobSound(v)' BY <1>1, <2>1 DEF tapvars, TapInv, JobSound, Paying
  <2>3. \A b \in Auths : RowSound(b)' BY <1>1 DEF tapvars, TapInv, RowSound
  <2>4. TapTypeOK' BY <1>1 DEF tapvars, TapInv, TapTypeOK
  <2>5. HoldsAddUp' BY <1>1, HoldsKeep DEF tapvars, TapInv, hold
  <2> QED BY <2>2, <2>3, <2>4, <2>5 DEF TapInv
<1>2. ASSUME NEW a \in Auths, PutArrives(a) PROVE TapInv'
  <2> DEFINE s == IF pixAt[a] = "none" THEN "accepted" ELSE pixAt[a]
  <2>1. /\ a \in onWire /\ onWire' \subseteq onWire
        /\ UNCHANGED <<hold, settle, announced, job, puts>>
    BY <1>2 DEF PutArrives
  <2>2. pixAt' = [pixAt EXCEPT ![a] = s] BY <1>2 DEF PutArrives, TapInv, TapTypeOK
  <2>3. s \in {"none", "accepted", "paid", "rejected"} BY DEF TapInv, TapTypeOK
  <2> QED BY <2>1, <2>2, <2>3, EfiKeeps
<1>3. ASSUME NEW a \in Auths, PixSettles(a) PROVE TapInv'
  <2>1. PICK s \in {"paid", "rejected"} : pixAt' = [pixAt EXCEPT ![a] = s]
    BY <1>3 DEF PixSettles
  <2>2. /\ pixAt[a] = "accepted" /\ UNCHANGED <<hold, settle, announced, job, puts, onWire>>
    BY <1>3 DEF PixSettles
  <2> QED BY <2>1, <2>2, EfiKeeps
<1>4. CASE TapNext
  <2>1. ASSUME NEW a \in Auths,
               \/ Authorize(a) \/ HoldEnds(a) \/ Reverse(a) \/ Capture(a)
               \/ PutArrives(a) \/ PixSettles(a) \/ \E s \in Seen : Webhook(a, s)
        PROVE  TapInv'
    BY <1>2, <1>3, <2>1, AuthorizeKeeps, HoldEndsKeeps, ReverseKeeps, CaptureKeeps, WebhookKeeps
  <2>2. ASSUME NEW w \in Goroutines,
               \/ \E a \in Auths : ManualRequired(w, a) \/ ProcessOne(w, a)
               \/ Review(w) \/ MarkSubmitStarted(w) \/ CallEfi(w) \/ ApplyEfiAnswer(w)
               \/ ApplyReported(w) \/ GoroutineStops(w)
        PROVE  TapInv'
    BY <2>2, ManualKeeps, ProcessKeeps, ReviewKeeps, MarkKeeps, CallEfiKeeps, ApplyAnswerKeeps,
       ApplyReportedKeeps, GoroutineStopKeeps
  <2> QED BY <1>4, <2>1, <2>2, ExpireKeeps DEF TapNext
<1> QED BY <1>1, <1>4

LEMMA TapInvEnough == TapInv => TapBooksAreTrue
<1> SUFFICES ASSUME TapInv PROVE TapBooksAreTrue OBVIOUS
<1>1. SettlesOnce
  BY DEF TapInv, RowSound, SettlesOnce, OnePutPerSettlement, SettledAsEfiDid
<1> QED BY <1>1 DEF TapInv, TapBooksAreTrue

(* ChainFX Tap, for any authorizations, balances and goroutines: what the  *)
(* wallet has, what is locked and what was captured always add up, money   *)
(* goes to merchants for captured authorizations only, one PUT is sent per *)
(* settlement whatever times out, stops or is claimed again, and what is   *)
(* confirmed or rejected is what Efi did (TapBooksAreTrue).                *)
THEOREM TapsArePaidOnce == TapSpec => []TapBooksAreTrue
<1>1. TapInit => TapInv BY TapInitInv
<1>2. TapInv /\ [TapNext]_tapvars => TapInv' BY TapNextInv
<1>3. TapInv => TapBooksAreTrue BY TapInvEnough
<1> QED BY <1>1, <1>2, <1>3, PTL DEF TapSpec

-----------------------------------------------------------------------------
(* Recurring buys.  What is locked is what the windows in reserve hold;    *)
(* a reserve never changes once it is set, so what a goroutine would give  *)
(* back is what its window reserved, whoever reserved it.                  *)

(* The units of money that the windows in S stand for, r[x] for x.         *)
UnitsBy(r, S) == UNION {{x} \X (1..r[x]) : x \in S}
Reserved == [x \in Windows |-> row[x].reserved]

DcaRows ==
    /\ strategy \in {"active", "paused", "cancelled"} /\ row \in [Windows -> Execution]
    /\ waiting \subseteq Windows /\ age \in [Windows -> {"none", "young", "old"}] /\ sent \subseteq Windows
    /\ cycle \in [Executors -> CycleTask]
    /\ bought \in [Windows -> {"none", "pago_fiat", "sent", "failed"}]

DcaBooks ==
    /\ usable \in Nat /\ onHold \in Nat
    /\ onHold = Cardinality(UnitsBy(Reserved, InReserve))
    /\ usable + onHold + Cardinality(UnitsBy(Reserved, Captured)) = Budget
    /\ total = Cardinality(Captured)

WindowSound(x) ==
    /\ row[x].reserved <= Budget
    /\ row[x].captured <=> row[x].st = "completed"
    /\ row[x].captured => bought[x] = "sent" /\ row[x].reserved > 0 /\ ~row[x].released
    /\ x \in sent => bought[x] = "sent"

(* What a goroutine would give back is what its window reserved.           *)
CycleSound(w) ==
    cycle[w].at # "idle" =>
      /\ cycle[w].x \in Windows
      /\ cycle[w].at \in {"create", "release"} =>
            cycle[w].held > 0 /\ cycle[w].held = row[cycle[w].x].reserved

DcaInv == /\ DcaRows /\ DcaBooks
          /\ \A x \in Windows : WindowSound(x)
          /\ \A w \in Executors : CycleSound(w)

-----------------------------------------------------------------------------
(* Units of several windows.                                               *)
LEMMA UnitsFinite ==
  ASSUME NEW r, \A y \in Windows : r[y] \in Nat /\ r[y] <= Budget, NEW S \in SUBSET Windows
  PROVE  IsFiniteSet(UnitsBy(r, S)) /\ Cardinality(UnitsBy(r, S)) \in Nat
<1>1. UnitsBy(r, S) \subseteq Windows \X (1..Budget)
  <2>1. ASSUME NEW y \in S PROVE {y} \X (1..r[y]) \subseteq Windows \X (1..Budget)
    BY DcaAssumption
  <2> QED BY <2>1 DEF UnitsBy
<1>2. IsFiniteSet(Windows \X (1..Budget))
  <2>1. 1 \in Int /\ Budget \in Int
    BY DcaAssumption
  <2>2. IsFiniteSet(1..Budget)
    BY <2>1, FS_Interval
  <2> QED BY <2>2, DcaAssumption, FS_Product
<1> QED BY <1>1, <1>2, FS_Subset, FS_CardinalityType

LEMMA OneWindowMore ==
  ASSUME NEW r, \A y \in Windows : r[y] \in Nat /\ r[y] <= Budget,
         NEW S \in SUBSET Windows, NEW x \in Windows \ S
  PROVE  Cardinality(UnitsBy(r, S \cup {x})) = Cardinality(UnitsBy(r, S)) + r[x]
<1> DEFINE U == UnitsBy(r, S)
           V == {x} \X (1..r[x])
<1>1. UnitsBy(r, S \cup {x}) = U \cup V
  BY DEF UnitsBy
<1>2. U \cap V = {}
  BY DEF UnitsBy
<1>3. IsFiniteSet(U) /\ Cardinality(U) \in Nat
  BY UnitsFinite
<1>4. IsFiniteSet(1..r[x]) /\ Cardinality(1..r[x]) = r[x]
  <2> DEFINE top == r[x]
  <2>1. 1 \in Int /\ top \in Int /\ top \in Nat
    OBVIOUS
  <2> HIDE DEF top
  <2>2. IsFiniteSet(1..top) /\ Cardinality(1..top) = IF 1 > top THEN 0 ELSE top - 1 + 1
    BY <2>1, FS_Interval
  <2>3. IsFiniteSet(1..top) /\ Cardinality(1..top) = top
    BY <2>1, <2>2
  <2> QED BY <2>3 DEF top
<1>5. IsFiniteSet(V) /\ Cardinality(V) = r[x]
  <2>1. IsFiniteSet({x}) /\ Cardinality({x}) = 1
    BY FS_Singleton
  <2>2. IsFiniteSet(V) /\ Cardinality(V) = 1 * Cardinality(1..r[x])
    BY <1>4, <2>1, FS_Product
  <2> QED BY <1>4, <2>2
<1>6. Cardinality(U \cup V) = Cardinality(U) + Cardinality(V) - Cardinality(U \cap V)
  BY <1>3, <1>5, FS_Union
<1>7. Cardinality(U \cap V) = 0
  BY <1>2, FS_EmptySet
<1> HIDE DEF U, V
<1>8. Cardinality(U \cup V) = Cardinality(U) + r[x]
  BY <1>3, <1>5, <1>6, <1>7
<1> QED BY <1>1, <1>8 DEF U

LEMMA SameUnits ==
  ASSUME NEW r, NEW q, NEW S, \A y \in S : r[y] = q[y]
  PROVE  UnitsBy(r, S) = UnitsBy(q, S)
BY DEF UnitsBy

LEMMA DcaInvEnough == DcaInv => DcaBooksAreTrue
<1> SUFFICES ASSUME DcaInv PROVE DcaBooksAreTrue
  OBVIOUS
<1>0. DcaRows /\ DcaBooks /\ \A x \in Windows : WindowSound(x)
  BY DEF DcaInv
<1>1. Units(InReserve) = UnitsBy(Reserved, InReserve) /\ Units(Captured) = UnitsBy(Reserved, Captured)
  BY DEF Units, UnitsBy, Reserved, InReserve, Captured
<1>2. \A y \in Windows : Reserved[y] \in Nat /\ Reserved[y] <= Budget
  <2> SUFFICES ASSUME NEW y \in Windows PROVE Reserved[y] \in Nat /\ Reserved[y] <= Budget
    OBVIOUS
  <2>1. row[y].reserved \in Prices \cup {0}
    BY <1>0 DEF DcaRows, Execution
  <2>2. Prices \cup {0} \subseteq Nat
    BY DcaAssumption
  <2>3. row[y].reserved \in Nat
    BY <2>1, <2>2
  <2> QED BY <1>0, <2>3 DEF Reserved, WindowSound
<1>3. Cardinality(UnitsBy(Reserved, Captured)) \in Nat
  BY <1>2, UnitsFinite DEF Captured
<1>4. ReservesAddUp
  BY <1>0, <1>1 DEF ReservesAddUp, DcaBooks, WindowSound
<1>5. Cardinality(Captured) \in 0..Cardinality(Windows)
  <2>1. Captured \subseteq Windows
    BY DEF Captured
  <2>2. Cardinality(Captured) \in Nat /\ Cardinality(Captured) <= Cardinality(Windows)
        /\ Cardinality(Windows) \in Nat
    BY <2>1, DcaAssumption, FS_Subset, FS_CardinalityType
  <2> QED BY <2>2
<1>6. usable \in 0..Budget /\ onHold \in 0..Budget
  <2> DEFINE c == Cardinality(UnitsBy(Reserved, Captured))
  <2>1. c \in Nat /\ usable \in Nat /\ onHold \in Nat /\ usable + onHold + c = Budget
    BY <1>0, <1>3 DEF DcaBooks
  <2> HIDE DEF c
  <2> QED BY <2>1, DcaAssumption
<1>7. DcaTypeOK
  BY <1>0, <1>5, <1>6 DEF DcaTypeOK, DcaRows, DcaBooks
<1>8. TotalsAreDelivered
  BY <1>0 DEF TotalsAreDelivered, DcaBooks, WindowSound, Captured
<1> QED BY <1>4, <1>7, <1>8 DEF DcaBooksAreTrue

LEMMA DcaInitInv == DcaInit => DcaInv
<1> SUFFICES ASSUME DcaInit PROVE DcaInv
  OBVIOUS
<1>1. NoExecution \in Execution /\ IdleCycle \in CycleTask
  BY DEF NoExecution, Execution, IdleCycle, CycleTask
<1>2. DcaRows
  BY <1>1 DEF DcaInit, DcaRows
<1>3. InReserve = {} /\ Captured = {}
  BY DEF DcaInit, InReserve, Captured, NoExecution
<1>4. UnitsBy(Reserved, {}) = {}
  BY DEF UnitsBy
<1>5. DcaBooks
  BY <1>3, <1>4, FS_EmptySet, DcaAssumption DEF DcaBooks, DcaInit
<1>6. \A x \in Windows : WindowSound(x)
  BY DcaAssumption DEF DcaInit, WindowSound, NoExecution
<1>7. \A w \in Executors : CycleSound(w)
  BY DEF DcaInit, CycleSound, IdleCycle
<1> QED BY <1>2, <1>5, <1>6, <1>7 DEF DcaInv

-----------------------------------------------------------------------------
(* Steps that move no money.                                               *)
SameFunding == \A x \in Windows : /\ row'[x].reserved = row[x].reserved
                                  /\ row'[x].captured = row[x].captured
                                  /\ row'[x].released = row[x].released

LEMMA DcaBooksStay ==
  ASSUME DcaInv, SameFunding, usable' = usable, onHold' = onHold, total' = total
  PROVE  DcaBooks'
<1>1. InReserve' = InReserve /\ Captured' = Captured /\ Reserved' = Reserved
  BY DEF SameFunding, InReserve, Captured, Reserved
<1>2. DcaBooks
  BY DEF DcaInv
<1> QED BY <1>1, <1>2 DEF DcaBooks

LEMMA PlainStepKeeps ==
  ASSUME DcaInv, DcaRows', SameFunding, UNCHANGED wallet, total' = total,
         \A x \in Windows : /\ row'[x].st = "completed" <=> row[x].st = "completed"
                            /\ bought[x] = "sent" => bought'[x] = "sent"
                            /\ x \in sent' => bought'[x] = "sent",
         \A w \in Executors : CycleSound(w)'
  PROVE  DcaInv'
<1>1. DcaBooks'
  BY DcaBooksStay DEF wallet
<1>2. \A x \in Windows : WindowSound(x)'
  BY DEF DcaInv, WindowSound, SameFunding
<1> QED BY <1>1, <1>2 DEF DcaInv

LEMMA CyclesKeep ==
  ASSUME DcaInv, NEW w \in Executors, NEW t, cycle' = [cycle EXCEPT ![w] = t],
         \A x \in Windows : row'[x].reserved = row[x].reserved,
         t.at # "idle" => t.x \in Windows,
         t.at \in {"create", "release"} => t.held > 0 /\ t.held = row'[t.x].reserved
  PROVE  \A v \in Executors : CycleSound(v)'
<1>1. cycle \in [Executors -> CycleTask] /\ \A v \in Executors : CycleSound(v)
  BY DEF DcaInv, DcaRows
<1>2. ASSUME NEW v \in Executors PROVE CycleSound(v)'
  <2>1. CASE v = w
    BY <1>1, <2>1 DEF CycleSound
  <2>2. CASE v # w
    BY <1>1, <2>2 DEF CycleSound
  <2> QED BY <2>1, <2>2
<1> QED BY <1>2

(* A goroutine that rests, starts on a window or goes on with it.          *)
LEMMA Resting == IdleCycle \in CycleTask /\ IdleCycle.at = "idle"
BY DEF IdleCycle, CycleTask

LEMMA Starting ==
  ASSUME NEW x \in Windows
  PROVE  \E t \in CycleTask : /\ t = [IdleCycle EXCEPT !.at = "begin", !.x = x]
                              /\ t.at = "begin" /\ t.x = x
<1> DEFINE t == [IdleCycle EXCEPT !.at = "begin", !.x = x]
<1>1. t \in CycleTask /\ t.at = "begin" /\ t.x = x
  BY DEF IdleCycle, CycleTask
<1> QED BY <1>1

LEMMA GoingTo ==
  ASSUME DcaInv, NEW w \in Executors, cycle[w].at # "idle",
         NEW s \in {"reserve", "create", "link", "release", "fail"}, Goto(w, s)
  PROVE  \E t \in CycleTask : /\ cycle' = [cycle EXCEPT ![w] = t] /\ t.at = s
                              /\ t.x = cycle[w].x /\ t.held = cycle[w].held /\ t.x \in Windows
<1> DEFINE t == [cycle[w] EXCEPT !.at = s]
<1>1. cycle[w] \in CycleTask /\ cycle[w].x \in Windows
  BY DEF DcaInv, DcaRows, CycleSound
<1>2. t \in CycleTask /\ t.at = s /\ t.x = cycle[w].x /\ t.held = cycle[w].held
  BY <1>1 DEF CycleTask
<1>3. cycle' = [cycle EXCEPT ![w] = t]
  BY DEF Goto, DcaInv, DcaRows
<1> HIDE DEF t
<1> QED BY <1>1, <1>2, <1>3

LEMMA OutsideDcaKeeps ==
  ASSUME DcaInv,
         \/ \E s \in {"active", "paused", "cancelled"} : UpdateDCA(s)
         \/ \E x \in Windows : AttemptDue(x) \/ ProcessingAges(x) \/ OrderEnds(x)
  PROVE  DcaInv'
<1>0. DcaRows /\ (\A x \in Windows : WindowSound(x)) /\ \A w \in Executors : CycleSound(w)
  BY DEF DcaInv
<1>1. UNCHANGED <<row, wallet, total, cycle>>
  BY DEF UpdateDCA, AttemptDue, ProcessingAges, OrderEnds
<1>2. DcaRows'
  <2>1. CASE \E s \in {"active", "paused", "cancelled"} : UpdateDCA(s)
    BY <1>0, <2>1 DEF UpdateDCA, DcaRows
  <2>2. ASSUME NEW x \in Windows, AttemptDue(x) PROVE DcaRows'
    <3>1. Grown(age[x]) \in {"none", "young", "old"}
      BY <1>0 DEF Grown, DcaRows
    <3> QED BY <1>0, <2>2, <3>1 DEF AttemptDue, DcaRows
  <2>3. ASSUME NEW x \in Windows, ProcessingAges(x) PROVE DcaRows'
    BY <1>0, <2>3 DEF ProcessingAges, DcaRows
  <2>4. CASE \E x \in Windows : OrderEnds(x)
    BY <1>0, <2>4 DEF OrderEnds, DcaRows
  <2> QED BY <2>1, <2>2, <2>3, <2>4
<1>3. \A x \in Windows : /\ bought[x] = "sent" => bought'[x] = "sent"
                         /\ x \in sent' => bought'[x] = "sent"
  BY <1>0 DEF UpdateDCA, AttemptDue, ProcessingAges, OrderEnds, DcaRows, WindowSound
<1>4. \A w \in Executors : CycleSound(w)'
  BY <1>0, <1>1 DEF CycleSound
<1>5. SameFunding
  BY <1>1 DEF SameFunding
<1> QED BY <1>1, <1>2, <1>3, <1>4, <1>5, PlainStepKeeps

AgeTyped == age \in [Windows -> {"none", "young", "old"}]

(* A step of a goroutine that changes at most the state of its window.     *)
LEMMA StateStepKeeps ==
  ASSUME DcaInv, NEW w \in Executors, NEW t \in CycleTask, cycle' = [cycle EXCEPT ![w] = t],
         UNCHANGED <<strategy, wallet, total, sent>>, AgeTyped', waiting' \subseteq waiting \cup Windows,
         row' \in [Windows -> Execution], SameFunding,
         \A x \in Windows : row'[x].st = "completed" <=> row[x].st = "completed",
         bought' \in [Windows -> {"none", "pago_fiat", "sent", "failed"}],
         \A x \in Windows : bought[x] = "sent" => bought'[x] = "sent",
         t.at # "idle" => t.x \in Windows,
         t.at \in {"create", "release"} =>
            cycle[w].at \in {"create", "release"} /\ t.x = cycle[w].x /\ t.held = cycle[w].held
  PROVE  DcaInv'
<1>0. DcaRows /\ (\A x \in Windows : WindowSound(x)) /\ \A v \in Executors : CycleSound(v)
  BY DEF DcaInv
<1>1. \A v \in Executors : CycleSound(v)'
  <2>1. t.at \in {"create", "release"} => t.held > 0 /\ t.held = row'[t.x].reserved
    BY <1>0 DEF CycleSound, SameFunding
  <2> QED BY <2>1, CyclesKeep DEF SameFunding
<1>2. DcaRows'
  BY <1>0 DEF DcaRows, AgeTyped
<1>3. \A x \in Windows : x \in sent' => bought'[x] = "sent"
  BY <1>0 DEF WindowSound
<1> QED BY <1>1, <1>2, <1>3, PlainStepKeeps

LEMMA RowTo ==
  ASSUME DcaInv, NEW x \in Windows,
         NEW s \in {"claimed", "processing", "retry_wait", "submitted", "provider_unknown",
                    "skipped_paused"},
         row[x].st # "completed",
         \/ row' = [row EXCEPT ![x].st = s]
         \/ row' = [row EXCEPT ![x] = [row[x] EXCEPT !.st = s, !.linked = TRUE]]
         \/ row' = [row EXCEPT ![x] = [row[x] EXCEPT !.st = s, !.linked = TRUE, !.submitted = TRUE]]
  PROVE  /\ row' \in [Windows -> Execution] /\ SameFunding
         /\ \A y \in Windows : row'[y].st = "completed" <=> row[y].st = "completed"
<1>1. row \in [Windows -> Execution] /\ row[x] \in Execution
  BY DEF DcaInv, DcaRows
<1>2. CASE row' = [row EXCEPT ![x].st = s]
  BY <1>1, <1>2 DEF Execution, SameFunding
<1>3. CASE row' = [row EXCEPT ![x] = [row[x] EXCEPT !.st = s, !.linked = TRUE]]
  <2> DEFINE e == [row[x] EXCEPT !.st = s, !.linked = TRUE]
  <2>1. e \in Execution /\ e.st = s /\ e.reserved = row[x].reserved
        /\ e.captured = row[x].captured /\ e.released = row[x].released
    BY <1>1 DEF Execution
  <2> HIDE DEF e
  <2>2. row' = [row EXCEPT ![x] = e]
    BY <1>3 DEF e
  <2> QED BY <1>1, <2>1, <2>2 DEF SameFunding
<1>4. CASE row' = [row EXCEPT ![x] = [row[x] EXCEPT !.st = s, !.linked = TRUE, !.submitted = TRUE]]
  <2> DEFINE e == [row[x] EXCEPT !.st = s, !.linked = TRUE, !.submitted = TRUE]
  <2>1. e \in Execution /\ e.st = s /\ e.reserved = row[x].reserved
        /\ e.captured = row[x].captured /\ e.released = row[x].released
    BY <1>1 DEF Execution
  <2> HIDE DEF e
  <2>2. row' = [row EXCEPT ![x] = e]
    BY <1>4 DEF e
  <2> QED BY <1>1, <2>1, <2>2 DEF SameFunding
<1> QED BY <1>2, <1>3, <1>4

LEMMA RowStays ==
  ASSUME DcaInv, row' = row
  PROVE  /\ row' \in [Windows -> Execution] /\ SameFunding
         /\ \A y \in Windows : row'[y].st = "completed" <=> row[y].st = "completed"
BY DEF DcaInv, DcaRows, SameFunding

LEMMA GoroutineStepsKeep ==
  ASSUME DcaInv, NEW w \in Executors,
         \/ \E x \in Windows : ClaimDue(w, x) \/ ClaimRecoverable(w, x)
         \/ TransitionExecutionProcessing(w) \/ CreatePaidBuyOrder(w) \/ Link(w)
         \/ MarkExecutionFailed(w) \/ ExecutorStops(w)
  PROVE  DcaInv'
<1>0. DcaRows /\ \A v \in Executors : CycleSound(v)
  BY DEF DcaInv
<1>b. bought \in [Windows -> {"none", "pago_fiat", "sent", "failed"}] /\ AgeTyped
  BY <1>0 DEF DcaRows, AgeTyped
<1>c. UNCHANGED age => AgeTyped'
  BY <1>b DEF AgeTyped
<1>1. ASSUME NEW x \in Windows, ClaimDue(w, x) PROVE DcaInv'
  <2>1. PICK t \in CycleTask : cycle' = [cycle EXCEPT ![w] = t] /\ t.at = "begin" /\ t.x = x
    BY <1>1, Starting DEF ClaimDue
  <2>2. /\ row' \in [Windows -> Execution] /\ SameFunding
        /\ \A y \in Windows : row'[y].st = "completed" <=> row[y].st = "completed"
    BY <1>1, RowTo DEF ClaimDue
  <2>3. UNCHANGED <<strategy, age, wallet, total, sent, waiting, bought>>
    BY <1>1 DEF ClaimDue
  <2> QED BY <1>b, <1>c, <2>1, <2>2, <2>3, StateStepKeeps
<1>2. ASSUME NEW x \in Windows, ClaimRecoverable(w, x) PROVE DcaInv'
  <2>1. PICK t \in CycleTask : cycle' = [cycle EXCEPT ![w] = t] /\ t.at = "begin" /\ t.x = x
    BY <1>2, Starting DEF ClaimRecoverable
  <2>2. /\ row' \in [Windows -> Execution] /\ SameFunding
        /\ \A y \in Windows : row'[y].st = "completed" <=> row[y].st = "completed"
    BY <1>2, RowStays DEF ClaimRecoverable
  <2>3. UNCHANGED <<strategy, age, wallet, total, sent, waiting, bought>>
    BY <1>2 DEF ClaimRecoverable
  <2> QED BY <1>b, <1>c, <2>1, <2>2, <2>3, StateStepKeeps
<1>3. CASE TransitionExecutionProcessing(w)
  <2>0. PICK x \in Windows : x = cycle[w].x /\ cycle[w].at = "begin"
    BY <1>0, <1>3 DEF TransitionExecutionProcessing, CycleSound
  <2>1. PICK t \in CycleTask : /\ cycle' = [cycle EXCEPT ![w] = t] /\ t.at \in {"idle", "reserve", "fail"}
                               /\ t.at # "idle" => t.x \in Windows
    <3>1. CASE Rest(w)
      BY <3>1, Resting DEF Rest
    <3>2. CASE Goto(w, "reserve")
      BY <2>0, <3>2, GoingTo
    <3>3. CASE Goto(w, "fail")
      BY <2>0, <3>3, GoingTo
    <3> QED BY <1>3, <3>1, <3>2, <3>3 DEF TransitionExecutionProcessing
  <2>2. /\ row' \in [Windows -> Execution] /\ SameFunding
        /\ \A y \in Windows : row'[y].st = "completed" <=> row[y].st = "completed"
    <3>1. \/ row' = row
          \/ row[x].st # "completed" /\ row' = [row EXCEPT ![x].st = "processing"]
          \/ row[x].st # "completed" /\ row' = [row EXCEPT ![x].st = "skipped_paused"]
      BY <1>3, <2>0 DEF TransitionExecutionProcessing
    <3> QED BY <3>1, RowTo, RowStays
  <2>3. UNCHANGED <<strategy, wallet, total, sent, waiting, bought>>
    BY <1>3 DEF TransitionExecutionProcessing
  <2>4. AgeTyped'
    BY <1>3, <1>b, <2>0 DEF TransitionExecutionProcessing, AgeTyped
  <2> QED BY <1>b, <2>1, <2>2, <2>3, <2>4, StateStepKeeps
<1>4. CASE CreatePaidBuyOrder(w)
  <2>0. PICK x \in Windows : x = cycle[w].x /\ cycle[w].at = "create"
    BY <1>0, <1>4 DEF CreatePaidBuyOrder, CycleSound
  <2>1. PICK t \in CycleTask : /\ cycle' = [cycle EXCEPT ![w] = t] /\ t.at \in {"link", "release"}
                               /\ t.x = cycle[w].x /\ t.held = cycle[w].held /\ t.x \in Windows
    <3>1. CASE Goto(w, "link")
      BY <2>0, <3>1, GoingTo
    <3>2. CASE Goto(w, "release")
      BY <2>0, <3>2, GoingTo
    <3> QED BY <1>4, <3>1, <3>2 DEF CreatePaidBuyOrder
  <2>2. UNCHANGED <<strategy, age, wallet, total, sent, waiting, row>>
    BY <1>4 DEF CreatePaidBuyOrder
  <2>3. /\ row' \in [Windows -> Execution] /\ SameFunding
        /\ \A y \in Windows : row'[y].st = "completed" <=> row[y].st = "completed"
    BY <2>2, RowStays
  <2>4. /\ bought' \in [Windows -> {"none", "pago_fiat", "sent", "failed"}]
        /\ \A y \in Windows : bought[y] = "sent" => bought'[y] = "sent"
    BY <1>4, <1>b, <2>0 DEF CreatePaidBuyOrder
  <2> QED BY <1>b, <1>c, <2>0, <2>1, <2>2, <2>3, <2>4, StateStepKeeps
<1>5. CASE Link(w)
  <2>0. PICK x \in Windows : x = cycle[w].x /\ cycle[w].at = "link"
    BY <1>0, <1>5 DEF Link, CycleSound
  <2>1. PICK t \in CycleTask : /\ cycle' = [cycle EXCEPT ![w] = t] /\ t.at \in {"idle", "fail"}
                               /\ t.at # "idle" => t.x \in Windows
    <3>1. CASE Rest(w)
      BY <3>1, Resting DEF Rest
    <3>2. CASE Goto(w, "fail")
      BY <2>0, <3>2, GoingTo
    <3> QED BY <1>5, <3>1, <3>2 DEF Link
  <2>2. /\ row' \in [Windows -> Execution] /\ SameFunding
        /\ \A y \in Windows : row'[y].st = "completed" <=> row[y].st = "completed"
    <3>1. \/ row' = row
          \/ /\ row[x].st # "completed"
             /\ row' = [row EXCEPT ![x] = [row[x] EXCEPT !.st = "submitted", !.linked = TRUE,
                                                         !.submitted = TRUE]]
          \/ /\ row[x].st # "completed"
             /\ row' = [row EXCEPT ![x] = [row[x] EXCEPT !.st = "provider_unknown", !.linked = TRUE]]
      BY <1>5, <2>0 DEF Link, SubmittedRow, ParkedRow
    <3> QED BY <3>1, RowTo, RowStays
  <2>3. UNCHANGED <<strategy, age, wallet, total, sent, waiting, bought>>
    BY <1>5 DEF Link
  <2> QED BY <1>b, <1>c, <2>1, <2>2, <2>3, StateStepKeeps
<1>6. CASE MarkExecutionFailed(w)
  <2>0. PICK x \in Windows : x = cycle[w].x /\ cycle[w].at = "fail"
    BY <1>0, <1>6 DEF MarkExecutionFailed, CycleSound
  <2>1. cycle' = [cycle EXCEPT ![w] = IdleCycle]
    BY <1>6 DEF MarkExecutionFailed, Rest
  <2>2. /\ row' \in [Windows -> Execution] /\ SameFunding
        /\ \A y \in Windows : row'[y].st = "completed" <=> row[y].st = "completed"
    <3>1. \/ row' = row
          \/ row[x].st # "completed" /\ row' = [row EXCEPT ![x].st = "provider_unknown"]
          \/ row[x].st # "completed" /\ row' = [row EXCEPT ![x].st = "retry_wait"]
      BY <1>6, <2>0 DEF MarkExecutionFailed, Parkable
    <3> QED BY <3>1, RowTo, RowStays
  <2>3. UNCHANGED <<strategy, age, wallet, total, sent, bought>> /\ waiting' \subseteq waiting \cup Windows
    BY <1>6, <2>0 DEF MarkExecutionFailed
  <2> QED BY <1>b, <1>c, <2>1, <2>2, <2>3, Resting, StateStepKeeps
<1>7. CASE ExecutorStops(w)
  <2>1. cycle' = [cycle EXCEPT ![w] = IdleCycle]
    BY <1>7 DEF ExecutorStops, Rest
  <2>2. UNCHANGED <<strategy, age, wallet, total, sent, bought, waiting, row>>
    BY <1>7 DEF ExecutorStops
  <2> QED BY <1>b, <1>c, <2>1, <2>2, RowStays, Resting, StateStepKeeps
<1> QED BY <1>1, <1>2, <1>3, <1>4, <1>5, <1>6, <1>7

-----------------------------------------------------------------------------
(* Steps that move money.                                                  *)
LEMMA ReservedInRange ==
  ASSUME DcaInv
  PROVE  \A y \in Windows : /\ row[y] \in Execution /\ row[y].reserved \in Nat
                            /\ row[y].reserved <= Budget
                            /\ Reserved[y] = row[y].reserved
<1>0. DcaRows /\ \A x \in Windows : WindowSound(x)
  BY DEF DcaInv
<1> SUFFICES ASSUME NEW y \in Windows
             PROVE  /\ row[y] \in Execution /\ row[y].reserved \in Nat
                    /\ row[y].reserved <= Budget /\ Reserved[y] = row[y].reserved
  OBVIOUS
<1>1. row[y] \in Execution /\ row[y].reserved \in Prices \cup {0}
  BY <1>0 DEF DcaRows, Execution
<1>2. Prices \cup {0} \subseteq Nat
  BY DcaAssumption
<1> QED BY <1>0, <1>1, <1>2 DEF WindowSound, Reserved

LEMMA ReserveKeeps ==
  ASSUME DcaInv, NEW w \in Executors, ReserveDCAFunding(w)
  PROVE  DcaInv'
<1>0. DcaRows /\ DcaBooks /\ (\A x \in Windows : WindowSound(x)) /\ \A v \in Executors : CycleSound(v)
  BY DEF DcaInv
<1>b. bought \in [Windows -> {"none", "pago_fiat", "sent", "failed"}] /\ AgeTyped
  BY <1>0 DEF DcaRows, AgeTyped
<1>c. UNCHANGED age => AgeTyped'
  BY <1>b DEF AgeTyped
<1>1. PICK x \in Windows : x = cycle[w].x /\ cycle[w].at = "reserve"
  BY <1>0 DEF ReserveDCAFunding, CycleSound
<1>2. UNCHANGED <<strategy, age, total, sent, waiting, bought>>
  BY DEF ReserveDCAFunding
<1>3. CASE LookUpFails(w)
  <2>0. Goto(w, "fail") /\ UNCHANGED <<row, wallet>>
    BY <1>3 DEF LookUpFails
  <2>1. PICK t \in CycleTask : cycle' = [cycle EXCEPT ![w] = t] /\ t.at = "fail" /\ t.x \in Windows
    BY <1>1, <2>0, GoingTo
  <2> QED BY <1>b, <1>c, <1>2, <2>0, <2>1, RowStays, StateStepKeeps
<1>4. ASSUME NEW p \in Prices,
             ~row[x].captured, ~row[x].released, Reserves(row[x], p) \/ row[x].reserved = p,
             row' = [row EXCEPT ![x].reserved = p],
             \/ cycle' = [cycle EXCEPT ![w].at = "create", ![w].held = p]
             \/ Goto(w, "fail"),
             IF Reserves(row[x], p) THEN usable' = usable - p /\ onHold' = onHold + p
             ELSE UNCHANGED wallet
      PROVE  DcaInv'
  <2>1. p \in Nat /\ p > 0
    BY DcaAssumption
  <2>2. PICK t \in CycleTask : /\ cycle' = [cycle EXCEPT ![w] = t] /\ t.at \in {"create", "fail"}
                               /\ t.x = x
                               /\ t.at = "create" => t.held = p
    <3>1. CASE Goto(w, "fail")
      BY <1>1, <3>1, GoingTo
    <3>2. CASE cycle' = [cycle EXCEPT ![w].at = "create", ![w].held = p]
      <4> DEFINE t == [cycle[w] EXCEPT !.at = "create", !.held = p]
      <4>1. cycle[w] \in CycleTask
        BY <1>0 DEF DcaRows
      <4>2. t \in CycleTask /\ t.at = "create" /\ t.x = x /\ t.held = p
        BY <1>1, <4>1 DEF CycleTask
      <4>3. cycle' = [cycle EXCEPT ![w] = t]
        BY <1>0, <3>2 DEF DcaRows
      <4> HIDE DEF t
      <4> QED BY <4>2, <4>3
    <3> QED BY <1>4, <3>1, <3>2
  <2>3. /\ row' \in [Windows -> Execution]
        /\ row'[x].reserved = p /\ row'[x].captured = row[x].captured
        /\ row'[x].released = row[x].released /\ row'[x].st = row[x].st
        /\ \A y \in Windows \ {x} : row'[y] = row[y]
    <3> DEFINE e == [row[x] EXCEPT !.reserved = p]
    <3>1. row \in [Windows -> Execution] /\ row[x] \in Execution
      BY <1>0 DEF DcaRows
    <3>2. /\ e \in Execution /\ e.reserved = p /\ e.captured = row[x].captured
          /\ e.released = row[x].released /\ e.st = row[x].st
      BY <3>1 DEF Execution
    <3>3. row' = [row EXCEPT ![x] = e]
      BY <1>4
    <3> HIDE DEF e
    <3> QED BY <3>1, <3>2, <3>3
  <2>4. DcaRows'
    BY <1>0, <1>2, <2>2, <2>3 DEF DcaRows
  <2>5. CASE ~Reserves(row[x], p)
    <3>1. SameFunding /\ UNCHANGED wallet
      BY <1>4, <2>3, <2>5 DEF SameFunding
    <3>2. \A v \in Executors : CycleSound(v)'
      BY <2>2, <2>1, <2>3, <3>1, CyclesKeep DEF SameFunding
    <3>3. \A y \in Windows : /\ row'[y].st = "completed" <=> row[y].st = "completed"
                             /\ bought[y] = "sent" => bought'[y] = "sent"
                             /\ y \in sent' => bought'[y] = "sent"
      BY <1>0, <1>2, <2>3 DEF WindowSound
    <3> QED BY <1>2, <2>4, <3>1, <3>2, <3>3, PlainStepKeeps
  <2>6. CASE Reserves(row[x], p)
    <3>1. row[x].reserved = 0 /\ usable >= p /\ usable' = usable - p /\ onHold' = onHold + p
      BY <1>4, <2>6 DEF Reserves
    <3>2. /\ InReserve' = InReserve \cup {x} /\ x \in Windows \ InReserve
          /\ Captured' = Captured /\ x \notin Captured
      BY <1>4, <2>1, <2>3, <3>1 DEF InReserve, Captured
    <3>3. InReserve \in SUBSET Windows /\ Captured \in SUBSET Windows
      BY DEF InReserve, Captured
    <3>4. \A y \in Windows : Reserved[y] \in Nat /\ Reserved[y] <= Budget
      BY ReservedInRange
    <3>5. Cardinality(UnitsBy(Reserved, Captured)) \in Nat
          /\ Cardinality(UnitsBy(Reserved, InReserve)) \in Nat
      BY <3>3, <3>4, UnitsFinite
    <3>6. p <= Budget
      <4> DEFINE c == Cardinality(UnitsBy(Reserved, Captured))
      <4>1. c \in Nat /\ usable \in Nat /\ onHold \in Nat /\ usable + onHold + c = Budget
        BY <1>0, <3>5 DEF DcaBooks
      <4> HIDE DEF c
      <4> QED BY <2>1, <3>1, <4>1, DcaAssumption
    <3>7. /\ Reserved'[x] = p /\ \A y \in Windows \ {x} : Reserved'[y] = Reserved[y]
      BY <2>3 DEF Reserved
    <3>8. \A y \in Windows : Reserved'[y] \in Nat /\ Reserved'[y] <= Budget
      BY <2>1, <3>4, <3>6, <3>7
    <3>9. /\ UnitsBy(Reserved', InReserve) = UnitsBy(Reserved, InReserve)
          /\ UnitsBy(Reserved', Captured) = UnitsBy(Reserved, Captured)
      <4>1. \A y \in InReserve : Reserved'[y] = Reserved[y]
        BY <3>2, <3>3, <3>7
      <4>2. \A y \in Captured : Reserved'[y] = Reserved[y]
        BY <3>2, <3>3, <3>7
      <4> QED BY <4>1, <4>2, SameUnits
    <3>10. Cardinality(UnitsBy(Reserved', InReserve'))
             = Cardinality(UnitsBy(Reserved, InReserve)) + p
      BY <3>2, <3>3, <3>7, <3>8, <3>9, OneWindowMore
    <3>11. DcaBooks'
      <4> DEFINE c == Cardinality(UnitsBy(Reserved, Captured))
                 d == Cardinality(UnitsBy(Reserved, InReserve))
      <4>1. c \in Nat /\ d \in Nat /\ usable \in Nat /\ onHold \in Nat
            /\ usable + onHold + c = Budget /\ onHold = d /\ total = Cardinality(Captured)
        BY <1>0, <3>5 DEF DcaBooks
      <4>2. /\ Cardinality(UnitsBy(Reserved', InReserve')) = d + p
            /\ Cardinality(UnitsBy(Reserved', Captured')) = c
        BY <3>2, <3>9, <3>10
      <4> HIDE DEF c, d
      <4>3. usable' \in Nat /\ onHold' \in Nat /\ onHold' = d + p /\ usable' + onHold' + c = Budget
        BY <2>1, <3>1, <4>1, DcaAssumption
      <4>4. total' = Cardinality(Captured')
        BY <1>2, <3>2, <4>1
      <4> QED BY <4>2, <4>3, <4>4 DEF DcaBooks
    <3>12. \A y \in Windows : WindowSound(y)'
      BY <1>0, <1>2, <1>4, <2>1, <2>3, <3>6 DEF WindowSound
    <3>13. ASSUME NEW v \in Executors PROVE CycleSound(v)'
      <4>0. cycle \in [Executors -> CycleTask] /\ CycleSound(v)
        BY <1>0 DEF DcaRows
      <4>1. CASE v = w
        BY <2>1, <2>2, <2>3, <4>0, <4>1 DEF CycleSound
      <4>2. CASE v # w
        <5>1. cycle'[v] = cycle[v]
          BY <2>2, <4>0, <4>2
        <5>2. cycle[v].at \in {"create", "release"} => cycle[v].x # x
          BY <3>1, <4>0 DEF CycleSound
        <5> QED BY <2>3, <4>0, <5>1, <5>2 DEF CycleSound
      <4> QED BY <4>1, <4>2
    <3> QED BY <2>4, <3>11, <3>12, <3>13 DEF DcaInv
  <2> QED BY <2>5, <2>6
<1> QED BY <1>1, <1>3, <1>4 DEF ReserveDCAFunding

LEMMA ReleaseKeeps ==
  ASSUME DcaInv, NEW w \in Executors, ReleaseDCAFunding(w)
  PROVE  DcaInv'
<1>0. DcaRows /\ DcaBooks /\ (\A x \in Windows : WindowSound(x)) /\ \A v \in Executors : CycleSound(v)
  BY DEF DcaInv
<1>b. bought \in [Windows -> {"none", "pago_fiat", "sent", "failed"}] /\ AgeTyped
  BY <1>0 DEF DcaRows, AgeTyped
<1>c. UNCHANGED age => AgeTyped'
  BY <1>b DEF AgeTyped
<1>1. PICK x \in Windows : /\ x = cycle[w].x /\ cycle[w].at = "release"
                           /\ cycle[w].held = row[x].reserved
  BY <1>0 DEF ReleaseDCAFunding, CycleSound
<1>2. UNCHANGED <<strategy, age, total, sent, waiting, bought>>
  BY DEF ReleaseDCAFunding
<1>3. PICK t \in CycleTask : cycle' = [cycle EXCEPT ![w] = t] /\ t.at = "fail" /\ t.x \in Windows
  BY <1>1, GoingTo DEF ReleaseDCAFunding
<1>4. CASE UNCHANGED <<wallet, row>>
  BY <1>b, <1>c, <1>2, <1>3, <1>4, RowStays, StateStepKeeps
<1>5. CASE /\ Releasable(row[x]) /\ onHold >= cycle[w].held
           /\ usable' = usable + cycle[w].held /\ onHold' = onHold - cycle[w].held
           /\ row' = [row EXCEPT ![x].released = TRUE]
  <2> DEFINE p == row[x].reserved
  <2>1. /\ p \in Nat /\ p > 0 /\ ~row[x].released /\ ~row[x].captured /\ onHold >= p
        /\ usable' = usable + p /\ onHold' = onHold - p
    BY <1>1, <1>5, ReservedInRange DEF Releasable
  <2>2. /\ row' \in [Windows -> Execution]
        /\ row'[x].reserved = p /\ row'[x].captured = row[x].captured
        /\ row'[x].released = TRUE /\ row'[x].st = row[x].st
        /\ \A y \in Windows \ {x} : row'[y] = row[y]
    <3> DEFINE e == [row[x] EXCEPT !.released = TRUE]
    <3>1. row \in [Windows -> Execution] /\ row[x] \in Execution
      BY <1>0 DEF DcaRows
    <3>2. /\ e \in Execution /\ e.reserved = p /\ e.captured = row[x].captured
          /\ e.released = TRUE /\ e.st = row[x].st
      BY <3>1 DEF Execution
    <3>3. row' = [row EXCEPT ![x] = e]
      BY <1>5
    <3> HIDE DEF e
    <3> QED BY <3>1, <3>2, <3>3
  <2>3. DcaRows'
    BY <1>0, <1>2, <1>3, <2>2 DEF DcaRows
  <2>4. /\ InReserve = InReserve' \cup {x} /\ x \in Windows \ InReserve'
        /\ Captured' = Captured /\ Reserved' = Reserved
    BY <2>1, <2>2 DEF InReserve, Captured, Reserved
  <2>5. \A y \in Windows : Reserved[y] \in Nat /\ Reserved[y] <= Budget
    BY ReservedInRange
  <2>6. InReserve' \in SUBSET Windows /\ Captured \in SUBSET Windows
    BY DEF InReserve, Captured
  <2>7. Cardinality(UnitsBy(Reserved, InReserve)) = Cardinality(UnitsBy(Reserved, InReserve')) + p
    BY <2>4, <2>5, <2>6, OneWindowMore DEF Reserved
  <2>8. /\ Cardinality(UnitsBy(Reserved, InReserve')) \in Nat
        /\ Cardinality(UnitsBy(Reserved, Captured)) \in Nat
    BY <2>5, <2>6, UnitsFinite
  <2>9. DcaBooks'
    <3> DEFINE c == Cardinality(UnitsBy(Reserved, Captured))
               d == Cardinality(UnitsBy(Reserved, InReserve'))
    <3>1. c \in Nat /\ d \in Nat /\ usable \in Nat /\ onHold \in Nat
          /\ usable + onHold + c = Budget /\ onHold = d + p /\ total = Cardinality(Captured)
      BY <1>0, <2>7, <2>8 DEF DcaBooks
    <3>2. /\ Cardinality(UnitsBy(Reserved', InReserve')) = d
          /\ Cardinality(UnitsBy(Reserved', Captured')) = c
      BY <2>4
    <3> HIDE DEF c, d, p
    <3>3. usable' \in Nat /\ onHold' \in Nat /\ onHold' = d /\ usable' + onHold' + c = Budget
      BY <2>1, <3>1, DcaAssumption
    <3>4. total' = Cardinality(Captured')
      BY <1>2, <2>4, <3>1
    <3> QED BY <3>2, <3>3, <3>4 DEF DcaBooks
  <2>10. \A y \in Windows : WindowSound(y)'
    BY <1>0, <1>2, <2>1, <2>2 DEF WindowSound
  <2>11. \A v \in Executors : CycleSound(v)'
    BY <1>3, <2>2, CyclesKeep
  <2> QED BY <2>3, <2>9, <2>10, <2>11 DEF DcaInv
<1> QED BY <1>1, <1>4, <1>5 DEF ReleaseDCAFunding

LEMMA ConfirmDcaKeeps ==
  ASSUME DcaInv, NEW x \in Windows, ConfirmDCAExecution(x)
  PROVE  DcaInv'
<1>0. DcaRows /\ DcaBooks /\ (\A y \in Windows : WindowSound(y)) /\ \A v \in Executors : CycleSound(v)
  BY DEF DcaInv
<1>1. UNCHANGED <<strategy, waiting, age, cycle, bought>> /\ sent' = sent \ {x} /\ x \in sent
  BY DEF ConfirmDCAExecution
<1>2. CASE UNCHANGED <<row, wallet, total>>
  <2>1. DcaRows'
    BY <1>0, <1>1, <1>2 DEF DcaRows
  <2>2. \A v \in Executors : CycleSound(v)'
    BY <1>0, <1>1, <1>2 DEF CycleSound
  <2>3. \A y \in Windows : y \in sent' => bought'[y] = "sent"
    BY <1>0, <1>1 DEF WindowSound
  <2> QED BY <1>1, <1>2, <2>1, <2>2, <2>3, RowStays, PlainStepKeeps
<1>3. CASE /\ Confirmable(row[x]) /\ Capturable(row[x])
           /\ row' = [row EXCEPT ![x].st = "completed", ![x].captured = TRUE]
           /\ onHold' = IF row[x].captured THEN onHold ELSE onHold - row[x].reserved
           /\ total' = total + 1 /\ usable' = usable
  <2> DEFINE p == row[x].reserved
  <2>1. /\ p \in Nat /\ p > 0 /\ ~row[x].released /\ ~row[x].captured /\ onHold >= p
        /\ onHold' = onHold - p /\ bought[x] = "sent"
    BY <1>0, <1>1, <1>3, ReservedInRange DEF Confirmable, Capturable, WindowSound
  <2>2. /\ row' \in [Windows -> Execution]
        /\ row'[x].reserved = p /\ row'[x].captured = TRUE
        /\ row'[x].released = row[x].released /\ row'[x].st = "completed"
        /\ \A y \in Windows \ {x} : row'[y] = row[y]
    <3> DEFINE e == [row[x] EXCEPT !.st = "completed", !.captured = TRUE]
    <3>1. row \in [Windows -> Execution] /\ row[x] \in Execution
      BY <1>0 DEF DcaRows
    <3>2. /\ e \in Execution /\ e.reserved = p /\ e.captured = TRUE
          /\ e.released = row[x].released /\ e.st = "completed"
      BY <3>1 DEF Execution
    <3>3. row' = [row EXCEPT ![x] = e]
      BY <1>3, <3>1
    <3> HIDE DEF e
    <3> QED BY <3>1, <3>2, <3>3
  <2>3. DcaRows'
    BY <1>0, <1>1, <2>2 DEF DcaRows
  <2>4. /\ InReserve = InReserve' \cup {x} /\ x \in Windows \ InReserve'
        /\ Captured' = Captured \cup {x} /\ x \in Windows \ Captured /\ Reserved' = Reserved
    BY <2>1, <2>2 DEF InReserve, Captured, Reserved
  <2>5. \A y \in Windows : Reserved[y] \in Nat /\ Reserved[y] <= Budget
    BY ReservedInRange
  <2>6. InReserve' \in SUBSET Windows /\ Captured \in SUBSET Windows
    BY DEF InReserve, Captured
  <2>7. /\ Cardinality(UnitsBy(Reserved, InReserve)) = Cardinality(UnitsBy(Reserved, InReserve')) + p
        /\ Cardinality(UnitsBy(Reserved, Captured')) = Cardinality(UnitsBy(Reserved, Captured)) + p
    BY <2>4, <2>5, <2>6, OneWindowMore DEF Reserved
  <2>8. /\ Cardinality(UnitsBy(Reserved, InReserve')) \in Nat
        /\ Cardinality(UnitsBy(Reserved, Captured)) \in Nat
    BY <2>5, <2>6, UnitsFinite
  <2>9. Cardinality(Captured') = Cardinality(Captured) + 1
    <3>1. IsFiniteSet(Captured)
      BY <2>6, DcaAssumption, FS_Subset
    <3> QED BY <2>4, <3>1, FS_AddElement
  <2>10. DcaBooks'
    <3> DEFINE c == Cardinality(UnitsBy(Reserved, Captured))
               d == Cardinality(UnitsBy(Reserved, InReserve'))
    <3>1. c \in Nat /\ d \in Nat /\ usable \in Nat /\ onHold \in Nat
          /\ usable + onHold + c = Budget /\ onHold = d + p /\ total = Cardinality(Captured)
      BY <1>0, <2>7, <2>8 DEF DcaBooks
    <3>2. /\ Cardinality(UnitsBy(Reserved', InReserve')) = d
          /\ Cardinality(UnitsBy(Reserved', Captured')) = c + p
      BY <2>4, <2>7
    <3>3. total' = Cardinality(Captured')
      BY <1>3, <2>9, <3>1
    <3> HIDE DEF c, d, p
    <3>4. /\ usable' \in Nat /\ onHold' \in Nat /\ onHold' = d
          /\ usable' + onHold' + (c + p) = Budget
      BY <1>3, <2>1, <3>1, DcaAssumption
    <3> QED BY <3>2, <3>3, <3>4 DEF DcaBooks
  <2>11. \A y \in Windows : WindowSound(y)'
    BY <1>0, <1>1, <2>1, <2>2 DEF WindowSound
  <2>12. \A v \in Executors : CycleSound(v)'
    <3>1. \A y \in Windows : row'[y].reserved = row[y].reserved
      BY <2>2
    <3> QED BY <1>0, <1>1, <3>1 DEF CycleSound
  <2> QED BY <2>3, <2>10, <2>11, <2>12 DEF DcaInv
<1> QED BY <1>1, <1>2, <1>3 DEF ConfirmDCAExecution

LEMMA DcaNextInv == DcaInv /\ [DcaNext]_dcavars => DcaInv'
<1> SUFFICES ASSUME DcaInv, [DcaNext]_dcavars PROVE DcaInv'
  OBVIOUS
<1>1. CASE \/ \E s \in {"active", "paused", "cancelled"} : UpdateDCA(s)
           \/ \E x \in Windows : AttemptDue(x) \/ ProcessingAges(x) \/ OrderEnds(x)
  BY <1>1, OutsideDcaKeeps
<1>2. CASE \E w \in Executors :
             \/ \E x \in Windows : ClaimDue(w, x) \/ ClaimRecoverable(w, x)
             \/ TransitionExecutionProcessing(w) \/ CreatePaidBuyOrder(w) \/ Link(w)
             \/ MarkExecutionFailed(w) \/ ExecutorStops(w)
  BY <1>2, GoroutineStepsKeep
<1>3. CASE \E w \in Executors : ReserveDCAFunding(w) \/ ReleaseDCAFunding(w)
  BY <1>3, ReserveKeeps, ReleaseKeeps
<1>4. CASE \E x \in Windows : ConfirmDCAExecution(x)
  BY <1>4, ConfirmDcaKeeps
<1>5. CASE UNCHANGED dcavars
  BY <1>5 DEF dcavars, DcaInv, DcaRows, DcaBooks, WindowSound, CycleSound, InReserve, Captured,
              Reserved
<1> QED BY <1>1, <1>2, <1>3, <1>4, <1>5 DEF DcaNext

(* The money of the recurring buys is where the rows say: what is locked   *)
(* is what open windows reserved, what left was captured once by a window  *)
(* that is completed with its order sent, and the total counts those, for  *)
(* any number of goroutines, stops and lost answers.                       *)
THEOREM CyclesAddUp == DcaSpec => []DcaBooksAreTrue
<1>1. DcaSpec => []DcaInv
  BY DcaInitInv, DcaNextInv, PTL DEF DcaSpec
<1> QED BY <1>1, DcaInvEnough, PTL

===============================================================================
