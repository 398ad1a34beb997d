-------------------------- MODULE AgentTradeProofs --------------------------
(***************************************************************************)
(* Theorems of AgentTrade, for any trades, transfers, keys and handlers.   *)
(* Between the confirmation of a payment and the result of its settlement  *)
(* no lock is held: what keeps two handlers apart is the status alone,     *)
(* which stays "paid" until the one handler that made it so has written a  *)
(* result.  The second part is about AgentAccess: the uses of what agents  *)
(* buy in the marketplace; the third about GiftCardOrder: the purchase of  *)
(* an order and the money of the wallet; the last about the tasks that     *)
(* other agents give the server.                                           *)
(***************************************************************************)
EXTENDS AgentTrade, AgentAccess, GiftCardOrder, FiniteSetTheorems, SequenceTheorems,
        WellFoundedInduction, TLAPS

Settling == {"send", "fail", "complete"}

(* A handler past the confirmation holds a trade that is paid, and one that*)
(* is about to complete it has had it sent.                                *)
HandlersHoldPaid == \A c \in Calls :
    /\ call[c].at # "idle" => /\ call[c].trade \in Trades /\ call[c].tx \in Txs
                              /\ call[c].key \in Keys
    /\ call[c].at \in Settling => status[call[c].trade] = "paid"
    /\ call[c].at = "complete" => <<call[c].trade, call[c].key>> \in sent

OneHandler == \A c, d \in Calls :
    c # d /\ call[c].at \in Settling /\ call[d].at \in Settling => call[c].trade # call[d].trade

PaidHasTransfer == \A t \in Trades : status[t] \in {"paid", "settled", "failed"} => tx[t] # None

OneTradePerTransfer == \A t, u \in Trades : t # u /\ tx[t] # None => tx[t] # tx[u]
SentIsFunded == \A s \in sent \cup wire : tx[s[1]] # None
SettledIsSent == \A t \in Trades : status[t] = "settled" => \E s \in sent : s[1] = t

IndInv == /\ TypeOK /\ HandlersHoldPaid /\ OneHandler /\ PaidHasTransfer
          /\ OneTradePerTransfer /\ SentIsFunded /\ SettledIsSent

-----------------------------------------------------------------------------
LEMMA InitIndInv == Init => IndInv
  BY AgentTradeAssumption
     DEF Init, IndInv, TypeOK, Idle, Call, Steps, HandlersHoldPaid, OneHandler, PaidHasTransfer,
         OneTradePerTransfer, SentIsFunded, SettledIsSent, Settling

LEMMA IndInvImplies == IndInv => SettlesWhatWasPaid
  BY DEF IndInv, SettlesWhatWasPaid, HandlersHoldPaid, OneHandler, Settling, Trade,
         OneTradePerTransfer, SentIsFunded, SettledIsSent

(* The agent, time and the signer.                                         *)
LEMMA OutsideIndInv ==
  ASSUME IndInv, \/ \E t \in Trades : CreateAgentTradeIntent(t) \/ Lapse(t)
                 \/ WireArrives
  PROVE  IndInv'
  <1>1. ASSUME NEW t \in Trades, CreateAgentTradeIntent(t)
        PROVE  IndInv'
    <2>1. PICK k \in Keys \cup {None} : key' = [key EXCEPT ![t] = k]
      BY <1>1 DEF CreateAgentTradeIntent
    <2>2. /\ status[t] = "none" /\ status' = [status EXCEPT ![t] = "pending"]
          /\ UNCHANGED <<tx, lapsed, call, sent, wire>>
      BY <1>1 DEF CreateAgentTradeIntent
    <2>3. TypeOK'
      BY <2>1, <2>2 DEF IndInv, TypeOK
    <2>4. HandlersHoldPaid' /\ OneHandler' /\ PaidHasTransfer'
      BY <2>2 DEF IndInv, TypeOK, HandlersHoldPaid, OneHandler, PaidHasTransfer, Settling
    <2>5. OneTradePerTransfer' /\ SentIsFunded' /\ SettledIsSent'
      BY <2>2 DEF IndInv, TypeOK, OneTradePerTransfer, SentIsFunded, SettledIsSent
    <2> QED
      BY <2>3, <2>4, <2>5 DEF IndInv
  <1>2. ASSUME NEW t \in Trades, Lapse(t)
        PROVE  IndInv'
    BY <1>2 DEF Lapse, IndInv, TypeOK, HandlersHoldPaid, OneHandler, PaidHasTransfer,
                OneTradePerTransfer, SentIsFunded, SettledIsSent
  <1>3. CASE WireArrives
    <2>1. PICK s \in wire : wire' = wire \ {s} /\ sent' = sent \cup {s}
      BY <1>3 DEF WireArrives
    <2>2. UNCHANGED <<status, tx, key, lapsed, call>>
      BY <1>3 DEF WireArrives
    <2> QED
      BY <2>1, <2>2 DEF IndInv, TypeOK, HandlersHoldPaid, OneHandler, PaidHasTransfer,
                        OneTradePerTransfer, SentIsFunded, SettledIsSent
  <1> QED
    BY <1>1, <1>2, <1>3

(* A handler leaves: what the others hold stays.                           *)
LEMMA CallEnds ==
  ASSUME TypeOK, NEW c \in Calls, Ends(c)
  PROVE  /\ call' \in [Calls -> Call] /\ call'[c].at = "idle"
         /\ \A d \in Calls \ {c} : call'[d] = call[d]
  BY DEF TypeOK, Ends, Idle, Call, Steps

LEMMA CallGoes ==
  ASSUME TypeOK, NEW c \in Calls, NEW at \in Steps, Goes(c, at)
  PROVE  /\ call' \in [Calls -> Call] /\ call'[c].at = at
         /\ call'[c].trade = call[c].trade /\ call'[c].tx = call[c].tx
         /\ call'[c].key = call[c].key
         /\ \A d \in Calls \ {c} : call'[d] = call[d]
  BY DEF TypeOK, Goes, Call

LEMMA HandlerIndInv ==
  ASSUME IndInv, NEW c \in Calls,
         \/ VerifyTransfer(c) \/ ConfirmAgentTradePayment(c)
         \/ SendSettlement(c) \/ FailAgentTradeSettlement(c)
         \/ CompleteAgentTradeSettlement(c) \/ CallStops(c)
  PROVE  IndInv'
  <1>1. TypeOK
    BY DEF IndInv
  <1>2. ASSUME Ends(c), UNCHANGED <<status, tx, key, lapsed, sent, wire>>
        PROVE  IndInv'
    <2>1. HandlersHoldPaid' /\ OneHandler'
      BY <1>1, <1>2, CallEnds DEF IndInv, HandlersHoldPaid, OneHandler, Settling
    <2> QED
      BY <1>1, <1>2, <2>1, CallEnds DEF IndInv, TypeOK, PaidHasTransfer, OneTradePerTransfer,
                                        SentIsFunded, SettledIsSent
  <1>3. CASE VerifyTransfer(c)
    <2>1. PICK t \in Trades, x \in Txs, k \in Keys :
            call' = [call EXCEPT ![c] = [at |-> "confirm", trade |-> t, tx |-> x, key |-> k]]
      BY <1>3 DEF VerifyTransfer
    <2>2. UNCHANGED <<status, tx, key, lapsed, sent, wire>>
      BY <1>3 DEF VerifyTransfer
    <2>3. call' \in [Calls -> Call]
      BY <1>1, <2>1 DEF TypeOK, Call, Steps
    <2>4. HandlersHoldPaid' /\ OneHandler'
      BY <1>1, <2>1, <2>2 DEF IndInv, TypeOK, HandlersHoldPaid, OneHandler, Settling
    <2> QED
      BY <2>2, <2>3, <2>4 DEF IndInv, TypeOK, PaidHasTransfer, OneTradePerTransfer,
                              SentIsFunded, SettledIsSent
  <1>4. CASE ConfirmAgentTradePayment(c)
    <2>1. call[c].at = "confirm" /\ UNCHANGED <<lapsed, sent, wire>>
      BY <1>4 DEF ConfirmAgentTradePayment
    <2>2. CASE Payable(status[Trade(c)]) /\ Trade(c) \notin lapsed /\ Unused(c)
      <3>1. PICK t \in Trades, x \in Txs, k \in Keys :
              t = call[c].trade /\ x = call[c].tx /\ k = call[c].key
        BY <2>1 DEF IndInv, HandlersHoldPaid
      <3>2. /\ status' = [status EXCEPT ![t] = "paid"] /\ tx' = [tx EXCEPT ![t] = x]
            /\ key' = [key EXCEPT ![t] = IF @ = None THEN k ELSE @] /\ Goes(c, "send")
        BY <1>4, <2>2, <3>1 DEF ConfirmAgentTradePayment, Trade
      <3>3. status[t] \notin {"settled", "paid"} /\ \A u \in Trades \ {t} : tx[u] # x
        BY <2>2, <3>1 DEF Payable, Unused, Trade
      <3>4. /\ call' \in [Calls -> Call] /\ call'[c].at = "send" /\ call'[c].trade = t
            /\ call'[c].tx = x /\ call'[c].key = k
            /\ \A d \in Calls \ {c} : call'[d] = call[d]
        BY <1>1, <3>1, <3>2, CallGoes DEF Steps
      <3>5. TypeOK'
        BY <1>1, <2>1, <3>2, <3>4 DEF TypeOK
      <3>6. HandlersHoldPaid' /\ OneHandler'
        <4>1. \A d \in Calls \ {c} : call[d].at \in Settling => call[d].trade # t
          BY <3>3 DEF IndInv, HandlersHoldPaid
        <4>2. \A u \in Trades : status[u] = "paid" => status'[u] = "paid"
          BY <1>1, <3>2 DEF TypeOK
        <4>3. status'[t] = "paid"
          BY <1>1, <3>2 DEF TypeOK
        <4>4. HandlersHoldPaid'
          BY <2>1, <3>4, <4>2, <4>3 DEF IndInv, HandlersHoldPaid, Settling
        <4>5. OneHandler'
          BY <3>4, <4>1 DEF IndInv, OneHandler, Settling
        <4> QED
          BY <4>4, <4>5
      <3>7. PaidHasTransfer' /\ OneTradePerTransfer' /\ SentIsFunded' /\ SettledIsSent'
        BY <1>1, <2>1, <3>2, <3>3, AgentTradeAssumption
           DEF IndInv, TypeOK, PaidHasTransfer, OneTradePerTransfer, SentIsFunded, SettledIsSent
      <3> QED
        BY <3>5, <3>6, <3>7 DEF IndInv
    <2> QED
      BY <1>2, <1>4, <2>1, <2>2 DEF ConfirmAgentTradePayment
  <1>5. CASE SendSettlement(c)
    <2>1. PICK t \in Trades, k \in Keys : t = call[c].trade /\ k = call[c].key
      BY <1>5 DEF SendSettlement, IndInv, HandlersHoldPaid
    <2>2. /\ call[c].at = "send" /\ UNCHANGED <<status, tx, key, lapsed>>
          /\ sent' \in {sent, sent \cup {<<t, k>>}} /\ wire' \in {wire, wire \cup {<<t, k>>}}
      BY <1>5, <2>1 DEF SendSettlement, SettlementKey, Trade
    <2>3. PICK at \in {"fail", "complete"} : /\ Goes(c, at)
                                             /\ at = "complete" => <<t, k>> \in sent'
      BY <1>5, <2>1 DEF SendSettlement, SettlementKey, Trade
    <2>4. /\ call' \in [Calls -> Call] /\ call'[c].at = at /\ call'[c].trade = t
          /\ call'[c].tx = call[c].tx /\ call'[c].key = k
          /\ \A d \in Calls \ {c} : call'[d] = call[d]
      BY <1>1, <2>1, <2>3, CallGoes DEF Steps
    <2>5. status[t] = "paid" /\ tx[t] # None
      BY <2>1, <2>2 DEF IndInv, HandlersHoldPaid, PaidHasTransfer, Settling
    <2>6. TypeOK'
      BY <1>1, <2>2, <2>4 DEF TypeOK
    <2>7. HandlersHoldPaid' /\ OneHandler'
      <3>1. sent \subseteq sent' /\ status' = status
        BY <2>2
      <3>2. HandlersHoldPaid'
        BY <2>1, <2>2, <2>3, <2>4, <2>5, <3>1 DEF IndInv, HandlersHoldPaid, Settling
      <3>3. OneHandler'
        BY <2>1, <2>2, <2>4 DEF IndInv, OneHandler, Settling
      <3> QED
        BY <3>2, <3>3
    <2>8. PaidHasTransfer' /\ OneTradePerTransfer' /\ SentIsFunded' /\ SettledIsSent'
      BY <2>2, <2>5 DEF IndInv, PaidHasTransfer, OneTradePerTransfer, SentIsFunded, SettledIsSent
    <2> QED
      BY <2>6, <2>7, <2>8 DEF IndInv
  <1>6. CASE FailAgentTradeSettlement(c) \/ CompleteAgentTradeSettlement(c)
    <2>1. call[c].at \in {"fail", "complete"} /\ Ends(c) /\ UNCHANGED <<tx, key, lapsed, sent, wire>>
      BY <1>6 DEF FailAgentTradeSettlement, CompleteAgentTradeSettlement
    <2>2. PICK t \in Trades : t = call[c].trade /\ status[t] = "paid" /\ tx[t] # None
      BY <2>1 DEF IndInv, HandlersHoldPaid, PaidHasTransfer, Settling
    <2>3. PICK s \in {"paid", "failed", "settled"} :
            /\ status' = [status EXCEPT ![t] = s]
            /\ s = "settled" => \E x \in sent : x[1] = t
      <3>1. status = [status EXCEPT ![t] = "paid"]
        BY <1>1, <2>2 DEF TypeOK
      <3>2. CASE FailAgentTradeSettlement(c)
        BY <2>2, <3>1, <3>2 DEF FailAgentTradeSettlement, Trade
      <3>3. CASE CompleteAgentTradeSettlement(c)
        <4>1. <<t, call[c].key>> \in sent
          BY <2>2, <3>3 DEF CompleteAgentTradeSettlement, IndInv, HandlersHoldPaid
        <4>2. \E x \in sent : x[1] = t
          BY <4>1
        <4> QED
          BY <2>2, <3>1, <3>3, <4>2 DEF CompleteAgentTradeSettlement, Trade
      <3> QED
        BY <1>6, <3>2, <3>3
    <2>4. TypeOK'
      BY <1>1, <2>1, <2>3, CallEnds DEF TypeOK
    <2>5. HandlersHoldPaid' /\ OneHandler'
      BY <1>1, <2>1, <2>2, <2>3, CallEnds DEF IndInv, TypeOK, HandlersHoldPaid, OneHandler, Settling
    <2>6. PaidHasTransfer' /\ OneTradePerTransfer' /\ SentIsFunded' /\ SettledIsSent'
      BY <1>1, <2>1, <2>2, <2>3
         DEF IndInv, TypeOK, PaidHasTransfer, OneTradePerTransfer, SentIsFunded, SettledIsSent
    <2> QED
      BY <2>4, <2>5, <2>6 DEF IndInv
  <1>7. CASE CallStops(c)
    BY <1>2, <1>7 DEF CallStops
  <1> QED
    BY <1>3, <1>4, <1>5, <1>6, <1>7

LEMMA NextIndInv == IndInv /\ [Next]_atvars => IndInv'
  <1> SUFFICES ASSUME IndInv, [Next]_atvars PROVE IndInv'
    OBVIOUS
  <1>1. CASE UNCHANGED atvars
    BY <1>1 DEF atvars, IndInv, TypeOK, HandlersHoldPaid, OneHandler, PaidHasTransfer,
                OneTradePerTransfer, SentIsFunded, SettledIsSent
  <1> QED
    BY <1>1, OutsideIndInv, HandlerIndInv DEF Next

-----------------------------------------------------------------------------
LEMMA Invariance == Spec => []IndInv
  BY InitIndInv, NextIndInv, PTL DEF Spec

(* The rows, the handlers and what reached the signer are of their types.  *)
THEOREM TypeCorrect == Spec => []TypeOK
  BY Invariance, PTL DEF IndInv

(* A transfer funds one trade, only a funded trade is settled, and no two  *)
(* handlers of any replicas settle one trade at a time.                    *)
THEOREM OnlyPaidIsSettled == Spec => []SettlesWhatWasPaid
  BY Invariance, IndInvImplies, PTL

-----------------------------------------------------------------------------
(* The marketplace (AgentAccess).  A handler past the insert of its        *)
(* execution is the only one of its key, and its use is recorded; nothing  *)
(* is used of a grant that was not activated; what is left of a grant and  *)
(* its uses make the quota.                                                *)
AccessTyped ==
    /\ AccessTypeOK /\ IsFiniteSet(usage)
    /\ \A c \in Handlers :
         /\ handler[c].at \in {"insert", "activate"} => handler[c].g \in Purchases
         /\ handler[c].at \notin {"idle", "insert", "activate"} => handler[c].g \in Grants
         /\ handler[c].at \notin {"idle", "insert"} => handler[c].key \in RequestKeys
Begun(c) == handler[c].at \in {"promote", "record"}
RunsOnce ==
    /\ \A c \in Handlers : Begun(c) =>
         exec[handler[c].key] # Nothing /\ <<exec[handler[c].key], handler[c].key>> \in usage
    /\ \A c, d \in Handlers : Begun(c) /\ Begun(d) /\ handler[c].key = handler[d].key => c = d
    /\ \A c \in Handlers : handler[c].at = "promote" => runs[handler[c].key] = 0
    /\ \A k \in RequestKeys : exec[k] = Nothing => runs[k] = 0
    /\ \A k \in RequestKeys : runs[k] \in {0, 1} /\ (runs[k] = 1 => <<exec[k], k>> \in usage)
GrantsAreBought == \A p \in Purchases :
    /\ grant[p] # "none" <=> purchase[p] = "active"
    /\ grant[p] = "none" => p \notin held
    /\ grant[p] = "exhausted" => left[p] = 0
    /\ paidBy[p] # Nothing => purchase[p] = "active"
QuotaIsKept == \A p \in Purchases :
    IF grant[p] = "none" THEN Uses(p) = 0 ELSE left[p] + Uses(p) = QuotaOf[p]
OneTransferEach == \A p, q \in Purchases :
    p # q /\ paidBy[p] # Nothing /\ paidBy[p] = paidBy[q] => ~(p \in Quotes <=> q \in Quotes)
CreditIsKept == credit = Uses(Risk) /\ credit <= CreditLimit
AccessInv == AccessTyped /\ RunsOnce /\ GrantsAreBought /\ QuotaIsKept /\ OneTransferEach /\ CreditIsKept

LEMMA InitAccess == AccessInit => AccessInv
  <1> SUFFICES ASSUME AccessInit PROVE AccessInv
    OBVIOUS
  <1>1. \A g : Uses(g) = 0
    <2>1. \A g : {u \in usage : u[1] = g} = {}
      BY DEF AccessInit
    <2> QED
      BY <2>1, FS_EmptySet DEF Uses
  <1>2. IsFiniteSet(usage)
    BY FS_EmptySet DEF AccessInit
  <1>3. AccessTyped
    BY <1>2, AgentAccessAssumption DEF AccessInit, AccessTyped, AccessTypeOK, Free, Handling, Stages, Grants
  <1>4. RunsOnce
    BY DEF AccessInit, RunsOnce, Begun, Free
  <1>5. GrantsAreBought /\ QuotaIsKept /\ OneTransferEach /\ CreditIsKept
    BY <1>1, AgentAccessAssumption DEF AccessInit, GrantsAreBought, QuotaIsKept, OneTransferEach,
       CreditIsKept, Grants
  <1> QED
    BY <1>3, <1>4, <1>5 DEF AccessInv

(* A use that was not recorded counts once, for its grant.                 *)
LEMMA UseCounts ==
  ASSUME IsFiniteSet(usage), NEW g, NEW k, <<g, k>> \notin usage,
         usage' = usage \cup {<<g, k>>}
  PROVE  /\ IsFiniteSet(usage')
         /\ Uses(g) \in Nat /\ Uses(g)' = Uses(g) + 1
         /\ \A h : h # g => Uses(h)' = Uses(h)
  <1> DEFINE Of(h) == {u \in usage : u[1] = h}
  <1>1. IsFiniteSet(usage')
    BY FS_AddElement
  <1>2. IsFiniteSet(Of(g))
    BY FS_Subset
  <1>3. {u \in usage' : u[1] = g} = Of(g) \cup {<<g, k>>}
    OBVIOUS
  <1>4. \A h : h # g => {u \in usage' : u[1] = h} = Of(h)
    OBVIOUS
  <1>5. <<g, k>> \notin Of(g)
    OBVIOUS
  <1>6. /\ Uses(g) = Cardinality(Of(g)) /\ Uses(g)' = Cardinality({u \in usage' : u[1] = g})
        /\ \A h : Uses(h) = Cardinality(Of(h)) /\ Uses(h)' = Cardinality({u \in usage' : u[1] = h})
    BY DEF Uses
  <1> HIDE DEF Of
  <1>7. Cardinality(Of(g)) \in Nat /\ Cardinality(Of(g) \cup {<<g, k>>}) = Cardinality(Of(g)) + 1
    BY <1>2, <1>5, FS_AddElement, FS_CardinalityType
  <1> QED
    BY <1>1, <1>3, <1>4, <1>6, <1>7

(* What a handler that has begun nothing may be doing.                     *)
Fits(h) == /\ h \in Handling /\ h.at \notin {"promote", "record"}
           /\ h.at \in {"insert", "activate"} => h.g \in Purchases
           /\ h.at \in {"lookup", "consume"} => h.g \in Grants
           /\ h.at \notin {"idle", "insert"} => h.key \in RequestKeys

LEMMA FreeFits == Free \in Handling /\ Free.at = "idle" /\ Fits(Free)
  BY DEF Free, Handling, Stages, Fits

(* The handlers move, and nothing is bought or used.                       *)
LEMMA HandlersMove ==
  ASSUME AccessInv, handler' \in [Handlers -> Handling],
         \A d \in Handlers : handler'[d] = handler[d] \/ Fits(handler'[d]),
         UNCHANGED <<grant, left, held, usage, exec, credit, runs, paidBy>>,
         UNCHANGED purchase \/ \E p \in Purchases :
             purchase[p] = "none" /\ purchase' = [purchase EXCEPT ![p] = "pending"],
         expired' \subseteq Purchases, ended' \subseteq Grants,
         result' \in [RequestKeys -> {"none", "completed", "real_completed", "mock_fallback"}]
  PROVE  AccessInv'
  <1>0. AccessTyped /\ AccessTypeOK
    BY DEF AccessInv, AccessTyped
  <1>2. /\ purchase' \in [Purchases -> {"none", "pending", "active"}]
        /\ \A p \in Purchases : purchase'[p] = "active" <=> purchase[p] = "active"
    BY <1>0 DEF AccessTypeOK
  <1>3. AccessTyped'
    BY <1>0, <1>2 DEF AccessTyped, AccessTypeOK, Fits, Handling, Stages
  <1>4. \A g : Uses(g)' = Uses(g)
    BY DEF Uses
  <1>5. \A d \in Handlers : handler'[d].at \in {"promote", "record"} => handler'[d] = handler[d]
    BY DEF Fits
  <1>6. RunsOnce'
    BY <1>5 DEF AccessInv, RunsOnce, Begun
  <1>7. GrantsAreBought'
    BY <1>2 DEF AccessInv, GrantsAreBought
  <1>8. QuotaIsKept' /\ OneTransferEach' /\ CreditIsKept'
    BY <1>4 DEF AccessInv, QuotaIsKept, OneTransferEach, CreditIsKept
  <1> QED
    BY <1>3, <1>6, <1>7, <1>8 DEF AccessInv

(* One handler moves.                                                      *)
LEMMA OneMoves ==
  ASSUME AccessTypeOK, NEW c \in Handlers, NEW to \in Handling, handler' = [handler EXCEPT ![c] = to]
  PROVE  /\ handler' \in [Handlers -> Handling] /\ handler'[c] = to
         /\ \A d \in Handlers : d # c => handler'[d] = handler[d]
         /\ Fits(to) => \A d \in Handlers : handler'[d] = handler[d] \/ Fits(handler'[d])
  BY DEF AccessTypeOK

(* A request that starts, goes on or ends.                                 *)
LEMMA Moving ==
  ASSUME AccessInv, NEW c \in Handlers
  PROVE  /\ \A at, g, x, k : Starts(c, at, g, x, k) =>
              handler' = [handler EXCEPT ![c] = [at |-> at, g |-> g, tx |-> x, key |-> k]]
         /\ \A at : Proceeds(c, at) => handler' = [handler EXCEPT ![c] =
              [at |-> at, g |-> handler[c].g, tx |-> handler[c].tx, key |-> handler[c].key]]
         /\ Answers(c) => handler' = [handler EXCEPT ![c] = Free]
  BY DEF AccessInv, AccessTyped, AccessTypeOK, Handling, Starts, Proceeds, Answers

LEMMA ActivateKeeps ==
  ASSUME AccessInv, NEW c \in Handlers, Activate(c)
  PROVE  AccessInv'
  <1> DEFINE p == handler[c].g  x == handler[c].tx
  <1>0. /\ AccessTyped /\ AccessTypeOK /\ p \in Purchases /\ x \in Transfers \cup {Nothing}
        /\ handler[c] \in Handling /\ handler[c].key \in RequestKeys
    BY DEF AccessInv, AccessTyped, AccessTypeOK, Activate, Handling
  <1>1. CASE ~(purchase[p] = "pending" /\ p \notin expired /\ UnusedIn(p, x))
    <2>1. /\ handler' = [handler EXCEPT ![c] = Free]
          /\ UNCHANGED <<purchase, paidBy, grant, left, held, expired, ended, usage, exec, result, credit, runs>>
      BY <1>1, Moving DEF Activate, used
    <2> QED
      BY <1>0, <2>1, OneMoves, FreeFits, HandlersMove DEF AccessTypeOK
  <1>2. CASE purchase[p] = "pending" /\ p \notin expired /\ UnusedIn(p, x)
    <2>1. /\ purchase' = [purchase EXCEPT ![p] = "active"] /\ paidBy' = [paidBy EXCEPT ![p] = x]
          /\ grant' = [grant EXCEPT ![p] = "active"] /\ left' = [left EXCEPT ![p] = QuotaOf[p]]
          /\ held' \in {held, held \cup {p}}
          /\ UNCHANGED <<expired, ended, usage, exec, result, credit, runs>>
      BY <1>2 DEF Activate, used
    <2>2. PICK to : Fits(to) /\ handler' = [handler EXCEPT ![c] = to]
      <3> DEFINE next == [at |-> "lookup", g |-> p, tx |-> x, key |-> handler[c].key]
      <3>1. Fits(next)
        BY <1>0 DEF Fits, Handling, Stages, Grants
      <3>2. handler' = [handler EXCEPT ![c] = Free] \/ handler' = [handler EXCEPT ![c] = next]
        BY <1>2, Moving DEF Activate
      <3> HIDE DEF next
      <3> QED
        BY <3>1, <3>2, FreeFits
    <2>3. to \in Handling
      BY <2>2 DEF Fits
    <2>4. /\ handler' \in [Handlers -> Handling]
          /\ \A d \in Handlers : handler'[d] = handler[d] \/ Fits(handler'[d])
      BY <1>0, <2>2, <2>3, OneMoves
    <2>5. p \in Grants /\ p # Risk /\ QuotaOf[p] \in Nat
      BY <1>0, AgentAccessAssumption DEF Grants
    <2>6. AccessTyped'
      BY <1>0, <2>1, <2>4, <2>5 DEF AccessTyped, AccessTypeOK, Fits, Handling, Stages
    <2>7. \A d \in Handlers : handler'[d].at \in {"promote", "record"} => handler'[d] = handler[d]
      BY <2>4 DEF Fits
    <2>8. RunsOnce'
      BY <2>1, <2>7 DEF AccessInv, RunsOnce, Begun
    <2>9. grant[p] = "none"
      BY <1>0, <1>2 DEF AccessInv, GrantsAreBought
    <2>10. \A g : Uses(g)' = Uses(g)
      BY <2>1 DEF Uses
    <2>11. /\ purchase'[p] = "active" /\ grant'[p] = "active" /\ left'[p] = QuotaOf[p] /\ paidBy'[p] = x
           /\ \A q \in Purchases : q # p => /\ purchase'[q] = purchase[q] /\ grant'[q] = grant[q]
                                           /\ left'[q] = left[q] /\ paidBy'[q] = paidBy[q]
      BY <1>0, <2>1, <2>5 DEF AccessTypeOK, Grants
    <2>12. GrantsAreBought'
      BY <2>1, <2>11 DEF AccessInv, GrantsAreBought
    <2>13. QuotaIsKept'
      <3>1. Uses(p) = 0
        BY <1>0, <2>9 DEF AccessInv, QuotaIsKept
      <3> QED
        BY <2>5, <2>10, <2>11, <3>1 DEF AccessInv, QuotaIsKept
    <2>14. OneTransferEach'
      BY <1>0, <1>2, <2>11 DEF AccessInv, OneTransferEach, UnusedIn, SameTable
    <2>15. CreditIsKept'
      BY <2>1, <2>10 DEF AccessInv, CreditIsKept
    <2> QED
      BY <2>6, <2>8, <2>12, <2>13, <2>14, <2>15 DEF AccessInv
  <1> QED
    BY <1>1, <1>2

(* A use of a bought grant: one is taken of what is left.                  *)
LEMMA TakesOne ==
  ASSUME AccessInv, NEW g \in Purchases, NEW k, NEW on,
         <<g, k>> \notin usage, usage' = usage \cup {<<g, k>>},
         Usable(g), Takes(g), Exhausts(g, on), UNCHANGED <<purchase, held, paidBy, credit>>
  PROVE  /\ GrantsAreBought' /\ QuotaIsKept' /\ CreditIsKept' /\ IsFiniteSet(usage')
         /\ grant' \in [Grants -> {"none", "active", "exhausted"}] /\ left' \in [Grants -> Nat]
  <1>0. /\ AccessTypeOK /\ IsFiniteSet(usage) /\ g \in Grants /\ g # Risk
    BY AgentAccessAssumption DEF AccessInv, AccessTyped, Grants
  <1>1. /\ IsFiniteSet(usage') /\ Uses(g) \in Nat /\ Uses(g)' = Uses(g) + 1
        /\ \A h : h # g => Uses(h)' = Uses(h)
    BY <1>0, UseCounts
  <1>2. /\ left[g] \in Nat /\ left[g] > 0 /\ left' = [left EXCEPT ![g] = left[g] - 1]
        /\ grant[g] = "active" /\ (grant' = grant \/ (left[g] = 1 /\ grant' = [grant EXCEPT ![g] = "exhausted"]))
    BY <1>0 DEF AccessTypeOK, Takes, Usable, Exhausts
  <1>3. grant' \in [Grants -> {"none", "active", "exhausted"}] /\ left' \in [Grants -> Nat]
    BY <1>0, <1>2 DEF AccessTypeOK
  <1>4. /\ left'[g] = left[g] - 1 /\ grant'[g] \in {"active", "exhausted"}
        /\ grant'[g] = "exhausted" => left'[g] = 0
        /\ \A q \in Purchases : q # g => left'[q] = left[q] /\ grant'[q] = grant[q]
    BY <1>0, <1>2 DEF AccessTypeOK, Grants
  <1>5. GrantsAreBought'
    BY <1>2, <1>4 DEF AccessInv, GrantsAreBought
  <1>6. QuotaIsKept'
    <2>1. left[g] + Uses(g) = QuotaOf[g]
      BY <1>2 DEF AccessInv, QuotaIsKept
    <2>2. left'[g] + Uses(g)' = QuotaOf[g]
      BY <1>1, <1>2, <1>4, <2>1
    <2> QED
      BY <1>1, <1>4, <2>2 DEF AccessInv, QuotaIsKept
  <1>7. CreditIsKept'
    BY <1>0, <1>1 DEF AccessInv, CreditIsKept
  <1> QED
    BY <1>1, <1>3, <1>5, <1>6, <1>7

LEMMA ConsumeUsageKeeps ==
  ASSUME AccessInv, NEW g \in Grants, NEW k \in RequestKeys, NEW market \in BOOLEAN,
         ConsumeUsage(g, k, market)
  PROVE  AccessInv'
  <1>0. AccessTyped /\ AccessTypeOK /\ g \in Purchases
    BY DEF AccessInv, AccessTyped, AccessTypeOK, ConsumeUsage
  <1>1. /\ usage' = usage \cup {<<g, k>>}
        /\ UNCHANGED <<purchase, paidBy, expired, ended, held, exec, result, credit, handler, runs>>
    BY DEF ConsumeUsage, bought
  <1>2. /\ GrantsAreBought' /\ QuotaIsKept' /\ CreditIsKept' /\ IsFiniteSet(usage')
        /\ grant' \in [Grants -> {"none", "active", "exhausted"}] /\ left' \in [Grants -> Nat]
    BY <1>0, <1>1, TakesOne DEF ConsumeUsage, NewUse
  <1>3. AccessTyped'
    BY <1>0, <1>1, <1>2 DEF AccessTyped, AccessTypeOK
  <1>4. RunsOnce' /\ OneTransferEach'
    BY <1>1 DEF AccessInv, RunsOnce, OneTransferEach, Begun
  <1> QED
    BY <1>2, <1>3, <1>4 DEF AccessInv

(* A use of the risk credit: it is counted, and no grant changes.          *)
LEMMA CreditTakesOne ==
  ASSUME AccessInv, NEW k, <<Risk, k>> \notin usage, usage' = usage \cup {<<Risk, k>>}, Pays(Risk),
         UNCHANGED <<purchase, held, paidBy>>
  PROVE  /\ GrantsAreBought' /\ QuotaIsKept' /\ CreditIsKept' /\ IsFiniteSet(usage')
         /\ grant' \in [Grants -> {"none", "active", "exhausted"}] /\ left' \in [Grants -> Nat]
         /\ credit' \in 0..CreditLimit
  <1>0. AccessTypeOK /\ IsFiniteSet(usage)
    BY DEF AccessInv, AccessTyped
  <1>1. /\ credit < CreditLimit /\ credit' = credit + 1 /\ left' = left
        /\ grant' = [grant EXCEPT ![Risk] = "active"]
    BY DEF Pays
  <1>2. /\ IsFiniteSet(usage') /\ Uses(Risk) \in Nat /\ Uses(Risk)' = Uses(Risk) + 1
        /\ \A h : h # Risk => Uses(h)' = Uses(h)
    BY <1>0, UseCounts
  <1>3. \A q \in Purchases : q # Risk /\ grant'[q] = grant[q]
    BY <1>0, <1>1, AgentAccessAssumption DEF AccessTypeOK, Grants
  <1>4. GrantsAreBought'
    BY <1>1, <1>3 DEF AccessInv, GrantsAreBought
  <1>5. QuotaIsKept'
    BY <1>1, <1>2, <1>3 DEF AccessInv, QuotaIsKept
  <1>6. credit \in 0..CreditLimit /\ credit = Uses(Risk) /\ CreditLimit \in Nat
    BY <1>0, AgentAccessAssumption DEF AccessInv, AccessTypeOK, CreditIsKept
  <1>7. credit' = Uses(Risk)' /\ credit' <= CreditLimit /\ credit' \in 0..CreditLimit
    BY <1>1, <1>2, <1>6
  <1>8. CreditIsKept'
    BY <1>7 DEF CreditIsKept
  <1>9. grant' \in [Grants -> {"none", "active", "exhausted"}] /\ left' \in [Grants -> Nat]
    BY <1>0, <1>1 DEF AccessTypeOK
  <1> QED
    BY <1>2, <1>4, <1>5, <1>7, <1>8, <1>9

LEMMA ConsumeExecutionKeeps ==
  ASSUME AccessInv, NEW c \in Handlers, ConsumeExecution(c)
  PROVE  AccessInv'
  <1>a. PICK g, k : g = handler[c].g /\ k = handler[c].key
    OBVIOUS
  <1>b. PICK to : to = [at |-> "promote", g |-> g, tx |-> handler[c].tx, key |-> k]
    OBVIOUS
  <1>0. /\ AccessTyped /\ AccessTypeOK /\ g \in Grants /\ k \in RequestKeys /\ to \in Handling
        /\ to.at = "promote" /\ to.key = k /\ to.g = g
    BY <1>a, <1>b DEF AccessInv, AccessTyped, AccessTypeOK, ConsumeExecution, Handling, Stages
  <1>1. /\ usage' = usage \cup {<<g, k>>} /\ <<g, k>> \notin usage /\ exec[k] = Nothing
        /\ exec' = [exec EXCEPT ![k] = g] /\ result' = [result EXCEPT ![k] = "completed"]
        /\ UNCHANGED <<purchase, paidBy, expired, ended, held, runs>> /\ Pays(g)
    BY <1>a DEF ConsumeExecution, bought, Inserts
  <1>2. handler' = [handler EXCEPT ![c] = to]
    BY <1>a, <1>b, Moving DEF ConsumeExecution
  <1>3. /\ handler' \in [Handlers -> Handling] /\ handler'[c] = to
        /\ \A d \in Handlers : d # c => handler'[d] = handler[d]
    BY <1>0, <1>2, OneMoves
  <1>4. /\ GrantsAreBought' /\ QuotaIsKept' /\ CreditIsKept' /\ IsFiniteSet(usage')
        /\ grant' \in [Grants -> {"none", "active", "exhausted"}] /\ left' \in [Grants -> Nat]
        /\ credit' \in 0..CreditLimit
    <2>1. CASE g = Risk
      BY <1>1, <2>1, CreditTakesOne
    <2>2. CASE g # Risk
      <3>1. g \in Purchases /\ Usable(g) /\ Takes(g) /\ Exhausts(g, TRUE) /\ credit' = credit
        BY <1>0, <1>1, <2>2 DEF Pays, Grants
      <3> QED
        BY <1>0, <1>1, <3>1, TakesOne DEF AccessTypeOK
    <2> QED
      BY <2>1, <2>2
  <1>5. AccessTyped'
    BY <1>0, <1>1, <1>3, <1>4 DEF AccessTyped, AccessTypeOK
  <1>6. OneTransferEach'
    BY <1>1 DEF AccessInv, OneTransferEach
  <1>7. RunsOnce'
    <2>1. /\ RunsOnce /\ g # Nothing /\ k \in RequestKeys /\ exec \in [RequestKeys -> Grants \cup {Nothing}]
          /\ exec'[k] = g /\ \A j \in RequestKeys : j # k => exec'[j] = exec[j]
      BY <1>0, <1>1, AgentAccessAssumption DEF AccessInv, AccessTypeOK, Grants
    <2>2. \A d \in Handlers : Begun(d) => handler[d].key # k /\ handler[d].key \in RequestKeys
      BY <1>0, <1>1 DEF AccessInv, RunsOnce, Begun, AccessTyped
    <2>3. \A d \in Handlers : d # c => (Begun(d)' <=> Begun(d))
      BY <1>3 DEF Begun
    <2>4. \A d \in Handlers : Begun(d)' =>
            exec'[handler'[d].key] # Nothing /\ <<exec'[handler'[d].key], handler'[d].key>> \in usage'
      BY <1>0, <1>1, <1>3, <2>1, <2>2, <2>3 DEF RunsOnce
    <2>5. \A d, e \in Handlers : Begun(d)' /\ Begun(e)' /\ handler'[d].key = handler'[e].key => d = e
      BY <1>0, <1>3, <2>1, <2>2, <2>3 DEF RunsOnce
    <2>6. \A d \in Handlers : handler'[d].at = "promote" => runs'[handler'[d].key] = 0
      BY <1>0, <1>1, <1>3, <2>1 DEF RunsOnce
    <2>7. \A j \in RequestKeys : exec'[j] = Nothing => runs'[j] = 0
      BY <1>1, <2>1 DEF RunsOnce
    <2>8. \A j \in RequestKeys : runs'[j] \in {0, 1} /\ (runs'[j] = 1 => <<exec'[j], j>> \in usage')
      BY <1>1, <2>1 DEF RunsOnce
    <2> QED
      BY <2>4, <2>5, <2>6, <2>7, <2>8 DEF RunsOnce
  <1> QED
    BY <1>4, <1>5, <1>6, <1>7 DEF AccessInv

(* An execution begins at a provider, once for its key.                    *)
LEMMA PromoteExecutionKeeps ==
  ASSUME AccessInv, NEW c \in Handlers, PromoteExecution(c)
  PROVE  AccessInv'
  <1>a. PICK g, k : g = handler[c].g /\ k = handler[c].key
    OBVIOUS
  <1>b. PICK to : to = [at |-> "record", g |-> g, tx |-> handler[c].tx, key |-> k]
    OBVIOUS
  <1>0. /\ AccessTyped /\ AccessTypeOK /\ g \in Grants /\ k \in RequestKeys /\ to \in Handling
        /\ to.at = "record" /\ to.key = k /\ to.g = g /\ handler[c].at = "promote"
    BY <1>a, <1>b DEF AccessInv, AccessTyped, AccessTypeOK, PromoteExecution, Handling, Stages
  <1>1. handler' = [handler EXCEPT ![c] = to]
    BY <1>a, <1>b, Moving DEF PromoteExecution
  <1>2. /\ handler' \in [Handlers -> Handling] /\ handler'[c] = to
        /\ \A d \in Handlers : d # c => handler'[d] = handler[d]
    BY <1>0, <1>1, OneMoves
  <1>3. /\ runs[k] = 0 /\ exec[k] # Nothing /\ <<exec[k], k>> \in usage
        /\ \A d \in Handlers : d # c /\ Begun(d) => handler[d].key # k
    BY <1>a, <1>0 DEF AccessInv, RunsOnce, Begun
  <1>4. /\ runs' \in [RequestKeys -> Nat] /\ runs'[k] = 1
        /\ \A j \in RequestKeys : j # k => runs'[j] = runs[j]
    BY <1>a, <1>0, <1>3 DEF PromoteExecution, AccessTypeOK
  <1>5. UNCHANGED <<purchase, paidBy, expired, grant, left, ended, held, usage, exec, result, credit>>
    BY DEF PromoteExecution, bought, granted
  <1>6. AccessTyped'
    BY <1>0, <1>2, <1>4, <1>5 DEF AccessTyped, AccessTypeOK
  <1>7. RunsOnce'
    <2>1. \A d \in Handlers : d # c => (Begun(d)' <=> Begun(d))
      BY <1>2 DEF Begun
    <2>2. Begun(c) /\ RunsOnce
      BY <1>0 DEF Begun, AccessInv
    <2>3. \A d \in Handlers : Begun(d)' => Begun(d) /\ handler'[d].key = handler[d].key
      BY <1>a, <1>0, <1>2, <2>1, <2>2
    <2>4. \A d \in Handlers : Begun(d)' =>
            exec'[handler'[d].key] # Nothing /\ <<exec'[handler'[d].key], handler'[d].key>> \in usage'
      BY <1>5, <2>2, <2>3 DEF RunsOnce
    <2>5. \A d, e \in Handlers : Begun(d)' /\ Begun(e)' /\ handler'[d].key = handler'[e].key => d = e
      BY <2>2, <2>3 DEF RunsOnce
    <2>6. \A d \in Handlers : handler'[d].at = "promote" => runs'[handler'[d].key] = 0
      <3>1. SUFFICES ASSUME NEW d \in Handlers, handler'[d].at = "promote"
                     PROVE  runs'[handler'[d].key] = 0
        OBVIOUS
      <3>2. d # c /\ handler'[d] = handler[d] /\ Begun(d)
        BY <1>0, <1>2, <3>1 DEF Begun
      <3>3. handler[d].key \in RequestKeys /\ handler[d].key # k /\ runs[handler[d].key] = 0
        BY <1>0, <1>3, <2>2, <3>1, <3>2 DEF RunsOnce, AccessTyped
      <3> QED
        BY <1>4, <3>2, <3>3
    <2>7. \A j \in RequestKeys : exec'[j] = Nothing => runs'[j] = 0
      BY <1>3, <1>4, <1>5, <2>2 DEF RunsOnce
    <2>8. \A j \in RequestKeys : runs'[j] \in {0, 1} /\ (runs'[j] = 1 => <<exec'[j], j>> \in usage')
      BY <1>3, <1>4, <1>5, <2>2 DEF RunsOnce
    <2> QED
      BY <2>4, <2>5, <2>6, <2>7, <2>8 DEF RunsOnce
  <1>8. \A g1 : Uses(g1)' = Uses(g1)
    BY <1>5 DEF Uses
  <1>9. GrantsAreBought' /\ QuotaIsKept' /\ OneTransferEach' /\ CreditIsKept'
    BY <1>5, <1>8 DEF AccessInv, GrantsAreBought, QuotaIsKept, OneTransferEach, CreditIsKept
  <1> QED
    BY <1>6, <1>7, <1>9 DEF AccessInv

(* The result is written and the request answered; nothing else changes.   *)
LEMMA RecordExecutionKeeps ==
  ASSUME AccessInv, NEW c \in Handlers, RecordExecution(c)
  PROVE  AccessInv'
  <1>0. AccessTypeOK /\ handler[c].key \in RequestKeys
    BY DEF AccessInv, AccessTyped, RecordExecution
  <1>1. handler' = [handler EXCEPT ![c] = Free]
    BY Moving DEF RecordExecution
  <1>2. UNCHANGED <<purchase, paidBy, expired, grant, left, ended, held, usage, exec, credit, runs>>
    BY DEF RecordExecution, bought, granted
  <1>3. result' \in [RequestKeys -> {"none", "completed", "real_completed", "mock_fallback"}]
    BY <1>0 DEF RecordExecution, AccessTypeOK
  <1> QED
    BY <1>0, <1>1, <1>2, <1>3, OneMoves, FreeFits, HandlersMove DEF AccessTypeOK

(* A request starts, looks its key up, inserts its purchase, or stops.     *)
LEMMA RequestsKeep ==
  ASSUME AccessInv, NEW c \in Handlers,
         \/ \E p \in Purchases : CheckSpend(c, p) \/ \E x \in Transfers : VerifyPayment(c, p, x)
         \/ \E g \in Grants, k \in RequestKeys : Execute(c, g, k)
         \/ CreateMarketplacePurchase(c) \/ LookupExecution(c) \/ RequestStops(c)
  PROVE  AccessInv'
  <1>0. AccessTypeOK /\ AccessTyped /\ handler[c] \in Handling
    BY DEF AccessInv, AccessTyped, AccessTypeOK
  <1>1. PICK to : Fits(to) /\ handler' = [handler EXCEPT ![c] = to]
    <2>1. ASSUME NEW p \in Purchases, CheckSpend(c, p)
          PROVE  \E to : Fits(to) /\ handler' = [handler EXCEPT ![c] = to]
      <3>1. PICK to : to = [at |-> "insert", g |-> p, tx |-> Nothing, key |-> Nothing]
        OBVIOUS
      <3>2. Fits(to)
        BY <3>1 DEF Fits, Handling, Stages, Grants
      <3> QED
        BY <2>1, <3>1, <3>2, Moving DEF CheckSpend
    <2>2. ASSUME NEW p \in Purchases, NEW x \in Transfers, VerifyPayment(c, p, x)
          PROVE  \E to : Fits(to) /\ handler' = [handler EXCEPT ![c] = to]
      <3>1. PICK k \in RequestKeys : Starts(c, "activate", p, x, k)
        BY <2>2 DEF VerifyPayment
      <3>2. PICK to : to = [at |-> "activate", g |-> p, tx |-> x, key |-> k]
        OBVIOUS
      <3>3. Fits(to)
        BY <3>2 DEF Fits, Handling, Stages, Grants
      <3> QED
        BY <3>1, <3>2, <3>3, Moving
    <2>3. ASSUME NEW g \in Grants, NEW k \in RequestKeys, Execute(c, g, k)
          PROVE  \E to : Fits(to) /\ handler' = [handler EXCEPT ![c] = to]
      <3>1. PICK to : to = [at |-> "lookup", g |-> g, tx |-> Nothing, key |-> k]
        OBVIOUS
      <3>2. Fits(to)
        BY <3>1 DEF Fits, Handling, Stages
      <3> QED
        BY <2>3, <3>1, <3>2, Moving DEF Execute
    <2>4. ASSUME LookupExecution(c)
          PROVE  \E to : Fits(to) /\ handler' = [handler EXCEPT ![c] = to]
      <3>1. PICK to : to = [at |-> "consume", g |-> handler[c].g, tx |-> handler[c].tx, key |-> handler[c].key]
        OBVIOUS
      <3>2. Fits(to)
        BY <1>0, <2>4, <3>1 DEF Fits, Handling, Stages, AccessTyped, LookupExecution
      <3> QED
        BY <2>4, <3>1, <3>2, Moving, FreeFits DEF LookupExecution
    <2>5. ASSUME CreateMarketplacePurchase(c) \/ RequestStops(c)
          PROVE  \E to : Fits(to) /\ handler' = [handler EXCEPT ![c] = to]
      BY <2>5, Moving, FreeFits DEF CreateMarketplacePurchase, RequestStops
    <2> QED
      BY <2>1, <2>2, <2>3, <2>4, <2>5
  <1>2. to \in Handling
    BY <1>1 DEF Fits
  <1>3. /\ handler' \in [Handlers -> Handling]
        /\ \A d \in Handlers : handler'[d] = handler[d] \/ Fits(handler'[d])
    BY <1>0, <1>1, <1>2, OneMoves
  <1>4. UNCHANGED <<grant, left, held, usage, exec, credit, runs, paidBy, expired, ended, result>>
    BY DEF CheckSpend, VerifyPayment, Execute, CreateMarketplacePurchase, LookupExecution, RequestStops,
       bought, granted, used
  <1>5. UNCHANGED purchase \/ \E p \in Purchases :
             purchase[p] = "none" /\ purchase' = [purchase EXCEPT ![p] = "pending"]
    <2>1. ASSUME CreateMarketplacePurchase(c)
          PROVE  UNCHANGED purchase \/ \E p \in Purchases :
             purchase[p] = "none" /\ purchase' = [purchase EXCEPT ![p] = "pending"]
      <3>1. handler[c].g \in Purchases
        BY <1>0, <2>1 DEF CreateMarketplacePurchase, AccessTyped
      <3> QED
        BY <1>0, <2>1, <3>1 DEF CreateMarketplacePurchase, AccessTypeOK
    <2> QED
      BY <2>1 DEF CheckSpend, VerifyPayment, Execute, LookupExecution, RequestStops, bought
  <1> QED
    BY <1>0, <1>3, <1>4, <1>5, HandlersMove DEF AccessTypeOK

LEMMA NextAccess == AccessInv /\ [AccessNext]_aavars => AccessInv'
  <1> SUFFICES ASSUME AccessInv, [AccessNext]_aavars PROVE AccessInv'
    OBVIOUS
  <1>0. AccessTypeOK /\ handler \in [Handlers -> Handling]
    BY DEF AccessInv, AccessTyped, AccessTypeOK
  <1>1. ASSUME NEW p \in Purchases, CreateAccessQuote(p) PROVE AccessInv'
    <2>1. UNCHANGED <<grant, left, held, usage, exec, credit, runs, paidBy, expired, ended, result, handler>>
      BY <1>1 DEF CreateAccessQuote, granted, used
    <2> QED
      BY <1>0, <1>1, <2>1, HandlersMove DEF CreateAccessQuote, AccessTypeOK
  <1>2. ASSUME NEW g \in Grants, TimePasses(g) PROVE AccessInv'
    <2>1. UNCHANGED <<grant, left, held, usage, exec, credit, runs, paidBy, purchase, result, handler>>
      BY <1>2 DEF TimePasses, used
    <2>2. expired' \subseteq Purchases /\ ended' \subseteq Grants
      BY <1>0, <1>2 DEF TimePasses, AccessTypeOK
    <2> QED
      BY <1>0, <2>1, <2>2, HandlersMove DEF AccessTypeOK
  <1>3. CASE UNCHANGED aavars
    <2>1. UNCHANGED <<grant, left, held, usage, exec, credit, runs, paidBy, purchase, expired, ended,
                      result, handler>>
      BY <1>3 DEF aavars
    <2> QED
      BY <1>0, <2>1, HandlersMove DEF AccessTypeOK
  <1> QED
    BY <1>1, <1>2, <1>3, ConsumeUsageKeeps, RequestsKeep, ActivateKeeps, ConsumeExecutionKeeps,
       PromoteExecutionKeeps, RecordExecutionKeeps DEF AccessNext

LEMMA AccessInvImplies == AccessInv => UseIsPaidOnce
  <1> SUFFICES ASSUME AccessInv PROVE UseIsPaidOnce
    OBVIOUS
  <1> QED
    BY DEF AccessInv, AccessTyped, RunsOnce, GrantsAreBought, QuotaIsKept, OneTransferEach, CreditIsKept,
       UseIsPaidOnce

(* What is used of a grant was bought by one transfer of its own, what is  *)
(* left and what was used make the quota of its plan, the risk credit used *)
(* is what ran on it, and a key runs at a provider at most once, charged.  *)
THEOREM UsesArePaidOnce == AccessSpec => []UseIsPaidOnce
  BY InitAccess, NextAccess, AccessInvImplies, PTL DEF AccessSpec

-----------------------------------------------------------------------------
(* GiftCardOrder: one worker at most ever buys an order, because the claim *)
(* of its execution comes before the request and no step makes an          *)
(* execution claimable again.  While it buys, nobody has reported anything *)
(* of the order: every other report needs the reference that the buyer     *)
(* writes.  So a refusal finds the money still locked, and every report    *)
(* after it is decided by the row under its lock.                          *)
Unbought(o) == payment[o] \in {"none", "pending"}
Buyer(w, o) == task[w].o = o /\ \/ task[w].at = "post"
                                \/ task[w].at = "apply" /\ task[w].ref = "none"

PurchaseSound(o) ==
    /\ event[o] # "none" => order[o] # "none"
    /\ order[o] = "none" => payment[o] = "none"
    /\ Unbought(o) => posts[o] = 0 /\ o \notin onWire
    /\ posts[o] = 0 \/ (posts[o] = 1 /\ o \notin onWire)
    /\ posts[o] = 0 => inv[o] = "none"
    /\ "capture" \in ledger[o] => inv[o] # "none"

OnchainSound(o) ==
    /\ ref[o] \in {"none", "tx"} /\ ledger[o] = {}
    /\ event[o] # "none" => ref[o] = "tx"

WalletSound(o) ==
    /\ order[o] \notin {"awaiting_funding", "funding_seen"} /\ ref[o] \in {"none", "own"}
    /\ order[o] = "none" => ledger[o] = {}
    /\ order[o] # "none" => "lock" \in ledger[o]
    /\ order[o] = "delivered" => "capture" \in ledger[o]
    /\ "capture" \in ledger[o] => order[o] = "delivered" \/ "credit" \in ledger[o]
    /\ "credit" \in ledger[o] => "capture" \in ledger[o] /\ "release" \notin ledger[o]
    /\ order[o] = "failed" => ledger[o] = {"lock", "release"}
    /\ ref[o] = "none" => "capture" \notin ledger[o]
    /\ ref[o] = "none" => order[o] \in {"none", "funds_locked", "provider_unknown", "failed"}
    /\ ref[o] = "none" /\ "release" \in ledger[o] => order[o] = "failed"
    /\ Unbought(o) => ref[o] = "none" /\ order[o] # "failed"

OrderSound(o) == /\ PurchaseSound(o)
                 /\ o \in Onchain => OnchainSound(o)
                 /\ o \notin Onchain => WalletSound(o)

WorkerSound(w) ==
    task[w].at # "idle" =>
      /\ task[w].o \in Orders
      /\ \A o \in Orders : task[w].o = o =>
           /\ order[o] # "none"
           /\ task[w].ref # "none" => ref[o] = task[w].ref
           /\ o \in Onchain => /\ ref[o] = "tx" /\ task[w].at \notin {"post", "apply"}
                               /\ task[w].at # "claimed" => task[w].ref = "tx"
           /\ task[w].at = "post" => task[w].ref = "none" /\ posts[o] = 0 /\ o \notin onWire
           /\ task[w].at = "apply" /\ task[w].ans = "error" => task[w].ref = "none"
           /\ Buyer(w, o) => ~Unbought(o) /\ ref[o] = "none" /\ order[o] # "failed"
           /\ task[w].at = "apply" /\ task[w].ans = "delivered" => inv[o] # "none"

OneBuyer ==
    \A v, w \in Workers, o \in Orders : Buyer(v, o) /\ Buyer(w, o) => v = w

GiftInv == /\ GiftTypeOK /\ OneBuyer /\ WalletAddsUp
           /\ \A o \in Orders : OrderSound(o)
           /\ \A w \in Workers : WorkerSound(w)

-----------------------------------------------------------------------------
(* What is typed apart from the two amounts, which WalletAddsUp bounds.    *)
RowsTyped ==
    /\ order \in [Orders -> OrderStatus] /\ ref \in [Orders -> {"none", "own", "tx"}]
    /\ ledger \in [Orders -> SUBSET {"lock", "capture", "release", "credit"}]
    /\ payment \in [Orders -> ExecStatus] /\ intent \in [Orders -> IntentStatus]
    /\ event \in [Orders -> {"none", "pending", "processing", "retry_wait", "processed"}]
    /\ calls \subseteq Onchain \X {"pending", "confirmed", "rejected"}
    /\ task \in [Workers -> WorkerTask] /\ onWire \subseteq Orders
    /\ inv \in [Orders -> {"none", "open", "delivered", "failed", "refunded", "returned", "denied"}]
    /\ posts \in [Orders -> Nat]

(* What a step must leave to a worker v at the order p: the order and its  *)
(* reference, and while v buys, the purchase that is to be made.           *)
LeavesTo(v, p) ==
    /\ order[p] # "none" => order'[p] # "none"
    /\ ref[p] # "none" => ref'[p] = ref[p]
    /\ Buyer(v, p) => /\ ref'[p] = ref[p] /\ order'[p] # "failed"
                      /\ payment'[p] \notin {"none", "pending"}
    /\ task[v].at = "post" => posts'[p] = posts[p] /\ (p \in onWire' => p \in onWire)
    /\ inv[p] # "none" => inv'[p] # "none"

LEMMA OthersStaySound ==
  ASSUME NEW v \in Workers, WorkerSound(v), task'[v] = task[v],
         \A p \in Orders : task[v].o = p => LeavesTo(v, p)
  PROVE  WorkerSound(v)'
BY DEF LeavesTo, WorkerSound, Buyer, Unbought

(* Two workers never buy one order if the one that steps begins to buy     *)
(* only what nobody buys.                                                  *)
LEMMA BuyerStaysAlone ==
  ASSUME NEW w \in Workers, OneBuyer, NEW t,
         task \in [Workers -> WorkerTask], task' = [task EXCEPT ![w] = t],
         \A o \in Orders : Buyer(w, o)' => Buyer(w, o) \/ \A v \in Workers : ~Buyer(v, o)
  PROVE  OneBuyer'
<1>1. \A v \in Workers, o \in Orders : v # w => (Buyer(v, o)' <=> Buyer(v, o))
  BY DEF Buyer
<1> QED BY <1>1 DEF OneBuyer

(* A row that a step leaves alone stays sound.                             *)
LEMMA RowStaysSound ==
  ASSUME NEW o \in Orders, OrderSound(o), order'[o] = order[o], ref'[o] = ref[o],
         ledger'[o] = ledger[o], payment'[o] = payment[o], event'[o] = event[o],
         posts'[o] = posts[o], inv'[o] = inv[o], o \in onWire' <=> o \in onWire
  PROVE  OrderSound(o)'
BY DEF OrderSound, PurchaseSound, OnchainSound, WalletSound, Unbought

LEMMA BooksFromSum ==
  ASSUME RowsTyped', WalletAddsUp', avail' \in Nat, locked' \in Nat
  PROVE  GiftTypeOK'
<1> DEFINE S == {o \in Orders : Captured(o) /\ "credit" \notin ledger[o]}'
<1>1. Cardinality(S) \in Nat
  BY GiftAssumption, FS_Subset, FS_CardinalityType
<1>2. avail' + locked' + Cardinality(S) = Funds
  BY DEF WalletAddsUp
<1> HIDE DEF S
<1>3. avail' \in 0..Funds /\ locked' \in 0..Funds
  BY <1>1, <1>2, GiftAssumption
<1> QED BY <1>3 DEF GiftTypeOK, RowsTyped

LEMMA InitGift == GiftInit => GiftInv
<1> SUFFICES ASSUME GiftInit PROVE GiftInv
  OBVIOUS
<1>1. IdleWorker \in WorkerTask
  BY DEF IdleWorker, WorkerTask, WorkerSteps, ProviderAnswers
<1>2. {o \in Orders : Captured(o) /\ "credit" \notin ledger[o]} = {}
  BY DEF GiftInit, Captured
<1>3. WalletAddsUp
  BY <1>2, FS_EmptySet, GiftAssumption DEF WalletAddsUp, GiftInit
<1>4. GiftTypeOK
  BY <1>1, GiftAssumption DEF GiftInit, GiftTypeOK, OrderStatus, ExecStatus, IntentStatus
<1>5. OneBuyer
  BY DEF GiftInit, OneBuyer, Buyer, IdleWorker
<1>6. \A o \in Orders : OrderSound(o)
  BY DEF GiftInit, OrderSound, PurchaseSound, OnchainSound, WalletSound, Unbought
<1>7. \A w \in Workers : WorkerSound(w)
  BY DEF GiftInit, WorkerSound, IdleWorker
<1> QED BY <1>3, <1>4, <1>5, <1>6, <1>7 DEF GiftInv

-----------------------------------------------------------------------------
(* Steps of a handler or of Bitrefill, outside the workers.                *)
LEMMA OutsideKeeps ==
  ASSUME GiftInv, NEW o \in Orders,
         \/ Purchase(o) \/ PurchaseOnchain(o) \/ VerifyFunding(o)
         \/ FundingPending(o) \/ FundingRejected(o) \/ FundingConfirmed(o)
         \/ PostArrives(o) \/ InvoiceEnds(o)
  PROVE  GiftInv'
<1> USE DEF GiftInv
<1>0. /\ GiftTypeOK /\ OneBuyer /\ WalletAddsUp
      /\ \A p \in Orders : OrderSound(p)
      /\ \A w \in Workers : WorkerSound(w)
  OBVIOUS
<1> USE DEF external, money
<1>t. task' = task
  BY DEF Purchase, PurchaseOnchain, VerifyFunding, FundingPending, FundingRejected,
         FundingConfirmed, PostArrives, InvoiceEnds
<1>1. RowsTyped' /\ avail' \in Nat /\ locked' \in Nat
  <2>1. CASE Purchase(o)
    BY <1>0, <2>1, GiftAssumption DEF Purchase, GiftTypeOK, RowsTyped, OrderStatus,
       ExecStatus, IntentStatus
  <2>2. CASE PurchaseOnchain(o)
    BY <1>0, <2>2 DEF PurchaseOnchain, GiftTypeOK, RowsTyped, OrderStatus, ExecStatus,
       IntentStatus
  <2>3. CASE VerifyFunding(o)
    <3>1. o \in Onchain
      BY <1>0, <2>3 DEF VerifyFunding, AwaitsFunding, OrderSound, WalletSound
    <3> QED BY <1>0, <2>3, <3>1 DEF VerifyFunding, GiftTypeOK, RowsTyped
  <2>4. CASE FundingPending(o)
    BY <1>0, <2>4 DEF FundingPending, GiftTypeOK, RowsTyped, OrderStatus, ExecStatus,
       IntentStatus
  <2>5. CASE FundingRejected(o)
    BY <1>0, <2>5 DEF FundingRejected, GiftTypeOK, RowsTyped, OrderStatus, ExecStatus,
       IntentStatus
  <2>6. CASE FundingConfirmed(o)
    BY <1>0, <2>6 DEF FundingConfirmed, Added, GiftTypeOK, RowsTyped, OrderStatus,
       ExecStatus, IntentStatus
  <2>7. CASE PostArrives(o)
    BY <1>0, <2>7 DEF PostArrives, GiftTypeOK, RowsTyped
  <2>8. CASE InvoiceEnds(o)
    BY <1>0, <2>8 DEF InvoiceEnds, GiftTypeOK, RowsTyped
  <2> QED BY <2>1, <2>2, <2>3, <2>4, <2>5, <2>6, <2>7, <2>8
<1>2. WalletAddsUp'
  <2>1. CASE Purchase(o)
    <3>1. \A p \in Orders : (Captured(p) /\ "credit" \notin ledger[p])'
                            <=> Captured(p) /\ "credit" \notin ledger[p]
      BY <1>0, <2>1 DEF Purchase, Captured, GiftTypeOK
    <3>2. avail' = avail - 1 /\ locked' = locked + 1 /\ avail \in Nat /\ locked \in Nat
      BY <1>0, <2>1 DEF Purchase, GiftTypeOK
    <3> DEFINE S == {p \in Orders : Captured(p) /\ "credit" \notin ledger[p]}
    <3>3. S' = S
      BY <3>1
    <3>4. avail + locked + Cardinality(S) = Funds
      BY <1>0 DEF WalletAddsUp
    <3>5. Cardinality(S) \in Nat
      BY GiftAssumption, FS_Subset, FS_CardinalityType
    <3> DEFINE c == Cardinality(S)
    <3>6. c \in Nat /\ avail + locked + c = Funds
      BY <3>4, <3>5
    <3>7. c' = c
      BY <3>3
    <3> HIDE DEF c
    <3>8. avail' + locked' + c = Funds
      BY <3>2, <3>6
    <3> QED BY <3>7, <3>8 DEF WalletAddsUp, c
  <2>2. CASE ~Purchase(o)
    BY <1>0, <2>2 DEF WalletAddsUp, Captured, PurchaseOnchain, VerifyFunding, FundingPending,
       FundingRejected, FundingConfirmed, PostArrives, InvoiceEnds
  <2> QED BY <2>1, <2>2
<1>3. \A p \in Orders : p # o => OrderSound(p)'
  <2> SUFFICES ASSUME NEW p \in Orders, p # o PROVE OrderSound(p)'
    OBVIOUS
  <2>1. /\ order'[p] = order[p] /\ ref'[p] = ref[p]
        /\ ledger'[p] = ledger[p] /\ payment'[p] = payment[p] /\ event'[p] = event[p]
        /\ posts'[p] = posts[p] /\ inv'[p] = inv[p] /\ (p \in onWire' <=> p \in onWire)
    BY <1>0 DEF GiftTypeOK, Purchase, PurchaseOnchain, VerifyFunding, FundingPending,
         FundingRejected, FundingConfirmed, PostArrives, InvoiceEnds
  <2> QED BY <1>0, <2>1, RowStaysSound
<1>4. OrderSound(o)'
  <2>0. /\ PurchaseSound(o) /\ (o \in Onchain => OnchainSound(o))
        /\ (o \notin Onchain => WalletSound(o))
    BY <1>0 DEF OrderSound
  <2>1. CASE Purchase(o)
    BY <1>0, <2>0, <2>1 DEF Purchase, GiftTypeOK, OrderSound, PurchaseSound, WalletSound,
       Unbought
  <2>2. CASE PurchaseOnchain(o)
    BY <1>0, <2>0, <2>2 DEF PurchaseOnchain, GiftTypeOK, OrderSound, PurchaseSound,
       OnchainSound, Unbought
  <2>3. CASE VerifyFunding(o)
    BY <1>0, <2>3, RowStaysSound DEF VerifyFunding
  <2>4. CASE FundingPending(o)
    <3>1. o \in Onchain
      BY <1>0, <2>4 DEF GiftTypeOK, FundingPending
    <3> QED BY <1>0, <2>0, <3>1, <2>4 DEF FundingPending, GiftTypeOK, OrderSound,
           PurchaseSound, OnchainSound, Unbought
  <2>5. CASE FundingRejected(o)
    <3>1. o \in Onchain
      BY <1>0, <2>5 DEF GiftTypeOK, FundingRejected
    <3> QED BY <1>0, <2>0, <3>1, <2>5 DEF FundingRejected, GiftTypeOK, OrderSound,
           PurchaseSound, OnchainSound, Unbought
  <2>6. CASE FundingConfirmed(o)
    <3>1. o \in Onchain
      BY <1>0, <2>6 DEF GiftTypeOK, FundingConfirmed
    <3> QED BY <1>0, <2>0, <3>1, <2>6 DEF FundingConfirmed, AwaitsFunding, Added, GiftTypeOK,
           OrderSound, PurchaseSound, OnchainSound, Unbought
  <2>7. CASE PostArrives(o)
    <3>1. /\ o \in onWire /\ posts[o] = 0 /\ inv[o] = "none" /\ ~Unbought(o)
      BY <2>0, <2>7 DEF PostArrives, PurchaseSound
    <3> QED BY <1>0, <2>0, <3>1, <2>7 DEF PostArrives, GiftTypeOK, OrderSound, PurchaseSound,
           OnchainSound, WalletSound, Unbought
  <2>8. CASE InvoiceEnds(o)
    <3>1. /\ inv[o] # "none" /\ (inv[o] # "none" => inv'[o] # "none")
      BY <1>0, <2>8 DEF InvoiceEnds, GiftTypeOK
    <3> QED BY <1>0, <2>0, <3>1, <2>8 DEF InvoiceEnds, GiftTypeOK, OrderSound, PurchaseSound,
           OnchainSound, WalletSound, Unbought
  <2> QED BY <2>1, <2>2, <2>3, <2>4, <2>5, <2>6, <2>7, <2>8
<1>5. OneBuyer'
  BY <1>0, <1>t DEF OneBuyer, Buyer
<1>6. ASSUME NEW v \in Workers PROVE WorkerSound(v)'
  <2>0. PurchaseSound(o)
    BY <1>0 DEF OrderSound
  <2>1. ASSUME NEW p \in Orders, task[v].o = p, p # o PROVE LeavesTo(v, p)
    BY <1>0, <2>1 DEF LeavesTo, WorkerSound, GiftTypeOK, Buyer, Unbought, Purchase,
       PurchaseOnchain, VerifyFunding, FundingPending,
         FundingRejected, FundingConfirmed, PostArrives, InvoiceEnds
  <2>2. ASSUME task[v].o = o, task[v].at # "idle" PROVE LeavesTo(v, o)
    <3>0. WorkerSound(v)
      BY <1>0
    <3>1. /\ order[o] # "none"
          /\ task[v].at = "post" => task[v].ref = "none" /\ posts[o] = 0 /\ o \notin onWire
          /\ Buyer(v, o) => payment[o] \notin {"none", "pending"} /\ ref[o] = "none" /\ order[o] # "failed" /\ o \notin Onchain
      BY <3>0, <2>2 DEF WorkerSound, Buyer, Unbought
    <3>2. ~Purchase(o) /\ ~PurchaseOnchain(o)
      BY <3>1 DEF Purchase, PurchaseOnchain
    <3>3. CASE FundingPending(o) \/ FundingRejected(o) \/ FundingConfirmed(o)
      <4>1. o \in Onchain
        BY <1>0, <3>3 DEF GiftTypeOK, FundingPending, FundingRejected, FundingConfirmed
      <4>2. OnchainSound(o)
        BY <1>0, <4>1 DEF OrderSound
      <4> QED BY <1>0, <3>1, <3>3, <4>1, <4>2 DEF LeavesTo, FundingPending, FundingRejected,
             FundingConfirmed, Added, OnchainSound, GiftTypeOK
    <3>4. CASE VerifyFunding(o)
      BY <3>1, <3>4 DEF VerifyFunding, LeavesTo
    <3>5. CASE PostArrives(o)
      <4>1. inv[o] = "none"
        BY <2>0, <3>5 DEF PostArrives, PurchaseSound
      <4> QED BY <3>1, <3>5, <4>1 DEF LeavesTo, PostArrives
    <3>6. CASE InvoiceEnds(o)
      <4>1. inv[o] # "none" => inv'[o] # "none"
        BY <1>0, <3>6 DEF InvoiceEnds, GiftTypeOK
      <4> QED BY <3>1, <3>6, <4>1 DEF LeavesTo, InvoiceEnds
    <3> QED BY <3>2, <3>3, <3>4, <3>5, <3>6
  <2>3. CASE task[v].at = "idle"
    BY <1>t, <2>3 DEF WorkerSound
  <2>4. CASE task[v].at # "idle"
    <3>1. \A p \in Orders : task[v].o = p => LeavesTo(v, p)
      BY <2>1, <2>2, <2>4
    <3> HIDE DEF GiftInv
    <3>2. WorkerSound(v) /\ task'[v] = task[v]
      BY <1>0, <1>t
    <3> QED BY <3>1, <3>2, OthersStaySound
  <2> QED BY <2>3, <2>4
<1>7. \A p \in Orders : OrderSound(p)'
  BY <1>3, <1>4
<1> QED BY <1>1, <1>2, <1>5, <1>6, <1>7, BooksFromSum

-----------------------------------------------------------------------------
(* A step of the worker w.                                                 *)
LEMMA WorkerStepKeeps ==
  ASSUME GiftInv, NEW w \in Workers, NEW t \in WorkerTask, task' = [task EXCEPT ![w] = t],
         RowsTyped', avail' \in Nat, locked' \in Nat, WalletAddsUp',
         \A p \in Orders : OrderSound(p)', WorkerSound(w)',
         \A o \in Orders : Buyer(w, o)' => Buyer(w, o) \/ \A v \in Workers : ~Buyer(v, o),
         \A v \in Workers, p \in Orders :
            v # w /\ task[v].at # "idle" /\ task[v].o = p => LeavesTo(v, p)
  PROVE  GiftInv'
<1>0. OneBuyer /\ task \in [Workers -> WorkerTask] /\ \A v \in Workers : WorkerSound(v)
  BY DEF GiftInv, GiftTypeOK
<1>1. OneBuyer'
  BY <1>0, BuyerStaysAlone
<1>2. ASSUME NEW v \in Workers PROVE WorkerSound(v)'
  <2>1. CASE v = w
    BY <2>1
  <2>2. CASE v # w /\ task[v].at = "idle"
    BY <1>0, <2>2 DEF WorkerSound
  <2>3. CASE v # w /\ task[v].at # "idle"
    <3>1. task'[v] = task[v] /\ WorkerSound(v)
      BY <1>0, <2>3
    <3>2. \A p \in Orders : task[v].o = p => LeavesTo(v, p)
      BY <2>3
    <3> QED BY <3>1, <3>2, OthersStaySound
  <2> QED BY <2>1, <2>2, <2>3
<1>3. GiftTypeOK'
  BY BooksFromSum
<1> QED BY <1>1, <1>2, <1>3 DEF GiftInv

(* Where the order w works on is, and what is known of it.                 *)
LEMMA WorkerKnows ==
  ASSUME GiftInv, NEW w \in Workers, task[w].at # "idle"
  PROVE  \E o \in Orders :
            /\ o = task[w].o
            /\ order[o] # "none"
            /\ task[w].ref # "none" => ref[o] = task[w].ref
            /\ o \in Onchain => /\ ref[o] = "tx" /\ task[w].at \notin {"post", "apply"}
                                /\ task[w].at # "claimed" => task[w].ref = "tx"
            /\ task[w].at = "post" => task[w].ref = "none" /\ posts[o] = 0 /\ o \notin onWire
            /\ task[w].at = "apply" /\ task[w].ans = "error" => task[w].ref = "none"
            /\ Buyer(w, o) => ~Unbought(o) /\ ref[o] = "none" /\ order[o] # "failed"
            /\ task[w].at = "apply" /\ task[w].ans = "delivered" => inv[o] # "none"
            /\ OrderSound(o)
BY DEF GiftInv, WorkerSound

(* No money moves.                                                         *)
LEMMA BooksStay ==
  ASSUME GiftInv, UNCHANGED money
  PROVE  avail' \in Nat /\ locked' \in Nat /\ WalletAddsUp'
BY DEF GiftInv, GiftTypeOK, money, WalletAddsUp, Captured

(* Steps that write only the task and the event.                           *)
LEMMA TaskStepKeeps ==
  ASSUME GiftInv, NEW w \in Workers, NEW t \in WorkerTask, task' = [task EXCEPT ![w] = t],
         UNCHANGED <<order, ref, money, payment, intent, calls, external>>,
         RowsTyped',
         \A o \in Orders : event'[o] # "none" =>
            order[o] # "none" /\ (o \in Onchain => ref[o] = "tx"),
         WorkerSound(w)', \A o \in Orders : ~Buyer(w, o)'
  PROVE  GiftInv'
<1>1. avail' \in Nat /\ locked' \in Nat /\ WalletAddsUp'
  BY BooksStay
<1>2. \A o \in Orders : OrderSound(o)'
  BY DEF GiftInv, money, external, OrderSound, PurchaseSound, OnchainSound, WalletSound,
     Unbought
<1>3. \A v \in Workers, p \in Orders :
            v # w /\ task[v].at # "idle" /\ task[v].o = p => LeavesTo(v, p)
  BY DEF LeavesTo, money, external, GiftInv, WorkerSound, Unbought
<1> QED BY <1>1, <1>2, <1>3, WorkerStepKeeps

LEMMA TaskStepsKeep ==
  ASSUME GiftInv, NEW w \in Workers,
         \/ LoadOrder(w) \/ GetOrder(w) \/ DeferOutbox(w) \/ MarkProcessed(w) \/ WorkerStops(w)
         \/ \E o \in Orders : ClaimOutboxEvent(w, o) \/ ReconcilePending(w, o)
  PROVE  GiftInv'
<1>0. GiftTypeOK /\ \A p \in Orders : OrderSound(p)
  BY DEF GiftInv
<1>f. IdleWorker \in WorkerTask /\ IdleWorker.at = "idle"
  BY DEF IdleWorker, WorkerTask, WorkerSteps, ProviderAnswers
<1>1. CASE LoadOrder(w)
  <2>1. task[w].at = "claimed"
    BY <1>1 DEF LoadOrder, At
  <2>2. PICK o \in Orders : o = task[w].o /\ order[o] # "none" /\ (o \in Onchain => ref[o] = "tx")
    BY <2>1, WorkerKnows
  <2> DEFINE s == IF order[o] \in {"delivered", "failed"} THEN "close"
                  ELSE IF order[o] = "provider_unknown" /\ ref[o] = "none" THEN "review"
                  ELSE "claim"
             t == [task[w] EXCEPT !.ref = ref[o], !.at = s]
  <2>3. task' = [task EXCEPT ![w] = t]
    BY <1>0, <1>1, <2>2 DEF LoadOrder, Order, GiftTypeOK
  <2>4. /\ t \in WorkerTask /\ t.ref = ref[o] /\ t.o = o /\ t.at \in {"close", "review", "claim"}
    <3>1. task[w] \in WorkerTask /\ s \in WorkerSteps /\ ref[o] \in {"none", "own", "tx"}
      BY <1>0 DEF GiftTypeOK, WorkerSteps
    <3>2. s \in {"close", "review", "claim"}
      OBVIOUS
    <3> HIDE DEF s
    <3> QED BY <2>2, <3>1, <3>2 DEF WorkerTask
  <2> HIDE DEF t
  <2>5. UNCHANGED <<order, ref, money, payment, intent, calls, external>> /\ event' = event
    BY <1>1 DEF LoadOrder
  <2>6. RowsTyped'
    BY <1>0, <2>3, <2>4, <2>5 DEF GiftTypeOK, RowsTyped, money, external
  <2>7. WorkerSound(w)'
    BY <1>0, <2>2, <2>3, <2>4, <2>5 DEF WorkerSound, Buyer, money, external, GiftTypeOK
  <2>8. \A p \in Orders : ~Buyer(w, p)'
    BY <1>0, <2>3, <2>4 DEF Buyer, GiftTypeOK
  <2>9. \A p \in Orders : event'[p] # "none" =>
            order[p] # "none" /\ (p \in Onchain => ref[p] = "tx")
    BY <1>0, <2>5 DEF OrderSound, PurchaseSound, OnchainSound
  <2> QED BY <2>3, <2>4, <2>5, <2>6, <2>7, <2>8, <2>9, TaskStepKeeps
<1>2. CASE GetOrder(w)
  <2>1. task[w].at = "get"
    BY <1>2 DEF GetOrder, At
  <2>2. PICK o \in Orders : /\ o = task[w].o /\ order[o] # "none" /\ (o \in Onchain => ref[o] = "tx")
                            /\ o \in Onchain => task[w].ref = "tx"
                            /\ task[w].ref # "none" => ref[o] = task[w].ref
    BY <2>1, WorkerKnows
  <2>3. PICK t \in WorkerTask :
           /\ task' = [task EXCEPT ![w] = t] /\ t.o = o /\ t.ref = task[w].ref
           /\ \/ /\ t.at = "apply" /\ task[w].ref = "own" /\ t.ans # "error"
                 /\ t.ans = "delivered" => inv[o] # "none"
              \/ t.at \in {"unknown", "close"}
    <3>1. CASE task[w].ref = "own" /\ \E ans \in Reading(inv[o]) : Heard(w, ans)
      <4>1. PICK ans \in Reading(inv[o]) : Heard(w, ans)
        BY <3>1
      <4>2. /\ ans \in {"delivered", "purchasing", "failed", "refunded"}
            /\ ans = "delivered" => inv[o] # "none"
        BY <1>0 DEF Reading, Told, GiftTypeOK
      <4> DEFINE t == [task[w] EXCEPT !.ans = ans, !.at = "apply"]
      <4>3. task' = [task EXCEPT ![w] = t]
        BY <1>0, <4>1 DEF Heard, GiftTypeOK
      <4>4. /\ t \in WorkerTask /\ t.ref = task[w].ref /\ t.o = o /\ t.at = "apply" /\ t.ans = ans
        <5>1. task[w] \in WorkerTask /\ ans \in ProviderAnswers /\ "apply" \in WorkerSteps
          BY <1>0, <4>2 DEF GiftTypeOK, ProviderAnswers, WorkerSteps
        <5> QED BY <2>2, <5>1 DEF WorkerTask
      <4> HIDE DEF t
      <4> QED BY <3>1, <4>2, <4>3, <4>4
    <3>2. CASE StepsTo(w, IF task[w].by = "loop" THEN "unknown" ELSE "close")
      <4> DEFINE t == [task[w] EXCEPT !.at = IF task[w].by = "loop" THEN "unknown" ELSE "close"]
      <4>1. task' = [task EXCEPT ![w] = t]
        BY <1>0, <3>2 DEF StepsTo, GiftTypeOK
      <4>2. /\ t \in WorkerTask /\ t.ref = task[w].ref /\ t.o = o /\ t.at \in {"unknown", "close"}
        BY <1>0, <2>2 DEF GiftTypeOK, WorkerTask, WorkerSteps
      <4> HIDE DEF t
      <4> QED BY <4>1, <4>2
    <3> QED BY <1>2, <2>2, <3>1, <3>2 DEF GetOrder, Order
  <2>5. UNCHANGED <<order, ref, money, payment, intent, calls, external>> /\ event' = event
    BY <1>2 DEF GetOrder
  <2>6. RowsTyped'
    BY <1>0, <1>2, <2>3 DEF GiftTypeOK, RowsTyped, GetOrder, money, external
  <2>7. WorkerSound(w)'
    BY <1>0, <2>2, <2>3, <2>5 DEF WorkerSound, Buyer, money, external, GiftTypeOK
  <2>8. \A p \in Orders : ~Buyer(w, p)'
    BY <1>0, <2>3 DEF Buyer, GiftTypeOK
  <2>9. \A p \in Orders : event'[p] # "none" =>
            order[p] # "none" /\ (p \in Onchain => ref[p] = "tx")
    BY <1>0, <2>5 DEF OrderSound, PurchaseSound, OnchainSound
  <2> QED BY <2>3, <2>5, <2>6, <2>7, <2>8, <2>9, TaskStepKeeps
<1>3. CASE DeferOutbox(w) \/ MarkProcessed(w)
  <2>1. task[w].at # "idle" /\ task' = [task EXCEPT ![w] = IdleWorker]
    BY <1>3 DEF DeferOutbox, MarkProcessed, At, WorkerFree
  <2>2. PICK o \in Orders : o = task[w].o /\ order[o] # "none" /\ (o \in Onchain => ref[o] = "tx")
    BY <2>1, WorkerKnows
  <2>5. UNCHANGED <<order, ref, money, payment, intent, calls, external>>
    BY <1>3 DEF DeferOutbox, MarkProcessed
  <2>6. RowsTyped'
    BY <1>0, <1>3, <1>f, <2>1 DEF GiftTypeOK, RowsTyped, DeferOutbox, MarkProcessed, money,
       external
  <2>7. WorkerSound(w)'
    BY <1>0, <1>f, <2>1 DEF WorkerSound, GiftTypeOK
  <2>8. \A p \in Orders : ~Buyer(w, p)'
    BY <1>0, <1>f, <2>1 DEF Buyer, GiftTypeOK
  <2>9. \A p \in Orders : event'[p] # "none" =>
            order[p] # "none" /\ (p \in Onchain => ref[p] = "tx")
    BY <1>0, <1>3, <2>2 DEF OrderSound, PurchaseSound, OnchainSound, DeferOutbox, MarkProcessed,
       Order, GiftTypeOK
  <2> QED BY <1>f, <2>1, <2>5, <2>6, <2>7, <2>8, <2>9, TaskStepKeeps
<1>4. CASE WorkerStops(w)
  <2>1. task' = [task EXCEPT ![w] = IdleWorker]
    BY <1>4 DEF WorkerStops, WorkerFree
  <2>5. UNCHANGED <<order, ref, money, payment, intent, calls, external>> /\ event' = event
    BY <1>4 DEF WorkerStops
  <2>6. RowsTyped'
    BY <1>0, <1>4, <1>f, <2>1 DEF GiftTypeOK, RowsTyped, WorkerStops, money, external
  <2>7. WorkerSound(w)'
    BY <1>0, <1>f, <2>1 DEF WorkerSound, GiftTypeOK
  <2>8. \A p \in Orders : ~Buyer(w, p)'
    BY <1>0, <1>f, <2>1 DEF Buyer, GiftTypeOK
  <2>9. \A p \in Orders : event'[p] # "none" =>
            order[p] # "none" /\ (p \in Onchain => ref[p] = "tx")
    BY <1>0, <2>5 DEF OrderSound, PurchaseSound, OnchainSound
  <2> QED BY <1>f, <2>1, <2>5, <2>6, <2>7, <2>8, <2>9, TaskStepKeeps
<1>5. ASSUME NEW o \in Orders, ClaimOutboxEvent(w, o) PROVE GiftInv'
  <2> DEFINE t == [IdleWorker EXCEPT !.at = "claimed", !.o = o]
  <2>1. task' = [task EXCEPT ![w] = t]
    BY <1>5 DEF ClaimOutboxEvent
  <2>2. event[o] # "none" /\ order[o] # "none" /\ (o \in Onchain => ref[o] = "tx")
    BY <1>0, <1>5 DEF OrderSound, PurchaseSound, OnchainSound, ClaimOutboxEvent
  <2>4. t \in WorkerTask /\ t.o = o /\ t.at = "claimed" /\ t.ref = "none"
    BY DEF IdleWorker, WorkerTask, WorkerSteps, ProviderAnswers
  <2> HIDE DEF t
  <2>5. UNCHANGED <<order, ref, money, payment, intent, calls, external>>
    BY <1>5 DEF ClaimOutboxEvent
  <2>e. event' = [event EXCEPT ![o] = "processing"]
    BY <1>5 DEF ClaimOutboxEvent
  <2>6. RowsTyped'
    BY <1>0, <2>1, <2>4, <2>5, <2>e DEF GiftTypeOK, RowsTyped, money, external
  <2>7. WorkerSound(w)'
    BY <1>0, <2>1, <2>2, <2>4, <2>5 DEF WorkerSound, GiftTypeOK, Buyer, money, external
  <2>8. \A p \in Orders : ~Buyer(w, p)'
    BY <1>0, <2>1, <2>4 DEF Buyer, GiftTypeOK
  <2>9. \A p \in Orders : event'[p] # "none" =>
            order[p] # "none" /\ (p \in Onchain => ref[p] = "tx")
    BY <1>0, <1>5, <2>2 DEF OrderSound, PurchaseSound, OnchainSound, ClaimOutboxEvent,
       GiftTypeOK
  <2> QED BY <2>1, <2>4, <2>5, <2>6, <2>7, <2>8, <2>9, TaskStepKeeps
<1>6. ASSUME NEW o \in Orders, ReconcilePending(w, o) PROVE GiftInv'
  <2> DEFINE t == [IdleWorker EXCEPT !.at = "get", !.o = o, !.ref = ref[o], !.by = "loop"]
  <2>1. task' = [task EXCEPT ![w] = t]
    BY <1>6 DEF ReconcilePending
  <2>2. order[o] # "none" /\ ref[o] # "none" /\ (o \in Onchain => ref[o] = "tx")
    BY <1>0, <1>6 DEF OrderSound, OnchainSound, ReconcilePending, GiftTypeOK
  <2>4. t \in WorkerTask /\ t.o = o /\ t.at = "get" /\ t.ref = ref[o]
    BY <1>0 DEF IdleWorker, WorkerTask, WorkerSteps, ProviderAnswers, GiftTypeOK
  <2> HIDE DEF t
  <2>5. UNCHANGED <<order, ref, money, payment, intent, calls, external>> /\ event' = event
    BY <1>6 DEF ReconcilePending
  <2>6. RowsTyped'
    BY <1>0, <2>1, <2>4, <2>5 DEF GiftTypeOK, RowsTyped, money, external
  <2>7. WorkerSound(w)'
    BY <1>0, <2>1, <2>2, <2>4, <2>5 DEF WorkerSound, GiftTypeOK, Buyer, money, external
  <2>8. \A p \in Orders : ~Buyer(w, p)'
    BY <1>0, <2>1, <2>4 DEF Buyer, GiftTypeOK
  <2>9. \A p \in Orders : event'[p] # "none" =>
            order[p] # "none" /\ (p \in Onchain => ref[p] = "tx")
    BY <1>0, <2>5 DEF OrderSound, PurchaseSound, OnchainSound
  <2> QED BY <2>1, <2>4, <2>5, <2>6, <2>7, <2>8, <2>9, TaskStepKeeps
<1> QED BY <1>1, <1>2, <1>3, <1>4, <1>5, <1>6

-----------------------------------------------------------------------------
(* Steps that write the order w works on: what w leaves to the others.     *)
LEMMA RowStepKeeps ==
  ASSUME GiftInv, NEW w \in Workers, NEW t \in WorkerTask, task' = [task EXCEPT ![w] = t],
         task[w].at # "idle", NEW o \in Orders, o = task[w].o,
         RowsTyped', avail' \in Nat, locked' \in Nat, WalletAddsUp',
         \A p \in Orders \ {o} :
            /\ order'[p] = order[p] /\ ref'[p] = ref[p] /\ ledger'[p] = ledger[p]
            /\ payment'[p] = payment[p] /\ event'[p] = event[p] /\ posts'[p] = posts[p]
            /\ inv'[p] = inv[p] /\ (p \in onWire' <=> p \in onWire),
         OrderSound(o)', WorkerSound(w)',
         Buyer(w, o)' => Buyer(w, o) \/ \A v \in Workers : ~Buyer(v, o),
         t.at # "idle" => t.o = o,
         \A v \in Workers : v # w /\ task[v].at # "idle" /\ task[v].o = o => LeavesTo(v, o)
  PROVE  GiftInv'
<1>0. GiftTypeOK /\ (\A p \in Orders : OrderSound(p)) /\ \A v \in Workers : WorkerSound(v)
  BY DEF GiftInv
<1>1. \A p \in Orders : OrderSound(p)'
  BY <1>0, RowStaysSound
<1>2. \A p \in Orders : Buyer(w, p)' => Buyer(w, p) \/ \A v \in Workers : ~Buyer(v, p)
  BY <1>0 DEF Buyer, GiftTypeOK
<1>3. ASSUME NEW v \in Workers, NEW p \in Orders,
             v # w, task[v].at # "idle", task[v].o = p
      PROVE  LeavesTo(v, p)
  <2>1. CASE p = o
    BY <1>3, <2>1
  <2>2. CASE p # o
    <3>1. WorkerSound(v)
      BY <1>0
    <3>2. Buyer(v, p) => payment[p] \notin {"none", "pending"} /\ order[p] # "failed"
      BY <1>3, <3>1 DEF WorkerSound, Unbought
    <3> QED BY <2>2, <3>2 DEF LeavesTo
  <2> QED BY <2>1, <2>2
<1> QED BY <1>1, <1>2, <1>3, WorkerStepKeeps

(* A step to a later point of the handling: order and snapshot are kept.   *)
LEMMA StepsToIs ==
  ASSUME GiftTypeOK, NEW w \in Workers, NEW s \in WorkerSteps, StepsTo(w, s)
  PROVE  \E t \in WorkerTask : /\ task' = [task EXCEPT ![w] = t] /\ t.at = s
                               /\ t.o = task[w].o /\ t.ref = task[w].ref /\ t.ans = task[w].ans
<1> DEFINE t == [task[w] EXCEPT !.at = s]
<1>1. task[w] \in WorkerTask
  BY DEF GiftTypeOK
<1>2. t \in WorkerTask /\ t.at = s /\ t.o = task[w].o /\ t.ref = task[w].ref /\ t.ans = task[w].ans
  BY <1>1 DEF WorkerTask
<1>3. task' = [task EXCEPT ![w] = t]
  BY DEF StepsTo, GiftTypeOK
<1> HIDE DEF t
<1> QED BY <1>2, <1>3

(* The order is sound when a step writes only its execution, and not back  *)
(* to one that can be bought; the others may go on.                        *)
LEMMA PaymentStepKeeps ==
  ASSUME GiftInv, NEW w \in Workers, NEW t \in WorkerTask, task' = [task EXCEPT ![w] = t],
         task[w].at # "idle", NEW o \in Orders, o = task[w].o,
         UNCHANGED <<order, ref, money, event, calls, external>>,
         payment' \in [Orders -> ExecStatus], intent' \in [Orders -> IntentStatus],
         \A p \in Orders \ {o} : payment'[p] = payment[p],
         payment'[o] = payment[o] \/ payment'[o] \notin {"none", "pending"},
         t.o = o, t.ref = task[w].ref, t.at \notin {"idle", "claimed", "apply"},
         t.at = "post" => /\ o \notin Onchain /\ t.ref = "none" /\ Unbought(o)
                          /\ payment'[o] \notin {"none", "pending"},
         task[w].at # "claimed"
  PROVE  GiftInv'
<1>0. GiftTypeOK /\ (\A p \in Orders : OrderSound(p)) /\ \A v \in Workers : WorkerSound(v)
  BY DEF GiftInv
<1>u. /\ order' = order /\ ref' = ref /\ ledger' = ledger /\ event' = event /\ calls' = calls
      /\ inv' = inv /\ posts' = posts /\ onWire' = onWire
  BY DEF money, external
<1>1. RowsTyped'
  BY <1>0, <1>u DEF GiftTypeOK, RowsTyped
<1>2. avail' \in Nat /\ locked' \in Nat /\ WalletAddsUp'
  BY BooksStay
<1>3. /\ order[o] # "none"
      /\ task[w].ref # "none" => ref[o] = task[w].ref
      /\ o \in Onchain => ref[o] = "tx" /\ task[w].ref = "tx"
      /\ OrderSound(o)
  <2>1. PICK q \in Orders : /\ q = task[w].o /\ order[q] # "none" /\ OrderSound(q)
                            /\ task[w].ref # "none" => ref[q] = task[w].ref
                            /\ q \in Onchain => ref[q] = "tx"
                            /\ q \in Onchain => task[w].ref = "tx"
    BY WorkerKnows
  <2> QED BY <2>1
<1>4. OrderSound(o)'
  BY <1>3, <1>u DEF OrderSound, PurchaseSound, OnchainSound, WalletSound, Unbought
<1>5. t.at = "post" => /\ ref[o] = "none" /\ order[o] # "failed" /\ posts[o] = 0 /\ o \notin onWire
                       /\ \A v \in Workers : ~Buyer(v, o)
  BY <1>0, <1>3 DEF OrderSound, PurchaseSound, WalletSound, WorkerSound, Buyer
<1>6. WorkerSound(w)'
  BY <1>0, <1>3, <1>5, <1>u DEF WorkerSound, GiftTypeOK, Buyer, Unbought
<1>7. Buyer(w, o)' => Buyer(w, o) \/ \A v \in Workers : ~Buyer(v, o)
  BY <1>0, <1>5 DEF Buyer, GiftTypeOK
<1>8. \A v \in Workers : v # w /\ task[v].at # "idle" /\ task[v].o = o => LeavesTo(v, o)
  BY <1>0, <1>u DEF LeavesTo, WorkerSound, Unbought
<1> QED BY <1>1, <1>2, <1>4, <1>6, <1>7, <1>8, <1>u, RowStepKeeps

LEMMA PaymentStepsKeep ==
  ASSUME GiftInv, NEW w \in Workers,
         ManualReview(w) \/ ClaimExecution(w) \/ MarkExecutionUnknown(w)
  PROVE  GiftInv'
<1>0. GiftTypeOK
  BY DEF GiftInv
<1>1. CASE ManualReview(w)
  <2>1. task[w].at = "review" /\ StepsTo(w, "close")
    BY <1>1 DEF ManualReview, At
  <2>2. PICK o \in Orders : o = task[w].o
    BY <2>1, WorkerKnows
  <2>3. PICK t \in WorkerTask : /\ task' = [task EXCEPT ![w] = t] /\ t.at = "close"
                                /\ t.o = task[w].o /\ t.ref = task[w].ref
    BY <1>0, <2>1, StepsToIs DEF WorkerSteps
  <2>4. /\ UNCHANGED <<order, ref, money, event, calls, external>>
        /\ payment' = Unless(payment, o, {"completed", "failed"}, "manual_review")
        /\ intent' = Unless(intent, o, {"completed", "refunded"}, "manual_review")
    BY <1>1, <2>2 DEF ManualReview, Order
  <2>5. /\ payment' \in [Orders -> ExecStatus] /\ intent' \in [Orders -> IntentStatus]
        /\ \A p \in Orders \ {o} : payment'[p] = payment[p]
        /\ payment'[o] \notin {"none", "pending"}
    BY <1>0, <2>4 DEF GiftTypeOK, Unless, ExecStatus, IntentStatus
  <2> QED BY <2>1, <2>2, <2>3, <2>4, <2>5, PaymentStepKeeps
<1>2. CASE ClaimExecution(w)
  <2>1. task[w].at = "claim"
    BY <1>2 DEF ClaimExecution, At
  <2>2. PICK o \in Orders : o = task[w].o /\ (o \in Onchain => task[w].ref = "tx")
    BY <2>1, WorkerKnows
  <2>4. UNCHANGED <<order, ref, money, event, calls, external>>
    BY <1>2 DEF ClaimExecution
  <2>5. CASE Runnable(o)
    <3> DEFINE s == IF task[w].ref = "none" THEN "post" ELSE "get"
    <3>1. /\ StepsTo(w, s) /\ payment' = [payment EXCEPT ![o] = "processing"]
          /\ intent' = IF intent[o] \in {"reserved", "processing", "provider_pending"}
                       THEN [intent EXCEPT ![o] = "processing"] ELSE intent
      BY <1>2, <2>2, <2>5 DEF ClaimExecution, Order
    <3>2. s \in WorkerSteps /\ s \in {"post", "get"} /\ (s = "post" => task[w].ref = "none")
      BY DEF WorkerSteps
    <3> HIDE DEF s
    <3>3. PICK t \in WorkerTask : /\ task' = [task EXCEPT ![w] = t] /\ t.at = s
                                  /\ t.o = task[w].o /\ t.ref = task[w].ref
      BY <1>0, <3>1, <3>2, StepsToIs
    <3>4. /\ payment' \in [Orders -> ExecStatus] /\ intent' \in [Orders -> IntentStatus]
          /\ \A p \in Orders \ {o} : payment'[p] = payment[p]
          /\ payment'[o] \notin {"none", "pending"}
      BY <1>0, <3>1 DEF GiftTypeOK, ExecStatus, IntentStatus
    <3>5. t.at = "post" => o \notin Onchain /\ t.ref = "none" /\ Unbought(o)
      BY <2>2, <2>5, <3>2, <3>3 DEF Runnable, Unbought
    <3> QED BY <2>1, <2>2, <2>4, <3>2, <3>3, <3>4, <3>5, PaymentStepKeeps
  <2>6. CASE ~Runnable(o)
    <3>1. StepsTo(w, "defer") /\ payment' = payment /\ intent' = intent
      BY <1>2, <2>2, <2>6 DEF ClaimExecution, Order
    <3>3. PICK t \in WorkerTask : /\ task' = [task EXCEPT ![w] = t] /\ t.at = "defer"
                                  /\ t.o = task[w].o /\ t.ref = task[w].ref
      BY <1>0, <3>1, StepsToIs DEF WorkerSteps
    <3>4. payment' \in [Orders -> ExecStatus] /\ intent' \in [Orders -> IntentStatus]
      BY <1>0, <3>1 DEF GiftTypeOK
    <3> QED BY <2>1, <2>2, <2>4, <3>1, <3>3, <3>4, PaymentStepKeeps
  <2> QED BY <2>5, <2>6
<1>3. CASE MarkExecutionUnknown(w)
  <2>1. task[w].at = "exec_unknown" /\ StepsTo(w, "defer")
    BY <1>3 DEF MarkExecutionUnknown, At
  <2>2. PICK o \in Orders : o = task[w].o
    BY <2>1, WorkerKnows
  <2>3. PICK t \in WorkerTask : /\ task' = [task EXCEPT ![w] = t] /\ t.at = "defer"
                                /\ t.o = task[w].o /\ t.ref = task[w].ref
    BY <1>0, <2>1, StepsToIs DEF WorkerSteps
  <2>4. /\ UNCHANGED <<order, ref, money, event, calls, external>> /\ intent' = intent
        /\ payment' = payment \/ payment' = [payment EXCEPT ![o] = "provider_unknown"]
    BY <1>3, <2>2 DEF MarkExecutionUnknown, Order
  <2>5. /\ payment' \in [Orders -> ExecStatus] /\ intent' \in [Orders -> IntentStatus]
        /\ \A p \in Orders \ {o} : payment'[p] = payment[p]
        /\ payment'[o] = payment[o] \/ payment'[o] \notin {"none", "pending"}
    BY <1>0, <2>4 DEF GiftTypeOK, ExecStatus, IntentStatus
  <2> QED BY <2>1, <2>2, <2>3, <2>4, <2>5, PaymentStepKeeps
<1> QED BY <1>1, <1>2, <1>3

LEMMA MarkOrderUnknownKeeps ==
  ASSUME GiftInv, NEW w \in Workers, MarkOrderUnknown(w)
  PROVE  GiftInv'
<1>0. GiftTypeOK /\ (\A p \in Orders : OrderSound(p)) /\ \A v \in Workers : WorkerSound(v)
  BY DEF GiftInv
<1>1. task[w].at = "unknown"
  BY DEF MarkOrderUnknown, At
<1>2. PICK o \in Orders : /\ o = task[w].o /\ order[o] # "none" /\ OrderSound(o)
                          /\ task[w].ref # "none" => ref[o] = task[w].ref
                          /\ o \in Onchain => ref[o] = "tx" /\ task[w].ref = "tx"
  BY <1>1, WorkerKnows
<1>3. PICK t \in WorkerTask : /\ task' = [task EXCEPT ![w] = t]
                              /\ \/ t.at = "idle"
                                 \/ t.at = "exec_unknown" /\ t.o = o /\ t.ref = task[w].ref
  <2>1. CASE WorkerFree(w)
    <3>1. IdleWorker \in WorkerTask /\ IdleWorker.at = "idle"
      BY DEF IdleWorker, WorkerTask, WorkerSteps, ProviderAnswers
    <3> QED BY <2>1, <3>1 DEF WorkerFree
  <2>2. CASE StepsTo(w, "exec_unknown")
    BY <1>0, <1>2, <2>2, StepsToIs DEF WorkerSteps
  <2> QED BY <2>1, <2>2 DEF MarkOrderUnknown
<1>u. /\ ref' = ref /\ ledger' = ledger /\ event' = event /\ calls' = calls /\ payment' = payment
      /\ inv' = inv /\ posts' = posts /\ onWire' = onWire /\ intent' = intent /\ UNCHANGED money
  BY DEF MarkOrderUnknown, money, external
<1>4. /\ order' \in [Orders -> OrderStatus] /\ \A p \in Orders \ {o} : order'[p] = order[p]
      /\ order'[o] = order[o] \/ (order[o] \notin {"delivered", "failed"} /\ order'[o] = "provider_unknown")
  BY <1>0, <1>2 DEF MarkOrderUnknown, Order, Unless, GiftTypeOK, OrderStatus
<1>5. RowsTyped'
  BY <1>0, <1>3, <1>4, <1>u DEF GiftTypeOK, RowsTyped
<1>6. avail' \in Nat /\ locked' \in Nat /\ WalletAddsUp'
  BY <1>u, BooksStay
<1>7. OrderSound(o)'
  BY <1>2, <1>4, <1>u DEF OrderSound, PurchaseSound, OnchainSound, WalletSound, Unbought
<1>8. WorkerSound(w)'
  BY <1>0, <1>2, <1>3, <1>4, <1>u DEF WorkerSound, GiftTypeOK, Buyer
<1>9. ~Buyer(w, o)'
  BY <1>0, <1>3 DEF Buyer, GiftTypeOK
<1>10. \A v \in Workers : v # w /\ task[v].at # "idle" /\ task[v].o = o => LeavesTo(v, o)
  BY <1>0, <1>4, <1>u DEF LeavesTo, WorkerSound, Unbought
<1> QED BY <1>1, <1>2, <1>3, <1>4, <1>5, <1>6, <1>7, <1>8, <1>9, <1>10, <1>u, RowStepKeeps

-----------------------------------------------------------------------------
(* The purchase: only its buyer posts, and nothing was posted before.      *)
LEMMA PostInvoiceKeeps ==
  ASSUME GiftInv, NEW w \in Workers, PostInvoice(w)
  PROVE  GiftInv'
<1>0. /\ GiftTypeOK /\ OneBuyer
      /\ (\A p \in Orders : OrderSound(p)) /\ \A v \in Workers : WorkerSound(v)
  BY DEF GiftInv
<1>1. task[w].at = "post"
  BY DEF PostInvoice, At
<1>2. PICK o \in Orders :
         /\ o = task[w].o /\ order[o] # "none" /\ OrderSound(o) /\ o \notin Onchain
         /\ task[w].ref = "none" /\ posts[o] = 0 /\ o \notin onWire
         /\ ~Unbought(o) /\ ref[o] = "none" /\ order[o] # "failed"
  BY <1>1, WorkerKnows DEF Buyer
<1>3. /\ order' = order /\ ref' = ref /\ ledger' = ledger /\ event' = event /\ calls' = calls
      /\ payment' = payment /\ intent' = intent /\ UNCHANGED money
  BY DEF PostInvoice, money
<1>4. PICK t \in WorkerTask :
         /\ task' = [task EXCEPT ![w] = t] /\ t.o = o /\ t.ref = "none"
         /\ t.at \in {"apply", "unknown"}
         /\ \/ /\ posts' = [posts EXCEPT ![o] = @ + 1] /\ onWire' = onWire
               /\ \E s \in {"open", "delivered", "failed"} :
                     /\ inv' = [inv EXCEPT ![o] = s]
                     /\ t.at = "apply" /\ t.ans = "delivered" => s # "none"
            \/ /\ posts' = posts /\ inv' = inv /\ onWire' \in {onWire, onWire \cup {o}}
               /\ t.at = "apply" => t.ans = "error"
  <2>1. ASSUME NEW a \in ProviderAnswers, Heard(w, a)
        PROVE  \E t \in WorkerTask : /\ task' = [task EXCEPT ![w] = t] /\ t.o = o /\ t.ref = "none"
                                     /\ t.at = "apply" /\ t.ans = a
    <3> DEFINE u == [task[w] EXCEPT !.ans = a, !.at = "apply"]
    <3>1. u \in WorkerTask /\ u.o = o /\ u.ref = "none" /\ u.at = "apply" /\ u.ans = a
      <4>1. task[w] \in WorkerTask /\ "apply" \in WorkerSteps
        BY <1>0 DEF GiftTypeOK, WorkerSteps
      <4> QED BY <1>2, <4>1 DEF WorkerTask
    <3>2. task' = [task EXCEPT ![w] = u]
      BY <1>0, <2>1 DEF Heard, GiftTypeOK
    <3> HIDE DEF u
    <3> QED BY <3>1, <3>2
  <2>2. ASSUME task' = [task EXCEPT ![w].at = "unknown"]
        PROVE  \E t \in WorkerTask : /\ task' = [task EXCEPT ![w] = t] /\ t.o = o /\ t.ref = "none"
                                     /\ t.at = "unknown"
    <3>1. StepsTo(w, "unknown") /\ "unknown" \in WorkerSteps
      BY <2>2 DEF StepsTo, WorkerSteps
    <3> QED BY <1>0, <1>2, <3>1, StepsToIs
  <2>3. CASE \E s \in {"open", "delivered", "failed"} :
                 /\ inv' = [inv EXCEPT ![o] = s] /\ posts' = [posts EXCEPT ![o] = @ + 1]
                 /\ onWire' = onWire
                 /\ \/ \E ans \in Reading(s) : Heard(w, ans)
                    \/ Heard(w, IF s = "open" THEN "purchasing" ELSE s)
    <3>1. PICK s \in {"open", "delivered", "failed"} :
                 /\ inv' = [inv EXCEPT ![o] = s] /\ posts' = [posts EXCEPT ![o] = @ + 1]
                 /\ onWire' = onWire
                 /\ \/ \E ans \in Reading(s) : Heard(w, ans)
                    \/ Heard(w, IF s = "open" THEN "purchasing" ELSE s)
      BY <2>3
    <3>2. PICK a \in ProviderAnswers : Heard(w, a) /\ (a = "delivered" => s # "none")
      BY <3>1 DEF Reading, Told, ProviderAnswers
    <3>3. PICK t \in WorkerTask : /\ task' = [task EXCEPT ![w] = t] /\ t.o = o /\ t.ref = "none"
                                  /\ t.at = "apply" /\ t.ans = a
      BY <2>1, <3>2
    <3> QED BY <3>1, <3>2, <3>3
  <2>4. CASE Heard(w, "error") /\ UNCHANGED external
    BY <2>1, <2>4 DEF external, ProviderAnswers
  <2>5. ASSUME task' = [task EXCEPT ![w].at = "unknown"] \/ Heard(w, "error")
        PROVE  \E t \in WorkerTask : /\ task' = [task EXCEPT ![w] = t] /\ t.o = o /\ t.ref = "none"
                                     /\ t.at \in {"apply", "unknown"}
                                     /\ t.at = "apply" => t.ans = "error"
    BY <2>1, <2>2, <2>5 DEF ProviderAnswers
  <2>6. CASE /\ task' = [task EXCEPT ![w].at = "unknown"] \/ Heard(w, "error")
             /\ inv' = [inv EXCEPT ![o] = "open"] /\ posts' = [posts EXCEPT ![o] = @ + 1]
             /\ onWire' = onWire
    BY <2>5, <2>6
  <2>7. CASE /\ task' = [task EXCEPT ![w].at = "unknown"] \/ Heard(w, "error")
             /\ onWire' = onWire \cup {o} /\ inv' = inv /\ posts' = posts
    BY <2>5, <2>7
  <2> QED BY <1>2, <2>3, <2>4, <2>6, <2>7 DEF PostInvoice, Order
<1>5. RowsTyped'
  BY <1>0, <1>3, <1>4 DEF GiftTypeOK, RowsTyped
<1>6. avail' \in Nat /\ locked' \in Nat /\ WalletAddsUp'
  BY <1>3, BooksStay
<1>7. \A p \in Orders \ {o} : posts'[p] = posts[p] /\ inv'[p] = inv[p] /\ (p \in onWire' <=> p \in onWire)
  BY <1>0, <1>4 DEF GiftTypeOK
<1>8. inv[o] = "none" /\ "capture" \notin ledger[o]
  BY <1>2 DEF OrderSound, PurchaseSound, WalletSound
<1>9. OrderSound(o)'
  BY <1>0, <1>2, <1>3, <1>4, <1>8 DEF OrderSound, PurchaseSound, WalletSound, Unbought,
     GiftTypeOK
<1>10. WorkerSound(w)'
  BY <1>0, <1>2, <1>3, <1>4 DEF WorkerSound, GiftTypeOK, Buyer, Unbought
<1>11. Buyer(w, o)
  BY <1>1, <1>2 DEF Buyer
<1>12. \A v \in Workers : v # w /\ task[v].at # "idle" /\ task[v].o = o => LeavesTo(v, o)
  BY <1>0, <1>3, <1>8, <1>11 DEF LeavesTo, OneBuyer, Buyer
<1> QED BY <1>1, <1>2, <1>3, <1>4, <1>5, <1>6, <1>7, <1>9, <1>10, <1>11, <1>12, RowStepKeeps

-----------------------------------------------------------------------------
(* The money of an order paid from the wallet moves, and adds up.          *)
LEMMA MoneyAddsUp ==
  ASSUME GiftInv, NEW o \in Orders,
         \/ CaptureLocked(o) /\ "credit" \notin ledger[o]
         \/ ReleaseLocked(o)
         \/ CreditRefund(o) /\ Captured(o) /\ "credit" \notin ledger[o]
  PROVE  avail' \in Nat /\ locked' \in Nat /\ WalletAddsUp'
<1>0. GiftTypeOK /\ WalletAddsUp
  BY DEF GiftInv
<1> DEFINE S == {p \in Orders : Captured(p) /\ "credit" \notin ledger[p]}
<1>1. IsFiniteSet(S) /\ Cardinality(S) \in Nat
  BY GiftAssumption, FS_Subset, FS_CardinalityType
<1>2. avail + locked + Cardinality(S) = Funds /\ avail \in Nat /\ locked \in Nat /\ Funds \in Nat
  BY <1>0, GiftAssumption DEF WalletAddsUp, GiftTypeOK
<1>3. CASE CaptureLocked(o) /\ "credit" \notin ledger[o]
  <2>1. avail' = avail /\ locked' = locked - 1 /\ locked >= 1
    BY <1>3 DEF CaptureLocked
  <2>2. S' = S \cup {o} /\ o \notin S
    BY <1>0, <1>3 DEF CaptureLocked, Moves, Captured, GiftTypeOK
  <2>3. Cardinality(S') = Cardinality(S) + 1
    BY <1>1, <2>2, FS_AddElement
  <2> DEFINE c == Cardinality(S)
  <2>4. c \in Nat /\ avail + locked + c = Funds /\ c' = c + 1
    BY <1>1, <1>2, <2>3
  <2> HIDE DEF c
  <2>5. avail' \in Nat /\ locked' \in Nat /\ avail' + locked' + c' = Funds
    BY <1>2, <2>1, <2>4
  <2> QED BY <2>5 DEF c, WalletAddsUp
<1>4. CASE ReleaseLocked(o)
  <2>1. avail' = avail + 1 /\ locked' = locked - 1 /\ locked >= 1
    BY <1>4 DEF ReleaseLocked
  <2>2. S' = S
    BY <1>0, <1>4 DEF ReleaseLocked, Moves, Captured, GiftTypeOK
  <2> DEFINE c == Cardinality(S)
  <2>4. c \in Nat /\ avail + locked + c = Funds /\ c' = c
    BY <1>1, <1>2, <2>2
  <2> HIDE DEF c
  <2>5. avail' \in Nat /\ locked' \in Nat /\ avail' + locked' + c' = Funds
    BY <1>2, <2>1, <2>4
  <2> QED BY <2>5 DEF c, WalletAddsUp
<1>5. CASE CreditRefund(o) /\ Captured(o) /\ "credit" \notin ledger[o]
  <2>1. avail' = avail + 1 /\ locked' = locked
    BY <1>5 DEF CreditRefund
  <2>2. S' = S \ {o} /\ o \in S
    BY <1>0, <1>5 DEF CreditRefund, Moves, Captured, GiftTypeOK
  <2>3. Cardinality(S') = Cardinality(S) - 1
    BY <1>1, <2>2, FS_RemoveElement
  <2> DEFINE c == Cardinality(S)
  <2>4. c \in Nat /\ avail + locked + c = Funds /\ c' = c - 1
    BY <1>1, <1>2, <2>3
  <2> HIDE DEF c
  <2>5. avail' \in Nat /\ locked' \in Nat /\ avail' + locked' + c' = Funds
    BY <1>2, <2>1, <2>4
  <2> QED BY <2>5 DEF c, WalletAddsUp
<1> QED BY <1>3, <1>4, <1>5

(* What a report that applies does to the row of an order paid from the    *)
(* wallet.                                                                 *)
LEMMA ReportKeeps ==
  ASSUME GiftInv, NEW o \in Orders \ Onchain, NEW ans, ApplyCommerceProviderResult(o, ans),
         order[o] # "none", ~Unbought(o),
         ans = "delivered" => inv[o] # "none",
         event' = event, posts' = posts, inv' = inv, onWire' = onWire
  PROVE  /\ order' \in [Orders -> OrderStatus] /\ ref' \in [Orders -> {"none", "own", "tx"}]
         /\ ledger' \in [Orders -> SUBSET {"lock", "capture", "release", "credit"}]
         /\ payment' \in [Orders -> ExecStatus] /\ intent' \in [Orders -> IntentStatus]
         /\ avail' \in Nat /\ locked' \in Nat /\ WalletAddsUp'
         /\ \A p \in Orders \ {o} :
               /\ order'[p] = order[p] /\ ref'[p] = ref[p] /\ ledger'[p] = ledger[p]
               /\ payment'[p] = payment[p]
         /\ OrderSound(o)' /\ order'[o] # "none" /\ ref'[o] \in {ref[o], "own"}
         /\ ~Unbought(o)'
<1>0. GiftTypeOK /\ PurchaseSound(o) /\ WalletSound(o)
  BY DEF GiftInv, OrderSound
<1>s. ASSUME NEW ex \in ExecStatus \ {"none", "pending"}, NEW in \in IntentStatus, Sync(o, ex, in)
      PROVE  /\ payment' \in [Orders -> ExecStatus] /\ intent' \in [Orders -> IntentStatus]
             /\ \A p \in Orders \ {o} : payment'[p] = payment[p]
             /\ ~Unbought(o)'
  BY <1>0, <1>s DEF Sync, Unless, GiftTypeOK, Unbought
<1>r. ASSUME NEW s \in OrderStatus \ {"none"}, NEW x \in {"own", ref[o]}, Reports(o, s, x)
      PROVE  /\ order' \in [Orders -> OrderStatus] /\ ref' \in [Orders -> {"none", "own", "tx"}]
             /\ \A p \in Orders \ {o} : order'[p] = order[p] /\ ref'[p] = ref[p]
             /\ order'[o] = s /\ ref'[o] = x
  BY <1>0, <1>r DEF Reports, GiftTypeOK
<1>m. ASSUME NEW m \in {"capture", "release", "credit"}, Moves(o, m)
      PROVE  /\ ledger' \in [Orders -> SUBSET {"lock", "capture", "release", "credit"}]
             /\ \A p \in Orders \ {o} : ledger'[p] = ledger[p]
             /\ ledger'[o] = ledger[o] \cup {m}
  BY <1>0, <1>m DEF Moves, GiftTypeOK
<1>1. CASE ans = "delivered" /\ Deliver(o)
  <2>1. /\ order[o] \notin Final /\ ~Captured(o) /\ CaptureLocked(o) /\ Moves(o, "capture")
        /\ Reports(o, "delivered", "own") /\ Sync(o, "completed", "completed")
    BY <1>1 DEF Deliver, CaptureLocked
  <2>2. "credit" \notin ledger[o]
    BY <1>0, <2>1 DEF WalletSound, Captured
  <2>3. avail' \in Nat /\ locked' \in Nat /\ WalletAddsUp'
    BY <2>1, <2>2, MoneyAddsUp
  <2>4. /\ payment' \in [Orders -> ExecStatus] /\ intent' \in [Orders -> IntentStatus]
        /\ \A p \in Orders \ {o} : payment'[p] = payment[p]
        /\ ~Unbought(o)'
    BY <1>s, <2>1 DEF ExecStatus, IntentStatus
  <2>5. /\ order' \in [Orders -> OrderStatus] /\ ref' \in [Orders -> {"none", "own", "tx"}]
        /\ \A p \in Orders \ {o} : order'[p] = order[p] /\ ref'[p] = ref[p]
        /\ order'[o] = "delivered" /\ ref'[o] = "own"
    BY <1>r, <2>1 DEF OrderStatus
  <2>6. /\ ledger' \in [Orders -> SUBSET {"lock", "capture", "release", "credit"}]
        /\ \A p \in Orders \ {o} : ledger'[p] = ledger[p]
        /\ ledger'[o] = ledger[o] \cup {"capture"}
    BY <1>m, <2>1
  <2>7. inv[o] # "none"
    BY <1>1
  <2>8. OrderSound(o)'
    BY <1>0, <2>2, <2>4, <2>5, <2>6, <2>7 DEF OrderSound, PurchaseSound, WalletSound,
       Unbought
  <2> QED BY <2>3, <2>4, <2>5, <2>6, <2>8
<1>2. CASE ans = "failed" /\ Fail(o)
  <2>1. /\ order[o] \notin Final /\ ~Captured(o) /\ ~Refunded(o) /\ ReleaseLocked(o) /\ Moves(o, "release")
        /\ Reports(o, "failed", ref[o]) /\ Sync(o, "failed", "failed")
    BY <1>2 DEF Fail, ReleaseLocked
  <2>2. ledger[o] = {"lock"}
    BY <1>0, <2>1 DEF WalletSound, Captured, Refunded, GiftTypeOK
  <2>3. avail' \in Nat /\ locked' \in Nat /\ WalletAddsUp'
    BY <2>1, MoneyAddsUp
  <2>4. /\ payment' \in [Orders -> ExecStatus] /\ intent' \in [Orders -> IntentStatus]
        /\ \A p \in Orders \ {o} : payment'[p] = payment[p]
        /\ ~Unbought(o)'
    BY <1>s, <2>1 DEF ExecStatus, IntentStatus
  <2>5. /\ order' \in [Orders -> OrderStatus] /\ ref' \in [Orders -> {"none", "own", "tx"}]
        /\ \A p \in Orders \ {o} : order'[p] = order[p] /\ ref'[p] = ref[p]
        /\ order'[o] = "failed" /\ ref'[o] = ref[o]
    BY <1>r, <2>1 DEF OrderStatus
  <2>6. /\ ledger' \in [Orders -> SUBSET {"lock", "capture", "release", "credit"}]
        /\ \A p \in Orders \ {o} : ledger'[p] = ledger[p]
        /\ ledger'[o] = {"lock", "release"}
    BY <1>m, <2>1, <2>2
  <2>8. OrderSound(o)'
    BY <1>0, <2>4, <2>5, <2>6 DEF OrderSound, PurchaseSound, WalletSound, Unbought
  <2> QED BY <2>3, <2>4, <2>5, <2>6, <2>8
<1>3. CASE ans = "refunded" /\ Refund(o)
  <2>1. /\ ~Refunded(o) /\ order[o] \notin {"refunded", "failed"}
        /\ IF Captured(o) \/ order[o] = "delivered" THEN CreditRefund(o) ELSE ReleaseLocked(o)
        /\ Reports(o, "refunded", "own") /\ Sync(o, "completed", "refunded")
    BY <1>3 DEF Refund
  <2>4. /\ payment' \in [Orders -> ExecStatus] /\ intent' \in [Orders -> IntentStatus]
        /\ \A p \in Orders \ {o} : payment'[p] = payment[p]
        /\ ~Unbought(o)'
    BY <1>s, <2>1 DEF ExecStatus, IntentStatus
  <2>5. /\ order' \in [Orders -> OrderStatus] /\ ref' \in [Orders -> {"none", "own", "tx"}]
        /\ \A p \in Orders \ {o} : order'[p] = order[p] /\ ref'[p] = ref[p]
        /\ order'[o] = "refunded" /\ ref'[o] = "own"
    BY <1>r, <2>1 DEF OrderStatus
  <2>6. "credit" \notin ledger[o] /\ "release" \notin ledger[o]
    BY <2>1 DEF Refunded
  <2>7. CASE Captured(o) \/ order[o] = "delivered"
    <3>1. Captured(o) /\ CreditRefund(o) /\ Moves(o, "credit")
      BY <1>0, <2>1, <2>7 DEF WalletSound, Captured, CreditRefund
    <3>2. avail' \in Nat /\ locked' \in Nat /\ WalletAddsUp'
      BY <2>6, <3>1, MoneyAddsUp
    <3>3. /\ ledger' \in [Orders -> SUBSET {"lock", "capture", "release", "credit"}]
          /\ \A p \in Orders \ {o} : ledger'[p] = ledger[p]
          /\ ledger'[o] = ledger[o] \cup {"credit"}
      BY <1>m, <3>1
    <3>4. OrderSound(o)'
      BY <1>0, <2>4, <2>5, <2>6, <3>1, <3>3 DEF OrderSound, PurchaseSound, WalletSound,
         Unbought, Captured
    <3> QED BY <2>4, <2>5, <3>2, <3>3, <3>4
  <2>8. CASE ~(Captured(o) \/ order[o] = "delivered")
    <3>1. ReleaseLocked(o) /\ Moves(o, "release")
      BY <2>1, <2>8 DEF ReleaseLocked
    <3>2. avail' \in Nat /\ locked' \in Nat /\ WalletAddsUp'
      BY <3>1, MoneyAddsUp
    <3>3. /\ ledger' \in [Orders -> SUBSET {"lock", "capture", "release", "credit"}]
          /\ \A p \in Orders \ {o} : ledger'[p] = ledger[p]
          /\ ledger'[o] = ledger[o] \cup {"release"}
      BY <1>m, <3>1
    <3>4. OrderSound(o)'
      BY <1>0, <2>4, <2>5, <2>6, <2>8, <3>3 DEF OrderSound, PurchaseSound, WalletSound,
         Unbought, Captured
    <3> QED BY <2>4, <2>5, <3>2, <3>3, <3>4
  <2> QED BY <2>7, <2>8
<1>4. CASE ans = "purchasing" /\ Pend(o)
  <2>1. /\ order[o] \notin Final /\ UNCHANGED money
        /\ Reports(o, "purchasing", "own") /\ Sync(o, "provider_pending", "provider_pending")
    BY <1>4 DEF Pend
  <2>3. avail' \in Nat /\ locked' \in Nat /\ WalletAddsUp' /\ ledger' = ledger
    BY <2>1, BooksStay DEF money
  <2>4. /\ payment' \in [Orders -> ExecStatus] /\ intent' \in [Orders -> IntentStatus]
        /\ \A p \in Orders \ {o} : payment'[p] = payment[p]
        /\ ~Unbought(o)'
    BY <1>s, <2>1 DEF ExecStatus, IntentStatus
  <2>5. /\ order' \in [Orders -> OrderStatus] /\ ref' \in [Orders -> {"none", "own", "tx"}]
        /\ \A p \in Orders \ {o} : order'[p] = order[p] /\ ref'[p] = ref[p]
        /\ order'[o] = "purchasing" /\ ref'[o] = "own"
    BY <1>r, <2>1 DEF OrderStatus
  <2>8. OrderSound(o)'
    BY <1>0, <2>1, <2>3, <2>4, <2>5 DEF OrderSound, PurchaseSound, WalletSound, Unbought,
       Final
  <2> QED BY <1>0, <2>3, <2>4, <2>5, <2>8 DEF GiftTypeOK
<1> QED BY <1>1, <1>2, <1>3, <1>4 DEF ApplyCommerceProviderResult

FailsAndReleases(o) ==
    /\ order[o] \notin Final /\ ReleaseLocked(o)
    /\ Reports(o, "failed", ref[o]) /\ Sync(o, "failed", "failed")

(* The worker that reports: it stops or closes its event.                  *)
LEMMA ReportStepKeeps ==
  ASSUME GiftInv, NEW w \in Workers, task[w].at = "apply",
         \/ task[w].ans # "error" /\ ApplyCommerceProviderResult(Order(w), task[w].ans)
         \/ task[w].ans = "error" /\ FailsAndReleases(Order(w))
         \/ UNCHANGED <<order, ref, money, payment, intent>>,
         WorkerFree(w) \/ StepsTo(w, "close"),
         UNCHANGED <<consumed, event, calls, external>>
  PROVE  GiftInv'
<1>0. /\ GiftTypeOK /\ OneBuyer
      /\ (\A p \in Orders : OrderSound(p)) /\ \A v \in Workers : WorkerSound(v)
  BY DEF GiftInv
<1>1. PICK o \in Orders :
         /\ o = task[w].o /\ order[o] # "none" /\ OrderSound(o) /\ o \notin Onchain
         /\ task[w].ref # "none" => ref[o] = task[w].ref
         /\ task[w].ans = "error" => task[w].ref = "none"
         /\ Buyer(w, o) => ~Unbought(o) /\ ref[o] = "none" /\ order[o] # "failed"
         /\ task[w].ans = "delivered" => inv[o] # "none"
  BY WorkerKnows
<1>2. PICK t \in WorkerTask : /\ task' = [task EXCEPT ![w] = t]
                              /\ t.at = "idle" \/ (t.at = "close" /\ t.o = o /\ t.ref = task[w].ref)
  <2>1. CASE WorkerFree(w)
    <3>1. IdleWorker \in WorkerTask /\ IdleWorker.at = "idle"
      BY DEF IdleWorker, WorkerTask, WorkerSteps, ProviderAnswers
    <3> QED BY <2>1, <3>1 DEF WorkerFree
  <2>2. CASE StepsTo(w, "close")
    <3>1. "close" \in WorkerSteps
      BY DEF WorkerSteps
    <3> QED BY <1>0, <1>1, <2>2, <3>1, StepsToIs
  <2> QED BY <2>1, <2>2
<1>u. event' = event /\ calls' = calls /\ posts' = posts /\ inv' = inv /\ onWire' = onWire
  BY DEF external
<1>3. ~Unbought(o)
  BY <1>1 DEF Buyer, OrderSound, WalletSound
<1>4. /\ order' \in [Orders -> OrderStatus] /\ ref' \in [Orders -> {"none", "own", "tx"}]
      /\ ledger' \in [Orders -> SUBSET {"lock", "capture", "release", "credit"}]
      /\ payment' \in [Orders -> ExecStatus] /\ intent' \in [Orders -> IntentStatus]
      /\ avail' \in Nat /\ locked' \in Nat /\ WalletAddsUp'
      /\ \A p \in Orders \ {o} :
            /\ order'[p] = order[p] /\ ref'[p] = ref[p] /\ ledger'[p] = ledger[p]
            /\ payment'[p] = payment[p]
      /\ OrderSound(o)' /\ order'[o] # "none" /\ ref'[o] \in {ref[o], "own"}
      /\ ~Unbought(o)'
  <2>1. CASE task[w].ans # "error" /\ ApplyCommerceProviderResult(Order(w), task[w].ans)
    BY <1>1, <1>3, <1>u, <2>1, ReportKeeps DEF Order
  <2>2. CASE UNCHANGED <<order, ref, money, payment, intent>>
    BY <1>0, <1>1, <1>3, <1>u, <2>2, RowStaysSound, BooksStay DEF GiftTypeOK, money, Unbought
  <2>3. CASE task[w].ans = "error" /\ FailsAndReleases(Order(w))
    <3>1. /\ order[o] \notin Final /\ ReleaseLocked(o) /\ Moves(o, "release")
          /\ Reports(o, "failed", ref[o]) /\ Sync(o, "failed", "failed")
      BY <1>1, <2>3 DEF FailsAndReleases, ReleaseLocked, Order
    <3>2. ref[o] = "none" /\ WalletSound(o) /\ PurchaseSound(o)
      BY <1>1, <2>3 DEF Buyer, OrderSound
    <3>3. ledger[o] = {"lock"}
      BY <1>0, <1>1, <3>1, <3>2 DEF WalletSound, Final, GiftTypeOK
    <3>4. avail' \in Nat /\ locked' \in Nat /\ WalletAddsUp'
      BY <3>1, MoneyAddsUp
    <3>5. /\ payment' \in [Orders -> ExecStatus] /\ intent' \in [Orders -> IntentStatus]
          /\ \A p \in Orders \ {o} : payment'[p] = payment[p]
          /\ ~Unbought(o)'
      BY <1>0, <1>3, <3>1 DEF Sync, Unless, GiftTypeOK, Unbought, ExecStatus, IntentStatus
    <3>6. /\ order' \in [Orders -> OrderStatus] /\ ref' \in [Orders -> {"none", "own", "tx"}]
          /\ \A p \in Orders \ {o} : order'[p] = order[p] /\ ref'[p] = ref[p]
          /\ order'[o] = "failed" /\ ref'[o] = ref[o]
      BY <1>0, <3>1 DEF Reports, GiftTypeOK, OrderStatus
    <3>7. /\ ledger' \in [Orders -> SUBSET {"lock", "capture", "release", "credit"}]
          /\ \A p \in Orders \ {o} : ledger'[p] = ledger[p]
          /\ ledger'[o] = {"lock", "release"}
      BY <1>0, <3>1, <3>3 DEF Moves, GiftTypeOK
    <3>8. OrderSound(o)'
      BY <1>0, <1>1, <1>u, <3>2, <3>5, <3>6, <3>7 DEF OrderSound, PurchaseSound, WalletSound,
         Unbought
    <3> QED BY <3>4, <3>5, <3>6, <3>7, <3>8
  <2> QED BY <2>1, <2>2, <2>3
<1>5. RowsTyped'
  BY <1>0, <1>2, <1>4, <1>u DEF GiftTypeOK, RowsTyped
<1>6. WorkerSound(w)'
  BY <1>0, <1>1, <1>2, <1>4 DEF WorkerSound, GiftTypeOK, Buyer, OrderSound, WalletSound
<1>7. ~Buyer(w, o)'
  BY <1>0, <1>2 DEF Buyer, GiftTypeOK
<1>8. ASSUME NEW v \in Workers, v # w, task[v].at # "idle", task[v].o = o
      PROVE  LeavesTo(v, o)
  <2>1. ref[o] # "none" => ref'[o] = ref[o]
    BY <1>1, <1>4 DEF OrderSound, WalletSound
  <2>2. ~Buyer(v, o) \/ UNCHANGED <<order, ref, payment>>
    <3>1. CASE task[w].ref = "none"
      BY <1>0, <1>1, <1>8, <3>1 DEF Buyer, OneBuyer
    <3>2. CASE task[w].ref # "none"
      BY <1>0, <1>1, <1>8, <3>2 DEF Buyer, WorkerSound
    <3> QED BY <3>1, <3>2
  <2>3. Buyer(v, o) => ~Unbought(o) /\ order[o] # "failed"
    BY <1>0, <1>8 DEF WorkerSound
  <2> QED BY <1>4, <1>u, <2>1, <2>2, <2>3 DEF LeavesTo, Unbought
<1> QED BY <1>1, <1>2, <1>4, <1>5, <1>6, <1>7, <1>8, <1>u, RowStepKeeps

LEMMA NextGift == GiftInv /\ [GiftNext]_gcvars => GiftInv'
<1> SUFFICES ASSUME GiftInv, [GiftNext]_gcvars PROVE GiftInv'
  OBVIOUS
<1>1. ASSUME NEW o \in Orders,
             \/ Purchase(o) \/ PurchaseOnchain(o) \/ VerifyFunding(o)
             \/ FundingPending(o) \/ FundingRejected(o) \/ FundingConfirmed(o)
             \/ PostArrives(o) \/ InvoiceEnds(o)
      PROVE  GiftInv'
  BY <1>1, OutsideKeeps
<1>2. ASSUME NEW w \in Workers,
             \/ LoadOrder(w) \/ GetOrder(w) \/ DeferOutbox(w) \/ MarkProcessed(w) \/ WorkerStops(w)
             \/ \E o \in Orders : ClaimOutboxEvent(w, o) \/ ReconcilePending(w, o)
      PROVE  GiftInv'
  BY <1>2, TaskStepsKeep
<1>3. ASSUME NEW w \in Workers,
             ManualReview(w) \/ ClaimExecution(w) \/ MarkExecutionUnknown(w)
      PROVE  GiftInv'
  BY <1>3, PaymentStepsKeep
<1>4. ASSUME NEW w \in Workers, PostInvoice(w) PROVE GiftInv'
  BY <1>4, PostInvoiceKeeps
<1>5. ASSUME NEW w \in Workers, MarkOrderUnknown(w) PROVE GiftInv'
  BY <1>5, MarkOrderUnknownKeeps
<1>6. ASSUME NEW w \in Workers, ApplyResult(w) \/ FailOrderAndRelease(w) PROVE GiftInv'
  BY <1>6, ReportStepKeeps DEF ApplyResult, FailOrderAndRelease, FailsAndReleases, At, Order
<1>7. CASE UNCHANGED gcvars
  <2>1. GiftTypeOK' /\ WalletAddsUp'
    BY <1>7 DEF GiftInv, gcvars, GiftTypeOK, WalletAddsUp, Captured
  <2>2. OneBuyer'
    BY <1>7 DEF GiftInv, gcvars, OneBuyer, Buyer
  <2>3. \A o \in Orders : OrderSound(o)'
    BY <1>7, RowStaysSound DEF GiftInv, gcvars
  <2>4. \A w \in Workers : WorkerSound(w)'
    BY <1>7 DEF GiftInv, gcvars, WorkerSound, Buyer, Unbought
  <2> QED BY <2>1, <2>2, <2>3, <2>4 DEF GiftInv
<1> QED BY <1>1, <1>2, <1>3, <1>4, <1>5, <1>6, <1>7 DEF GiftNext

LEMMA GiftInvariance == GiftSpec => []GiftInv
BY InitGift, NextGift, PTL DEF GiftSpec

LEMMA GiftInvImplies ==
  GiftInv => /\ GiftTypeOK /\ BoughtOnce /\ MoneyGoesBackOnce /\ WalletAddsUp
             /\ CapturedWasBought
<1> SUFFICES ASSUME GiftInv
             PROVE  /\ GiftTypeOK /\ BoughtOnce /\ MoneyGoesBackOnce /\ WalletAddsUp
                    /\ CapturedWasBought
  OBVIOUS
<1>0. GiftTypeOK /\ WalletAddsUp /\ \A o \in Orders : OrderSound(o)
  BY DEF GiftInv
<1>1. ASSUME NEW o \in Orders PROVE posts[o] + Cardinality(onWire \cap {o}) <= 1
  <2>1. posts[o] = 0 \/ (posts[o] = 1 /\ o \notin onWire)
    BY <1>0 DEF OrderSound, PurchaseSound
  <2>2. CASE posts[o] = 1 /\ o \notin onWire
    <3>1. onWire \cap {o} = {}
      BY <2>2
    <3> QED BY <2>2, <3>1, FS_EmptySet
  <2>3. CASE posts[o] = 0 /\ o \notin onWire
    <3>1. onWire \cap {o} = {}
      BY <2>3
    <3> QED BY <2>3, <3>1, FS_EmptySet
  <2>4. CASE posts[o] = 0 /\ o \in onWire
    <3>1. onWire \cap {o} = {o}
      BY <2>4
    <3>2. Cardinality({o}) = 1
      BY FS_Singleton
    <3> QED BY <2>4, <3>1, <3>2
  <2> QED BY <2>1, <2>2, <2>3, <2>4
<1>2. BoughtOnce
  BY <1>1 DEF BoughtOnce
<1>3. MoneyGoesBackOnce
  BY <1>0 DEF MoneyGoesBackOnce, OrderSound, OnchainSound, WalletSound
<1>4. CapturedWasBought
  BY <1>0 DEF CapturedWasBought, OrderSound, PurchaseSound, Captured
<1> QED BY <1>0, <1>2, <1>3, <1>4

(* Whatever Bitrefill answers, leaves out or loses: an order is bought at  *)
(* most once, its money is taken only for an order that Bitrefill has and  *)
(* goes back at most once (commerce_worker.go).                            *)
THEOREM GiftCardsArePaidOnce == GiftSpec => []GiftBooksAreTrue
<1>1. GiftInv => GiftBooksAreTrue
  BY GiftInvImplies DEF GiftBooksAreTrue
<1> QED BY <1>1, GiftInvariance, PTL

-----------------------------------------------------------------------------
(* Tasks of other agents, for any number of tasks and streams and any room *)
(* for them.                                                               *)
CONSTANTS TkTasks, TkStreams, TkStored, TkEpisodes, TkDirect
VARIABLES tkClock, tkMade, tkStore, tkRun, tkResult, tkRan, tkGone, tkStream, tkLast, tkAsked, tkRecorded
A2A == INSTANCE AgentTask WITH Tasks <- TkTasks, Streams <- TkStreams, MaxStored <- TkStored,
    MaxEpisodes <- TkEpisodes, MaxDirect <- TkDirect, clock <- tkClock, made <- tkMade,
    store <- tkStore, run <- tkRun, result <- tkResult, ran <- tkRan, gone <- tkGone,
    stream <- tkStream, episodes <- tkLast, direct <- tkAsked, recorded <- tkRecorded

Outcomes == {"completed", "failed", "rejected", "input_required"}
Tellable == {"submitted", "working", "missing"} \cup Outcomes
TaskAssumption ==
    /\ IsFiniteSet(TkTasks) /\ TkStored \in Nat /\ TkEpisodes \in Nat \ {0}
    /\ None \notin TkTasks \cup Tellable

Underway == {"queued", "running", "executed", "recorded", "over"}
TasksTyped ==
    /\ tkClock \in Nat /\ tkMade \in [TkTasks -> Nat]
    /\ tkStore \in [TkTasks -> {"submitted", "working", None} \cup Outcomes]
    /\ tkRun \in [TkTasks -> Underway \cup {"no", "made", "lost"}]
    /\ tkResult \in [TkTasks -> Outcomes \cup {None}] /\ tkRan \in [TkTasks -> Nat]
    /\ tkGone \subseteq TkTasks /\ tkRecorded \subseteq TkTasks

(* What is stored of a task follows from where its goroutine is, or it     *)
(* made room for another.                                                  *)
StateFits(t) ==
    /\ tkRun[t] \in {"no", "made", "lost"} => tkStore[t] = None
    /\ tkRun[t] = "queued" => tkStore[t] \in {"submitted", None}
    /\ tkRun[t] \in {"running", "executed", "recorded"} => tkStore[t] \in {"working", None}
    /\ tkRun[t] = "over" => tkStore[t] \in {tkResult[t], None}
OneTaskSound(t) ==
    /\ StateFits(t)
    /\ tkRan[t] = IF tkResult[t] = None THEN 0 ELSE 1
    /\ tkRun[t] \in {"no", "made", "queued", "running"} => tkResult[t] = None
    /\ tkRun[t] \in {"executed", "recorded"} => tkResult[t] # None
    /\ t \in tkGone => tkStore[t] = None /\ tkRun[t] \notin {"no", "made"}
    /\ tkRun[t] \in Underway /\ tkStore[t] = None => t \in tkGone
    /\ t \in tkRecorded <=> tkRun[t] \in {"recorded", "over"} /\ tkResult[t] # None
    /\ tkRun[t] = "no" <=> tkMade[t] = 0
    /\ tkMade[t] <= tkClock
Stamped == \A t, u \in TkTasks : tkMade[t] = tkMade[u] /\ tkMade[t] # 0 => t = u
TasksSound == TasksTyped /\ Stamped /\ \A t \in TkTasks : OneTaskSound(t)

(* The younger ones that came.                                             *)
Younger(t) == {u \in TkTasks : tkMade[u] > tkMade[t] /\ tkRun[u] # "made"}
RoomSound == \A t \in tkGone : Cardinality(Younger(t)) >= TkStored

(* The last episodes are of tasks that were recorded, each once.           *)
EpisodesSound ==
    /\ tkLast \in Seq([task : TkTasks \cup {None}, status : {"completed", "failed"}])
    /\ Len(tkLast) <= TkEpisodes
    /\ \A i \in DOMAIN tkLast : tkLast[i].task # None => tkLast[i].task \in tkRecorded
    /\ \A i, k \in DOMAIN tkLast : tkLast[i].task = tkLast[k].task /\ tkLast[i].task # None => i = k
    /\ \A t \in tkRecorded : (\A i \in DOMAIN tkLast : tkLast[i].task # t) => Len(tkLast) = TkEpisodes

StreamsTyped == tkStream \in [TkStreams -> [task : TkTasks \cup {None}, open : BOOLEAN, told : Seq(Tellable)]]
Watching(s) == tkStream[s].open =>
    /\ tkStream[s].task \in TkTasks /\ tkRun[tkStream[s].task] \in Underway
    /\ tkStream[s].told # <<>> =>
          LET said == tkStream[s].told[Len(tkStream[s].told)] IN
          said \in {"submitted", "working"} /\ (said = "working" => tkStore[tkStream[s].task] # "submitted")
StreamSound(s) ==
    /\ tkStream[s].told # <<>> => tkStream[s].task \in TkTasks
    /\ \A i \in 1..(Len(tkStream[s].told) - 1) : A2A!Rank(tkStream[s].told[i]) < A2A!Rank(tkStream[s].told[i + 1])
    /\ \A i \in DOMAIN tkStream[s].told :
          /\ tkStream[s].told[i] \in Outcomes => tkStream[s].told[i] = tkResult[tkStream[s].task]
          /\ tkStream[s].told[i] = "missing" => tkStream[s].task \in tkGone
    /\ Watching(s)
StreamsSound == StreamsTyped /\ \A s \in TkStreams : StreamSound(s)

TaskInv == TasksSound /\ RoomSound /\ EpisodesSound /\ StreamsSound

LEMMA TaskInit ==
  ASSUME TaskAssumption, A2A!Init
  PROVE  TaskInv
<1>1. TasksSound
  <2>1. TasksTyped
    BY DEF A2A!Init, TasksTyped, TaskAssumption
  <2>2. ASSUME NEW t \in TkTasks PROVE OneTaskSound(t) /\ tkMade[t] = 0
    BY DEF A2A!Init, OneTaskSound, StateFits, Underway
  <2> QED BY <2>1, <2>2 DEF TasksSound, Stamped
<1>2. RoomSound
  BY DEF RoomSound, A2A!Init
<1>3. EpisodesSound
  BY DEF A2A!Init, EpisodesSound, TaskAssumption
<1>4. StreamsSound
  <2>1. A2A!Closed \in [task : TkTasks \cup {None}, open : BOOLEAN, told : Seq(Tellable)]
    BY DEF A2A!Closed
  <2>2. A2A!Closed.open = FALSE /\ A2A!Closed.told = <<>> /\ Len(<<>>) = 0
    BY DEF A2A!Closed
  <2> QED BY <2>1, <2>2 DEF A2A!Init, StreamsSound, StreamsTyped, StreamSound, Watching
<1> QED BY <1>1, <1>2, <1>3, <1>4 DEF TaskInv

-----------------------------------------------------------------------------
(* One task goes on: what the others have, and where it was before, stays. *)
LEMMA StreamsKeep ==
  ASSUME StreamsSound, UNCHANGED tkStream, tkGone \subseteq tkGone',
         \A t \in TkTasks : /\ tkRun[t] \in Underway => tkRun'[t] \in Underway
                            /\ tkResult[t] # None => tkResult'[t] = tkResult[t]
                            /\ tkRun[t] \in Underway /\ tkStore'[t] = "submitted" => tkStore[t] = "submitted",
         TaskAssumption
  PROVE  StreamsSound'
<1>1. StreamsTyped'
  BY DEF StreamsSound, StreamsTyped
<1>2. ASSUME NEW s \in TkStreams PROVE StreamSound(s)'
  <2>1. StreamSound(s) /\ tkStream[s].told \in Seq(Tellable)
    BY DEF StreamsSound, StreamsTyped
  <2>2. \A i \in DOMAIN tkStream[s].told :
           tkStream[s].told[i] \in Outcomes => tkStream[s].told[i] = tkResult'[tkStream[s].task]
    <3> SUFFICES ASSUME NEW i \in DOMAIN tkStream[s].told, tkStream[s].told[i] \in Outcomes
                 PROVE  tkStream[s].told[i] = tkResult'[tkStream[s].task]
      OBVIOUS
    <3>1. tkStream[s].told # <<>>
      OBVIOUS
    <3>2. tkStream[s].task \in TkTasks /\ tkResult[tkStream[s].task] = tkStream[s].told[i]
      BY <2>1, <3>1 DEF StreamSound
    <3>3. tkResult[tkStream[s].task] # None
      BY <3>2 DEF TaskAssumption, Tellable
    <3> QED BY <3>2, <3>3
  <2>3. Watching(s)'
    BY <2>1 DEF StreamSound, Watching
  <2> QED BY <2>1, <2>2, <2>3 DEF StreamSound
<1> QED BY <1>1, <1>2 DEF StreamsSound

LEMMA YoungerStay ==
  ASSUME TaskAssumption, TasksSound, RoomSound, TasksTyped',
         \A t \in TkTasks : /\ tkRun[t] # "no" => tkMade'[t] = tkMade[t]
                            /\ tkRun[t] \notin {"no", "made"} => tkRun'[t] # "made"
  PROVE  \A t \in tkGone : Cardinality(Younger(t)') >= TkStored
<1> SUFFICES ASSUME NEW t \in tkGone PROVE Cardinality(Younger(t)') >= TkStored
  OBVIOUS
<1>1. t \in TkTasks /\ tkRun[t] \notin {"no", "made"} /\ tkMade'[t] = tkMade[t]
  BY DEF TasksSound, TasksTyped, OneTaskSound
<1>2. Younger(t) \subseteq Younger(t)'
  BY <1>1 DEF Younger, TasksSound, OneTaskSound, TasksTyped
<1>3. IsFiniteSet(Younger(t)') /\ IsFiniteSet(Younger(t))
  BY FS_Subset DEF Younger, TaskAssumption
<1>4. Cardinality(Younger(t)) <= Cardinality(Younger(t)')
  BY <1>2, <1>3, FS_Subset
<1>5. Cardinality(Younger(t)) \in Nat /\ Cardinality(Younger(t)') \in Nat
  BY <1>3, FS_CardinalityType
<1> QED BY <1>4, <1>5 DEF RoomSound, TaskAssumption

LEMMA RoomKeeps ==
  ASSUME TaskAssumption, TasksSound, RoomSound, UNCHANGED tkGone, TasksTyped',
         \A t \in TkTasks : /\ tkRun[t] # "no" => tkMade'[t] = tkMade[t]
                            /\ tkRun[t] \notin {"no", "made"} => tkRun'[t] # "made"
  PROVE  RoomSound'
BY YoungerStay DEF RoomSound

(* What concerns the other tasks stays, when one goes on.                  *)
LEMMA OneTaskMoves ==
  ASSUME TaskAssumption, TasksSound, NEW t \in TkTasks, TasksTyped', tkClock <= tkClock',
         \A u \in TkTasks : u # t =>
            /\ tkMade'[u] = tkMade[u] /\ tkStore'[u] = tkStore[u] /\ tkRun'[u] = tkRun[u]
            /\ tkResult'[u] = tkResult[u] /\ tkRan'[u] = tkRan[u]
            /\ u \in tkGone' <=> u \in tkGone
            /\ u \in tkRecorded' <=> u \in tkRecorded,
         OneTaskSound(t)', \A u \in TkTasks : u # t => tkMade[u] # tkMade'[t] \/ tkMade[u] = 0
  PROVE  TasksSound'
<1>1. ASSUME NEW u \in TkTasks PROVE OneTaskSound(u)'
  <2>1. CASE u # t
    BY <2>1 DEF TasksSound, TasksTyped, OneTaskSound, StateFits
  <2> QED BY <2>1
<1>2. Stamped'
  BY DEF TasksSound, TasksTyped, Stamped
<1> QED BY <1>1, <1>2 DEF TasksSound

LEMMA NewTaskKeeps ==
  ASSUME TaskAssumption, TaskInv, NEW t \in TkTasks, A2A!NewTask(t)
  PROVE  TaskInv'
<1>1. /\ tkRun[t] = "no" /\ tkClock' = tkClock + 1
      /\ tkMade' = [tkMade EXCEPT ![t] = tkClock + 1] /\ tkRun' = [tkRun EXCEPT ![t] = "made"]
      /\ UNCHANGED <<tkStore, tkResult, tkRan, tkGone, tkStream, tkLast, tkAsked, tkRecorded>>
  BY DEF A2A!NewTask
<1>2. TasksTyped' /\ tkMade'[t] = tkClock + 1 /\ tkClock \in Nat
  BY <1>1 DEF TaskInv, TasksSound, TasksTyped
<1>3. OneTaskSound(t)'
  BY <1>1, <1>2 DEF TaskInv, TasksSound, TasksTyped, OneTaskSound, StateFits, Underway
<1>4. \A u \in TkTasks : tkMade[u] \in Nat /\ tkMade[u] <= tkClock
  BY DEF TaskInv, TasksSound, TasksTyped, OneTaskSound
<1>5. \A u \in TkTasks : u # t => tkMade'[u] = tkMade[u] /\ tkRun'[u] = tkRun[u]
  BY <1>1 DEF TaskInv, TasksSound, TasksTyped
<1>6. TasksSound'
  <2>1. TasksSound /\ tkClock <= tkClock'
    BY <1>1, <1>2 DEF TaskInv
  <2>2. \A u \in TkTasks : u # t => tkMade[u] # tkMade'[t]
    BY <1>2, <1>4
  <2> QED BY <1>1, <1>2, <1>3, <1>5, <2>1, <2>2, OneTaskMoves
<1>7. RoomSound'
  BY <1>1, <1>2, <1>5, RoomKeeps DEF TaskInv, TasksSound, TasksTyped
<1>8. EpisodesSound'
  BY <1>1 DEF TaskInv, EpisodesSound
<1>9. StreamsSound'
  BY <1>1, <1>5, StreamsKeep DEF TaskInv, Underway
<1> QED BY <1>6, <1>7, <1>8, <1>9 DEF TaskInv

LEMMA StartKeeps ==
  ASSUME TaskAssumption, TaskInv, NEW t \in TkTasks, A2A!StartTask(t)
  PROVE  TaskInv'
<1>1. /\ tkRun[t] = "queued"
      /\ tkRun' = [tkRun EXCEPT ![t] = IF tkStore[t] = None THEN "over" ELSE "running"]
      /\ tkStore' = [tkStore EXCEPT ![t] = IF @ = None THEN None ELSE "working"]
      /\ UNCHANGED <<tkClock, tkMade, tkResult, tkRan, tkGone, tkStream, tkLast, tkAsked, tkRecorded>>
  BY DEF A2A!StartTask, A2A!UpdateTask
<1>2. TasksTyped'
  BY <1>1 DEF TaskInv, TasksSound, TasksTyped, Underway
<1>3. OneTaskSound(t)'
  BY <1>1, <1>2 DEF TaskInv, TasksSound, TasksTyped, OneTaskSound, StateFits, Underway, TaskAssumption, Tellable
<1>4. \A u \in TkTasks : u # t => tkStore'[u] = tkStore[u] /\ tkRun'[u] = tkRun[u]
  BY <1>1 DEF TaskInv, TasksSound, TasksTyped
<1>5. tkRun'[t] \in {"over", "running"} /\ tkStore'[t] # "submitted"
  BY <1>1 DEF TaskInv, TasksSound, TasksTyped, TaskAssumption, Tellable
<1>6. TasksSound'
  <2>1. TasksSound /\ tkClock <= tkClock' /\ \A u \in TkTasks : u # t => tkMade[u] # tkMade'[t] \/ tkMade[u] = 0
    BY <1>1 DEF TaskInv, TasksSound, TasksTyped, Stamped
  <2> QED BY <1>1, <1>2, <1>3, <1>4, <2>1, OneTaskMoves
<1>7. RoomSound'
  BY <1>1, <1>2, <1>4, <1>5, RoomKeeps DEF TaskInv
<1>8. EpisodesSound'
  BY <1>1 DEF TaskInv, EpisodesSound
<1>9. StreamsSound'
  BY <1>1, <1>4, <1>5, StreamsKeep DEF TaskInv, Underway
<1> QED BY <1>6, <1>7, <1>8, <1>9 DEF TaskInv

LEMMA TaskExecuteKeeps ==
  ASSUME TaskAssumption, TaskInv, NEW t \in TkTasks, A2A!Execute(t)
  PROVE  TaskInv'
<1>1. /\ tkRun[t] = "running" /\ tkRun' = [tkRun EXCEPT ![t] = "executed"]
      /\ tkRan' = [tkRan EXCEPT ![t] = @ + 1]
      /\ \E st \in Outcomes : tkResult' = [tkResult EXCEPT ![t] = st]
      /\ UNCHANGED <<tkClock, tkMade, tkStore, tkGone, tkStream, tkLast, tkAsked, tkRecorded>>
  <2>1. \A code : A2A!ClassifyFailure(code) \in Outcomes
    BY DEF A2A!ClassifyFailure, Outcomes
  <2>2. PICK st \in {"completed"} \cup {A2A!ClassifyFailure(code) : code \in {400, 401, 503}} :
            tkResult' = [tkResult EXCEPT ![t] = st]
    BY Zenon DEF A2A!Execute
  <2>3. st \in Outcomes
    BY <2>1 DEF Outcomes
  <2>4. /\ tkRun[t] = "running" /\ tkRun' = [tkRun EXCEPT ![t] = "executed"]
        /\ tkRan' = [tkRan EXCEPT ![t] = @ + 1]
        /\ UNCHANGED <<tkClock, tkMade, tkStore, tkGone, tkStream, tkLast, tkAsked, tkRecorded>>
    BY DEF A2A!Execute
  <2> QED BY <2>2, <2>3, <2>4, Zenon
<1>2. TasksTyped' /\ tkResult'[t] \in Outcomes /\ tkResult'[t] # None /\ tkRan'[t] = tkRan[t] + 1
  BY <1>1 DEF TaskInv, TasksSound, TasksTyped, Underway, TaskAssumption, Tellable
<1>3. OneTaskSound(t)'
  <2>1. OneTaskSound(t)
    BY DEF TaskInv, TasksSound
  <2>2. tkRun'[t] = "executed"
    BY <1>1 DEF TaskInv, TasksSound, TasksTyped
  <2>3. tkResult[t] = None /\ tkRan[t] = 0
    BY <1>1, <2>1 DEF OneTaskSound
  <2> QED BY <1>1, <1>2, <2>1, <2>2, <2>3 DEF OneTaskSound, StateFits, Underway
<1>4. \A u \in TkTasks : u # t => tkResult'[u] = tkResult[u] /\ tkRun'[u] = tkRun[u] /\ tkRan'[u] = tkRan[u]
  BY <1>1 DEF TaskInv, TasksSound, TasksTyped
<1>5. tkRun'[t] = "executed" /\ tkResult[t] = None
  BY <1>1 DEF TaskInv, TasksSound, TasksTyped, OneTaskSound
<1>6. TasksSound'
  <2>1. TasksSound /\ tkClock <= tkClock' /\ \A u \in TkTasks : u # t => tkMade[u] # tkMade'[t] \/ tkMade[u] = 0
    BY <1>1 DEF TaskInv, TasksSound, TasksTyped, Stamped
  <2> QED BY <1>1, <1>2, <1>3, <1>4, <2>1, OneTaskMoves
<1>7. RoomSound'
  BY <1>1, <1>2, <1>4, <1>5, RoomKeeps DEF TaskInv
<1>8. EpisodesSound'
  BY <1>1 DEF TaskInv, EpisodesSound
<1>9. StreamsSound'
  BY <1>1, <1>4, <1>5, StreamsKeep DEF TaskInv, Underway
<1> QED BY <1>6, <1>7, <1>8, <1>9 DEF TaskInv

LEMMA TaskFinishKeeps ==
  ASSUME TaskAssumption, TaskInv, NEW t \in TkTasks, A2A!FinishTask(t)
  PROVE  TaskInv'
<1>1. /\ tkRun[t] = "recorded" /\ tkRun' = [tkRun EXCEPT ![t] = "over"]
      /\ tkStore' = [tkStore EXCEPT ![t] = IF @ = None THEN None ELSE tkResult[t]]
      /\ UNCHANGED <<tkClock, tkMade, tkResult, tkRan, tkGone, tkStream, tkLast, tkAsked, tkRecorded>>
  BY DEF A2A!FinishTask, A2A!UpdateTask
<1>2. TasksTyped'
  BY <1>1 DEF TaskInv, TasksSound, TasksTyped, Underway
<1>3. OneTaskSound(t)'
  <2>1. OneTaskSound(t) /\ tkResult[t] # None /\ tkRun'[t] = "over"
        /\ tkStore'[t] = IF tkStore[t] = None THEN None ELSE tkResult[t]
    BY <1>1 DEF TaskInv, TasksSound, TasksTyped, OneTaskSound
  <2> QED BY <1>1, <2>1 DEF OneTaskSound, StateFits, Underway
<1>4. \A u \in TkTasks : u # t => tkStore'[u] = tkStore[u] /\ tkRun'[u] = tkRun[u]
  BY <1>1 DEF TaskInv, TasksSound, TasksTyped
<1>5. tkRun'[t] = "over" /\ tkStore'[t] # "submitted"
  BY <1>1 DEF TaskInv, TasksSound, TasksTyped, TaskAssumption, Tellable, Outcomes
<1>6. TasksSound'
  <2>1. TasksSound /\ tkClock <= tkClock' /\ \A u \in TkTasks : u # t => tkMade[u] # tkMade'[t] \/ tkMade[u] = 0
    BY <1>1 DEF TaskInv, TasksSound, TasksTyped, Stamped
  <2> QED BY <1>1, <1>2, <1>3, <1>4, <2>1, OneTaskMoves
<1>7. RoomSound'
  BY <1>1, <1>2, <1>4, <1>5, RoomKeeps DEF TaskInv
<1>8. EpisodesSound'
  BY <1>1 DEF TaskInv, EpisodesSound
<1>9. StreamsSound'
  BY <1>1, <1>4, <1>5, StreamsKeep DEF TaskInv, Underway
<1> QED BY <1>6, <1>7, <1>8, <1>9 DEF TaskInv

EpisodeShape == [task : TkTasks \cup {None}, status : {"completed", "failed"}]

(* An episode is the last one, and pushes out the first at most.           *)
LEMMA EpisodeComes ==
  ASSUME TaskAssumption, EpisodesSound, NEW ep \in EpisodeShape
  PROVE  LET L == A2A!WithEpisode(ep)  n == Len(tkLast) IN
         /\ L \in Seq(EpisodeShape) /\ DOMAIN L = 1..Len(L)
         /\ \/ /\ Len(L) = n + 1 /\ n + 1 <= TkEpisodes /\ L[n + 1] = ep
               /\ \A i \in 1..n : L[i] = tkLast[i]
            \/ /\ n = TkEpisodes /\ Len(L) = n /\ L[n] = ep
               /\ \A i \in 1..(n - 1) : L[i] = tkLast[i + 1]
<1> DEFINE all == Append(tkLast, ep)
           L == A2A!WithEpisode(ep)
           n == Len(tkLast)
<1>1. /\ tkLast \in Seq(EpisodeShape) /\ n \in Nat /\ n <= TkEpisodes
      /\ TkEpisodes \in Nat /\ TkEpisodes > 0 /\ DOMAIN tkLast = 1..n
  BY DEF EpisodesSound, EpisodeShape, TaskAssumption
<1>2. /\ all \in Seq(EpisodeShape) /\ Len(all) = n + 1
      /\ \A i \in 1..n : all[i] = tkLast[i]
      /\ all[n + 1] = ep
  BY <1>1
<1>3. L = IF Len(all) <= TkEpisodes THEN all ELSE Tail(all)
  BY DEF A2A!WithEpisode
<1> HIDE DEF all, L, n
<1>4. CASE n + 1 <= TkEpisodes
  <2>1. L = all
    BY <1>2, <1>3, <1>4
  <2>2. /\ L \in Seq(EpisodeShape) /\ DOMAIN L = 1..Len(L) /\ Len(L) = n + 1 /\ L[n + 1] = ep
        /\ \A i \in 1..n : L[i] = tkLast[i]
    BY <1>2, <2>1
  <2> QED BY <1>4, <2>2 DEF L, n
<1>5. CASE ~(n + 1 <= TkEpisodes)
  <2>1. L = Tail(all) /\ n = TkEpisodes
    BY <1>1, <1>2, <1>3, <1>5
  <2>2. /\ L \in Seq(EpisodeShape) /\ Len(L) = n /\ DOMAIN L = 1..n
        /\ \A i \in 1..n : L[i] = all[i + 1]
    BY <1>1, <1>2, <2>1
  <2>3. L[n] = ep
    BY <1>1, <1>2, <2>1, <2>2
  <2>4. \A i \in 1..(n - 1) : L[i] = tkLast[i + 1]
    BY <1>1, <1>2, <2>1, <2>2
  <2> QED BY <2>1, <2>2, <2>3, <2>4 DEF L, n
<1> QED BY <1>4, <1>5

LEMMA EpisodesGoOn ==
  ASSUME TaskAssumption, EpisodesSound, NEW ep \in EpisodeShape, tkLast' = A2A!WithEpisode(ep),
         \/ ep.task = None /\ tkRecorded' = tkRecorded
         \/ /\ ep.task \in TkTasks /\ ep.task \notin tkRecorded
            /\ tkRecorded' = tkRecorded \cup {ep.task}
  PROVE  EpisodesSound'
<1> DEFINE n == Len(tkLast)
<1>1. /\ tkLast' \in Seq(EpisodeShape) /\ DOMAIN tkLast' = 1..Len(tkLast')
      /\ \/ /\ Len(tkLast') = n + 1 /\ n + 1 <= TkEpisodes /\ tkLast'[n + 1] = ep
            /\ \A i \in 1..n : tkLast'[i] = tkLast[i]
         \/ /\ n = TkEpisodes /\ Len(tkLast') = n /\ tkLast'[n] = ep
            /\ \A i \in 1..(n - 1) : tkLast'[i] = tkLast[i + 1]
  BY EpisodeComes
<1>2. /\ \A i \in 1..n : tkLast[i].task # None => tkLast[i].task \in tkRecorded
      /\ \A i, k \in 1..n : tkLast[i].task = tkLast[k].task /\ tkLast[i].task # None => i = k
      /\ \A t \in tkRecorded : (\A i \in 1..n : tkLast[i].task # t) => n = TkEpisodes
      /\ n \in Nat /\ TkEpisodes \in Nat /\ TkEpisodes > 0 /\ n <= TkEpisodes
  BY DEF EpisodesSound, TaskAssumption
<1>3. /\ tkRecorded \subseteq tkRecorded'
      /\ ep.task # None => ep.task \in tkRecorded' /\ ep.task \notin tkRecorded
      /\ \A t \in tkRecorded' : t # ep.task => t \in tkRecorded
  OBVIOUS
<1> HIDE DEF n
<1>4. CASE Len(tkLast') = n + 1 /\ n + 1 <= TkEpisodes /\ tkLast'[n + 1] = ep
           /\ \A i \in 1..n : tkLast'[i] = tkLast[i]
  <2>1. /\ \A i \in 1..(n + 1) : i = n + 1 \/ (i \in 1..n /\ tkLast'[i].task = tkLast[i].task)
        /\ 1..n \subseteq 1..(n + 1) /\ n + 1 \in 1..(n + 1)
    BY <1>2, <1>4
  <2>2. DOMAIN tkLast' = 1..(n + 1)
    BY <1>1, <1>4
  <2>3. \A i \in 1..(n + 1) : tkLast'[i].task # None => tkLast'[i].task \in tkRecorded'
    BY <1>2, <1>3, <1>4, <2>1
  <2>4. \A i, k \in 1..(n + 1) : tkLast'[i].task = tkLast'[k].task /\ tkLast'[i].task # None => i = k
    BY <1>2, <1>3, <1>4, <2>1
  <2>5. ASSUME NEW t \in tkRecorded', \A i \in 1..(n + 1) : tkLast'[i].task # t
        PROVE  FALSE
    <3>1. t \in tkRecorded /\ \A i \in 1..n : tkLast[i].task # t
      BY <1>3, <1>4, <2>1, <2>5
    <3> QED BY <3>1, <1>2, <1>4
  <2> QED BY <1>1, <1>4, <2>2, <2>3, <2>4, <2>5 DEF EpisodesSound, EpisodeShape
<1>5. CASE n = TkEpisodes /\ Len(tkLast') = n /\ tkLast'[n] = ep
           /\ \A i \in 1..(n - 1) : tkLast'[i] = tkLast[i + 1]
  <2>1. \A i \in 1..n : i = n \/ (i \in 1..(n - 1) /\ i + 1 \in 1..n /\ tkLast'[i].task = tkLast[i + 1].task)
    BY <1>2, <1>5
  <2>2. DOMAIN tkLast' = 1..n
    BY <1>1, <1>5
  <2>3. \A i \in 1..n : tkLast'[i].task # None => tkLast'[i].task \in tkRecorded'
    BY <1>2, <1>3, <1>5, <2>1
  <2>4. ASSUME NEW i \in 1..n, NEW k \in 1..n, tkLast'[i].task = tkLast'[k].task, tkLast'[i].task # None
        PROVE  i = k
    <3>1. CASE i # n /\ k # n
      <4>1. i + 1 = k + 1
        BY <1>2, <2>1, <2>4, <3>1
      <4> QED BY <4>1
    <3>2. CASE i = n /\ k # n
      BY <1>2, <1>3, <1>5, <2>1, <2>4, <3>2
    <3>3. CASE i # n /\ k = n
      BY <1>2, <1>3, <1>5, <2>1, <2>4, <3>3
    <3> QED BY <3>1, <3>2, <3>3
  <2> QED BY <1>1, <1>2, <1>5, <2>2, <2>3, <2>4 DEF EpisodesSound, EpisodeShape
<1> QED BY <1>1, <1>4, <1>5

LEMMA TaskRecordKeeps ==
  ASSUME TaskAssumption, TaskInv, NEW t \in TkTasks, A2A!RecordEpisode(t)
  PROVE  TaskInv'
<1> DEFINE ep == [task |-> t, status |-> IF tkResult[t] = "completed" THEN "completed" ELSE "failed"]
<1>1. /\ tkRun[t] = "executed" /\ tkRun' = [tkRun EXCEPT ![t] = "recorded"]
      /\ tkLast' = A2A!WithEpisode(ep) /\ tkRecorded' = tkRecorded \cup {t}
      /\ UNCHANGED <<tkClock, tkMade, tkStore, tkResult, tkRan, tkGone, tkStream, tkAsked>>
  BY DEF A2A!RecordEpisode
<1>2. TasksTyped'
  BY <1>1 DEF TaskInv, TasksSound, TasksTyped, Underway
<1>3. OneTaskSound(t)' /\ t \notin tkRecorded /\ tkRun'[t] = "recorded"
  BY <1>1 DEF TaskInv, TasksSound, TasksTyped, OneTaskSound, StateFits, Underway
<1>4. \A u \in TkTasks : u # t => tkRun'[u] = tkRun[u] /\ (u \in tkRecorded' <=> u \in tkRecorded)
  BY <1>1 DEF TaskInv, TasksSound, TasksTyped
<1>5. TasksSound'
  <2>1. TasksSound /\ tkClock <= tkClock' /\ \A u \in TkTasks : u # t => tkMade[u] # tkMade'[t] \/ tkMade[u] = 0
    BY <1>1 DEF TaskInv, TasksSound, TasksTyped, Stamped
  <2> QED BY <1>1, <1>2, <1>3, <1>4, <2>1, OneTaskMoves
<1>6. RoomSound'
  BY <1>1, <1>2, <1>3, <1>4, RoomKeeps DEF TaskInv
<1>7. EpisodesSound'
  <2>1. ep \in EpisodeShape /\ ep.task = t
    BY DEF EpisodeShape
  <2> HIDE DEF ep
  <2> QED BY <1>1, <1>3, <2>1, EpisodesGoOn DEF TaskInv
<1>8. StreamsSound'
  BY <1>1, <1>3, <1>4, StreamsKeep DEF TaskInv, Underway
<1> QED BY <1>5, <1>6, <1>7, <1>8 DEF TaskInv

LEMMA DirectKeeps ==
  ASSUME TaskAssumption, TaskInv, A2A!HandleA2A
  PROVE  TaskInv'
<1>1. PICK st \in {"completed", "failed"} : tkLast' = A2A!WithEpisode([task |-> None, status |-> st])
  BY DEF A2A!HandleA2A
<1>2. UNCHANGED <<tkClock, tkMade, tkStore, tkRun, tkResult, tkRan, tkGone, tkStream, tkRecorded>>
  BY DEF A2A!HandleA2A
<1>3. EpisodesSound'
  <2>1. [task |-> None, status |-> st] \in EpisodeShape
    BY DEF EpisodeShape
  <2> QED BY <1>1, <1>2, <2>1, EpisodesGoOn DEF TaskInv
<1> QED BY <1>2, <1>3 DEF TaskInv, TasksSound, TasksTyped, OneTaskSound, StateFits, Stamped, RoomSound, Younger,
         StreamsSound, StreamsTyped, StreamSound, Watching

(* Some task is the oldest.                                                *)
LEMMA OldestIsThere ==
  ASSUME TasksTyped, NEW S \in SUBSET TkTasks, S # {}
  PROVE  /\ A2A!Oldest(S) \in S
         /\ \A u \in S : tkMade[A2A!Oldest(S)] <= tkMade[u]
<1> DEFINE T == {tkMade[u] : u \in S}
<1>1. T \subseteq Nat /\ T # {}
  BY DEF TasksTyped
<1>2. PICK m \in T : \A n \in T : ~(<<n, m>> \in OpToRel(<, Nat))
  BY <1>1, NatLessThanWellFounded, WFMin
<1>3. \A n \in T : n \in Nat /\ m \in Nat /\ ~(n < m)
  BY <1>1, <1>2, Zenon DEF OpToRel
<1>4. \A n \in T : m <= n
  BY <1>3
<1>5. \E o \in S : \A u \in S : tkMade[o] <= tkMade[u]
  BY <1>2, <1>4
<1> QED BY <1>5 DEF A2A!Oldest

LEMMA StoreKeeps ==
  ASSUME TaskAssumption, TaskInv, NEW t \in TkTasks, A2A!StoreTask(t)
  PROVE  TaskInv'
<1> DEFINE kept == {u \in TkTasks : tkStore[u] # None} \cup {t}
           o == A2A!Oldest(kept)
           out == IF A2A!Cardinality(kept) <= TkStored THEN {} ELSE {o}
<1>1. /\ tkRun[t] = "made" /\ tkRun' = [tkRun EXCEPT ![t] = "queued"]
      /\ tkStore' = [u \in TkTasks |-> IF u \in out THEN None ELSE IF u = t THEN "submitted" ELSE tkStore[u]]
      /\ tkGone' = tkGone \cup out
      /\ UNCHANGED <<tkClock, tkMade, tkResult, tkRan, tkStream, tkLast, tkAsked, tkRecorded>>
  BY DEF A2A!StoreTask
<1>2. TasksTyped /\ Stamped /\ \A u \in TkTasks : OneTaskSound(u)
  BY DEF TaskInv, TasksSound
<1>3. kept \subseteq TkTasks /\ t \in kept
  OBVIOUS
<1>4. o \in kept /\ \A u \in kept : tkMade[o] <= tkMade[u]
  <2> HIDE DEF kept
  <2> QED BY <1>2, <1>3, OldestIsThere
<1>5. out \subseteq kept /\ out \subseteq TkTasks /\ \A u \in out : u = o
  BY <1>3, <1>4
<1>6. \A u \in kept : u = t \/ tkRun[u] \in Underway
  BY <1>2 DEF TasksTyped, OneTaskSound, StateFits
<1> HIDE DEF out, o
<1>7. TasksTyped'
  BY <1>1, <1>2, <1>5 DEF TasksTyped, Underway
<1>8. tkRun'[t] = "queued" /\ \A u \in TkTasks : u # t => tkRun'[u] = tkRun[u]
  BY <1>1, <1>2 DEF TasksTyped
<1>9. ASSUME NEW u \in TkTasks PROVE OneTaskSound(u)'
  <2>1. CASE u = t
    <3>1. tkStore'[t] = (IF t \in out THEN None ELSE "submitted") /\ "submitted" # None
      BY <1>1 DEF TaskAssumption, Tellable
    <3>2. t \notin tkGone /\ OneTaskSound(t)
      BY <1>1, <1>2 DEF OneTaskSound
    <3> QED BY <1>1, <1>8, <2>1, <3>1, <3>2 DEF OneTaskSound, StateFits, Underway
  <2>2. CASE u # t /\ u \in out
    <3>1. tkStore'[u] = None /\ u \in tkGone' /\ tkRun'[u] = tkRun[u] /\ tkRun[u] \in Underway
      BY <1>1, <1>5, <1>6, <1>8, <2>2
    <3> QED BY <1>1, <1>2, <3>1 DEF OneTaskSound, StateFits, Underway
  <2>3. CASE u # t /\ u \notin out
    <3>1. tkStore'[u] = tkStore[u] /\ (u \in tkGone' <=> u \in tkGone) /\ tkRun'[u] = tkRun[u]
      BY <1>1, <1>8, <2>3
    <3> QED BY <1>1, <1>2, <3>1 DEF OneTaskSound, StateFits
  <2> QED BY <2>1, <2>2, <2>3
<1>10. TasksSound'
  BY <1>1, <1>2, <1>7, <1>9 DEF TasksSound, Stamped
<1>11. RoomSound'
  <2>1. \A x \in tkGone : Cardinality(Younger(x)') >= TkStored
    BY <1>1, <1>7, <1>8, YoungerStay DEF TaskInv
  <2>2. ASSUME NEW x \in out PROVE Cardinality(Younger(x)') >= TkStored
    <3>1. x = o /\ ~(Cardinality(kept) <= TkStored)
      <4>1. A2A!Cardinality(kept) = Cardinality(kept)
        BY DEF A2A!Cardinality, Cardinality, A2A!IsFiniteSet, IsFiniteSet
      <4> QED BY <4>1, <1>5, <2>2 DEF out
    <3> HIDE DEF kept
    <3>2. IsFiniteSet(kept) /\ Cardinality(kept) \in Nat
      BY <1>3, FS_Subset, FS_CardinalityType DEF TaskAssumption
    <3>3. IsFiniteSet(kept \ {o}) /\ Cardinality(kept \ {o}) = Cardinality(kept) - 1
      BY <1>4, <3>2, FS_RemoveElement
    <3>4. kept \ {o} \subseteq Younger(x)'
      <4> SUFFICES ASSUME NEW u \in kept, u # x PROVE u \in Younger(x)'
        BY <3>1
      <4>1. u \in TkTasks /\ x \in TkTasks /\ tkMade[x] <= tkMade[u]
        BY <1>3, <1>4, <3>1
      <4>2. tkRun[u] # "no" /\ tkRun'[u] # "made"
        BY <1>1, <1>6, <1>8, <4>1 DEF Underway
      <4>3. tkMade[u] # 0 /\ tkMade[u] # tkMade[x] /\ tkMade[u] \in Nat /\ tkMade[x] \in Nat
        BY <1>2, <4>1, <4>2 DEF OneTaskSound, Stamped, TasksTyped
      <4>4. tkMade'[u] > tkMade'[x]
        BY <1>1, <4>1, <4>3
      <4> QED BY <4>1, <4>2, <4>4 DEF Younger
    <3>5. IsFiniteSet(Younger(x)')
      BY FS_Subset DEF Younger, TaskAssumption
    <3>6. Cardinality(kept \ {o}) <= Cardinality(Younger(x)') /\ Cardinality(Younger(x)') \in Nat
      BY <3>4, <3>5, FS_Subset, FS_CardinalityType
    <3> QED BY <3>1, <3>2, <3>3, <3>6 DEF TaskAssumption
  <2> QED BY <1>1, <2>1, <2>2 DEF RoomSound
<1>12. EpisodesSound'
  BY <1>1 DEF TaskInv, EpisodesSound
<1>13. StreamsSound'
  <2>1. \A u \in TkTasks : tkRun[u] \in Underway => u # t
    BY <1>1 DEF Underway
  <2>2. "submitted" # None /\ tkGone \subseteq tkGone'
    BY <1>1 DEF TaskAssumption, Tellable
  <2>3. \A u \in TkTasks : u # t /\ tkStore'[u] = "submitted" => tkStore[u] = "submitted"
    BY <1>1, <2>2
  <2>4. \A u \in TkTasks : tkRun[u] \in Underway => tkRun'[u] \in Underway
    BY <1>8, <2>1
  <2> QED BY <1>1, <2>1, <2>2, <2>3, <2>4, StreamsKeep DEF TaskInv
<1> QED BY <1>10, <1>11, <1>12, <1>13 DEF TaskInv

-----------------------------------------------------------------------------
(* The streams.  How far a state is told.                                  *)
LEMMA RankIs ==
  /\ A2A!Rank("submitted") = 1 /\ A2A!Rank("working") = 2
  /\ \A u : u # "submitted" /\ u # "working" => A2A!Rank(u) = 3
  BY DEF A2A!Rank

(* A change of one stream.                                                 *)
LEMMA OneStreamMoves ==
  ASSUME StreamsSound, NEW s \in TkStreams,
         NEW r \in [task : TkTasks \cup {None}, open : BOOLEAN, told : Seq(Tellable)],
         tkStream' = [tkStream EXCEPT ![s] = r],
         UNCHANGED <<tkStore, tkRun, tkResult, tkGone>>, tkStream'[s] = r => StreamSound(s)'
  PROVE  StreamsSound'
<1>1. StreamsTyped' /\ tkStream'[s] = r /\ \A x \in TkStreams : x # s => tkStream'[x] = tkStream[x]
  BY DEF StreamsSound, StreamsTyped
<1>2. ASSUME NEW x \in TkStreams, x # s PROVE StreamSound(x)'
  BY <1>1, <1>2 DEF StreamsSound, StreamSound, Watching
<1> QED BY <1>1, <1>2 DEF StreamsSound

LEMMA OpenKeeps ==
  ASSUME TaskAssumption, TaskInv, NEW s \in TkStreams, NEW t \in TkTasks, A2A!OpenStream(s, t)
  PROVE  StreamsSound'
<1> DEFINE r == [task |-> t, open |-> TRUE, told |-> <<>>]
<1>1. /\ tkStore[t] # None /\ tkStream' = [tkStream EXCEPT ![s] = r]
      /\ UNCHANGED <<tkStore, tkRun, tkResult, tkGone>>
  BY DEF A2A!OpenStream
<1>2. tkRun[t] \in Underway
  BY <1>1 DEF TaskInv, TasksSound, TasksTyped, OneTaskSound, StateFits
<1>3. r \in [task : TkTasks \cup {None}, open : BOOLEAN, told : Seq(Tellable)]
      /\ r.task = t /\ r.told = <<>> /\ Len(<<>>) = 0 /\ DOMAIN <<>> = {}
  OBVIOUS
<1>4. tkStream'[s] = r => StreamSound(s)'
  <2> HIDE DEF r
  <2> QED BY <1>1, <1>2, <1>3 DEF StreamSound, Watching
<1> HIDE DEF r
<1> QED BY <1>1, <1>3, <1>4, OneStreamMoves DEF TaskInv

LEMMA StreamCloseKeeps ==
  ASSUME TaskAssumption, TaskInv, NEW s \in TkStreams, A2A!CloseStream(s)
  PROVE  StreamsSound'
<1> DEFINE r == [tkStream[s] EXCEPT !.open = FALSE]
<1>1. /\ tkStream' = [tkStream EXCEPT ![s] = r]
      /\ UNCHANGED <<tkStore, tkRun, tkResult, tkGone>>
  BY DEF A2A!CloseStream, TaskInv, StreamsSound, StreamsTyped
<1>2. StreamSound(s) /\ tkStream[s] \in [task : TkTasks \cup {None}, open : BOOLEAN, told : Seq(Tellable)]
  BY DEF TaskInv, StreamsSound, StreamsTyped
<1>3. r \in [task : TkTasks \cup {None}, open : BOOLEAN, told : Seq(Tellable)]
      /\ r.task = tkStream[s].task /\ r.told = tkStream[s].told /\ r.open = FALSE
  BY <1>2
<1>4. tkStream'[s] = r => StreamSound(s)'
  <2> HIDE DEF r
  <2> QED BY <1>1, <1>2, <1>3 DEF StreamSound, Watching
<1> HIDE DEF r
<1> QED BY <1>1, <1>3, <1>4, OneStreamMoves DEF TaskInv

(* What a turn tells is new and follows what was told.                     *)
LEMMA PollKeeps ==
  ASSUME TaskAssumption, TaskInv, NEW s \in TkStreams, A2A!Poll(s)
  PROVE  StreamsSound'
<1> DEFINE told == tkStream[s].told
           t == tkStream[s].task
           u == A2A!Update(t)
           n == Len(told)
           more == IF A2A!New(s, u) THEN Append(told, u) ELSE told
           r == [tkStream[s] EXCEPT !.told = more, !.open = u \notin A2A!Finals \cup {"missing"}]
<1>1. /\ tkStream[s].open /\ UNCHANGED <<tkStore, tkRun, tkResult, tkGone>>
      /\ tkStream' = [tkStream EXCEPT ![s].told = IF A2A!New(s, u) THEN Append(@, u) ELSE @,
                                      ![s].open = u \notin A2A!Finals \cup {"missing"}]
  BY DEF A2A!Poll
<1>2. StreamSound(s) /\ tkStream[s] \in [task : TkTasks \cup {None}, open : BOOLEAN, told : Seq(Tellable)]
  BY DEF TaskInv, StreamsSound, StreamsTyped
<1>3. told \in Seq(Tellable) /\ n \in Nat /\ t \in TkTasks /\ tkRun[t] \in Underway /\ DOMAIN told = 1..n
  BY <1>1, <1>2 DEF StreamSound, Watching
<1>4. OneTaskSound(t) /\ tkStore[t] \in {"submitted", "working", None} \cup Outcomes
  BY <1>3 DEF TaskInv, TasksSound, TasksTyped
<1>5. /\ u \in Tellable /\ (u = "missing" => t \in tkGone) /\ (u \in Outcomes => u = tkResult[t])
      /\ u = "submitted" <=> tkStore[t] = "submitted"
  BY <1>3, <1>4 DEF A2A!Update, OneTaskSound, StateFits, Underway, Tellable, Outcomes, TaskAssumption
<1>6. A2A!New(s, u) <=> told = <<>> \/ told[n] # u
  BY DEF A2A!New, A2A!Last
<1>7. told # <<>> => /\ n > 0 /\ told[n] \in {"submitted", "working"}
                     /\ told[n] = "working" => u # "submitted"
  BY <1>1, <1>2, <1>3, <1>5 DEF StreamSound, Watching
<1> HIDE DEF u, told, n
<1>8. /\ more \in Seq(Tellable) /\ Len(more) = IF A2A!New(s, u) THEN n + 1 ELSE n
      /\ DOMAIN more = 1..Len(more) /\ \A i \in 1..n : more[i] = told[i]
      /\ A2A!New(s, u) => more[n + 1] = u
  BY <1>3, <1>5 DEF n
<1>9. tkStream' = [tkStream EXCEPT ![s] = r]
      /\ r \in [task : TkTasks \cup {None}, open : BOOLEAN, told : Seq(Tellable)]
  <2>2. tkStream' = [tkStream EXCEPT ![s] = r]
    BY <1>1, <1>2 DEF TaskInv, StreamsSound, StreamsTyped, told
  <2>3. r \in [task : TkTasks \cup {None}, open : BOOLEAN, told : Seq(Tellable)]
    BY <1>2, <1>8
  <2> QED BY <2>2, <2>3
<1>10. \A i \in 1..(Len(more) - 1) : A2A!Rank(more[i]) < A2A!Rank(more[i + 1])
  <2> SUFFICES ASSUME NEW i \in 1..(Len(more) - 1) PROVE A2A!Rank(more[i]) < A2A!Rank(more[i + 1])
    OBVIOUS
  <2> HIDE DEF more
  <2>1. CASE i < n
    <3>1. i \in 1..(n - 1) /\ i \in 1..n /\ i + 1 \in 1..n
      BY <1>3, <2>1
    <3>2. A2A!Rank(told[i]) < A2A!Rank(told[i + 1])
      BY <1>2, <3>1 DEF StreamSound, told, n
    <3> QED BY <1>8, <3>1, <3>2
  <2>2. CASE ~(i < n)
    <3>1. i = n /\ n > 0 /\ A2A!New(s, u) /\ i \in 1..n
      BY <1>3, <1>8, <2>2
    <3>2. told # <<>>
      BY <3>1, <1>3 DEF n
    <3>3. told[n] \in {"submitted", "working"} /\ told[n] # u /\ (told[n] = "working" => u # "submitted")
      BY <1>6, <1>7, <3>1, <3>2
    <3>4. more[i] = told[n] /\ more[i + 1] = u
      BY <1>8, <3>1
    <3> QED BY <3>3, <3>4, RankIs
  <2> QED BY <2>1, <2>2
<1>11. \A i \in DOMAIN more : /\ more[i] \in Outcomes => more[i] = tkResult[t]
                              /\ more[i] = "missing" => t \in tkGone
  <2> SUFFICES ASSUME NEW i \in DOMAIN more
               PROVE  /\ more[i] \in Outcomes => more[i] = tkResult[t]
                      /\ more[i] = "missing" => t \in tkGone
    OBVIOUS
  <2> HIDE DEF more
  <2>1. CASE i \in 1..n
    <3>1. i \in DOMAIN told /\ more[i] = told[i]
      BY <1>3, <1>8, <2>1
    <3> QED BY <1>2, <3>1 DEF StreamSound, told
  <2>2. CASE i \notin 1..n
    <3>1. more[i] = u
      BY <1>3, <1>8, <2>2
    <3> QED BY <1>5, <3>1
  <2> QED BY <2>1, <2>2
<1>12. r.open => /\ more # <<>> => /\ more[Len(more)] \in {"submitted", "working"}
                                   /\ more[Len(more)] = "working" => tkStore[t] # "submitted"
  <2>1. ASSUME r.open, more # <<>> PROVE more[Len(more)] = u
    <3>1. CASE A2A!New(s, u)
      <4> HIDE DEF more
      <4> QED BY <1>8, <3>1
    <3>2. CASE ~A2A!New(s, u)
      <4>1. told # <<>> /\ told[n] = u /\ more = told
        BY <1>6, <3>2
      <4> QED BY <4>1 DEF n
    <3> QED BY <3>1, <3>2
  <2>2. r.open => u \in {"submitted", "working"}
    <3>1. r.open = (u \notin A2A!Finals \cup {"missing"})
      BY <1>2
    <3> HIDE DEF r
    <3> QED BY <1>5, <3>1 DEF A2A!Finals, Tellable, Outcomes
  <2> HIDE DEF more, r
  <2> QED BY <1>5, <2>1, <2>2
<1>13. tkStream'[s] = r => StreamSound(s)'
  <2>1. r.task = t /\ r.told = more
    BY <1>2
  <2> HIDE DEF more, r
  <2> SUFFICES ASSUME tkStream'[s] = r PROVE StreamSound(s)'
    OBVIOUS
  <2>2. Watching(s)'
    BY <1>1, <1>3, <1>12, <2>1 DEF Watching
  <2>3. tkStream'[s].told = more /\ tkStream'[s].task = t /\ tkGone' = tkGone /\ tkResult' = tkResult
    BY <1>1, <2>1
  <2> HIDE DEF t
  <2> QED BY <1>3, <1>10, <1>11, <2>2, <2>3 DEF StreamSound
<1> HIDE DEF r
<1> QED BY <1>1, <1>9, <1>13, OneStreamMoves DEF TaskInv

LEMMA StreamStepsKeep ==
  ASSUME TaskAssumption, TaskInv,
         \E s \in TkStreams : A2A!Poll(s) \/ A2A!CloseStream(s) \/ \E t \in TkTasks : A2A!OpenStream(s, t)
  PROVE  TaskInv'
<1>1. StreamsSound'
  BY OpenKeeps, StreamCloseKeeps, PollKeeps
<1>2. UNCHANGED <<tkClock, tkMade, tkStore, tkRun, tkResult, tkRan, tkGone, tkLast, tkAsked, tkRecorded>>
  BY DEF A2A!Poll, A2A!CloseStream, A2A!OpenStream
<1> QED BY <1>1, <1>2 DEF TaskInv, TasksSound, TasksTyped, OneTaskSound, StateFits, Stamped, RoomSound, Younger,
         EpisodesSound

(* With the process everything ends but what happened.                     *)
LEMMA RestartKeeps ==
  ASSUME TaskAssumption, TaskInv, A2A!Restart
  PROVE  TaskInv'
<1>1. /\ tkStore' = [t \in TkTasks |-> None]
      /\ tkRun' = [t \in TkTasks |-> IF tkRun[t] = "no" THEN "no" ELSE "lost"]
      /\ tkStream' = [s \in TkStreams |-> [tkStream[s] EXCEPT !.open = FALSE]]
      /\ tkLast' = <<>> /\ tkRecorded' = {}
      /\ UNCHANGED <<tkClock, tkMade, tkResult, tkRan, tkGone, tkAsked>>
  BY DEF A2A!Restart
<1>2. TasksTyped'
  BY <1>1 DEF TaskInv, TasksSound, TasksTyped
<1>3. TasksSound'
  <2>1. ASSUME NEW t \in TkTasks PROVE OneTaskSound(t)'
    <3>1. OneTaskSound(t) /\ tkStore'[t] = None /\ tkRun'[t] = IF tkRun[t] = "no" THEN "no" ELSE "lost"
      BY <1>1 DEF TaskInv, TasksSound
    <3> QED BY <1>1, <3>1 DEF OneTaskSound, StateFits, Underway
  <2> QED BY <1>1, <1>2, <2>1 DEF TaskInv, TasksSound, Stamped
<1>4. RoomSound'
  BY <1>1, <1>2, RoomKeeps DEF TaskInv
<1>5. EpisodesSound'
  BY <1>1 DEF EpisodesSound, TaskAssumption
<1>6. StreamsSound'
  <2>1. ASSUME NEW s \in TkStreams
        PROVE  /\ tkStream'[s] \in [task : TkTasks \cup {None}, open : {FALSE}, told : Seq(Tellable)]
               /\ tkStream'[s].task = tkStream[s].task /\ tkStream'[s].told = tkStream[s].told
    BY <1>1 DEF TaskInv, StreamsSound, StreamsTyped
  <2>2. StreamsTyped'
    BY <1>1, <2>1 DEF StreamsTyped
  <2>3. ASSUME NEW s \in TkStreams PROVE StreamSound(s)'
    BY <1>1, <2>1 DEF TaskInv, StreamsSound, StreamSound, Watching
  <2> QED BY <2>2, <2>3 DEF StreamsSound
<1> QED BY <1>3, <1>4, <1>5, <1>6 DEF TaskInv

LEMMA TaskNext ==
  ASSUME TaskAssumption, TaskInv, [A2A!Next]_A2A!vars
  PROVE  TaskInv'
<1>1. CASE A2A!Next
  BY <1>1, NewTaskKeeps, StoreKeeps, StartKeeps, TaskExecuteKeeps, TaskRecordKeeps, TaskFinishKeeps, StreamStepsKeep,
     DirectKeeps, RestartKeeps DEF A2A!Next
<1>2. CASE UNCHANGED A2A!vars
  BY <1>2 DEF A2A!vars, TaskInv, TasksSound, TasksTyped, OneTaskSound, StateFits, Stamped, RoomSound, Younger,
     EpisodesSound, StreamsSound, StreamsTyped, StreamSound, Watching
<1> QED BY <1>1, <1>2

LEMMA TaskInvEnough ==
  ASSUME TaskAssumption, TaskInv
  PROVE  A2A!RunsOnce /\ A2A!OldestMakesRoom /\ A2A!StreamsTellTheTruth /\ A2A!EpisodePerRun
<1>1. \A t \in TkTasks : OneTaskSound(t)
  BY DEF TaskInv, TasksSound
<1>2. \A S : A2A!Cardinality(S) = Cardinality(S)
  BY DEF A2A!Cardinality, Cardinality, A2A!IsFiniteSet, IsFiniteSet
<1>3. A2A!RunsOnce
  <2> SUFFICES ASSUME NEW t \in TkTasks
               PROVE  /\ tkRan[t] <= 1
                      /\ tkRun[t] = "over" /\ t \notin tkGone => tkRan[t] = 1 /\ tkStore[t] = tkResult[t]
    BY DEF A2A!RunsOnce
  <2> QED BY <1>1 DEF OneTaskSound, StateFits, Underway
<1>4. A2A!OldestMakesRoom
  BY <1>2 DEF TaskInv, RoomSound, Younger, A2A!OldestMakesRoom
<1>5. A2A!StreamsTellTheTruth
  <2> SUFFICES ASSUME NEW s \in TkStreams
               PROVE  LET told == tkStream[s].told IN
                      /\ \A i \in 1..(Len(told) - 1) : A2A!Rank(told[i]) < A2A!Rank(told[i + 1])
                      /\ \A i \in 1..Len(told) : told[i] \in A2A!Finals =>
                             tkRan[tkStream[s].task] = 1 /\ told[i] = tkResult[tkStream[s].task]
                      /\ "missing" \in A2A!ToSet(told) => tkStream[s].task \in tkGone
    BY DEF A2A!StreamsTellTheTruth
  <2>1. StreamSound(s) /\ tkStream[s].told \in Seq(Tellable)
    BY DEF TaskInv, StreamsSound, StreamsTyped
  <2>2. ASSUME NEW i \in 1..Len(tkStream[s].told), tkStream[s].told[i] \in A2A!Finals
        PROVE  tkRan[tkStream[s].task] = 1 /\ tkStream[s].told[i] = tkResult[tkStream[s].task]
    <3>1. i \in DOMAIN tkStream[s].told /\ tkStream[s].told # <<>> /\ tkStream[s].told[i] \in Outcomes
      BY <2>1, <2>2 DEF A2A!Finals, Outcomes
    <3>2. tkStream[s].task \in TkTasks /\ tkStream[s].told[i] = tkResult[tkStream[s].task]
      BY <2>1, <3>1 DEF StreamSound
    <3>3. tkResult[tkStream[s].task] # None
      BY <3>1, <3>2 DEF TaskAssumption, Tellable
    <3> QED BY <1>1, <3>2, <3>3 DEF OneTaskSound
  <2>3. "missing" \in A2A!ToSet(tkStream[s].told) => tkStream[s].task \in tkGone
    BY <2>1 DEF A2A!ToSet, StreamSound
  <2> QED BY <2>1, <2>2, <2>3 DEF StreamSound
<1>6. A2A!EpisodePerRun
  <2>1. ASSUME NEW t \in TkTasks, tkStore[t] \in A2A!Finals PROVE t \in tkRecorded
    <3>1. tkStore[t] \in Outcomes /\ tkStore[t] # None /\ tkStore[t] \notin {"submitted", "working"}
      BY <2>1 DEF A2A!Finals, Outcomes, TaskAssumption, Tellable
    <3>2. tkRun[t] \in Underway \cup {"no", "made", "lost"}
      BY DEF TaskInv, TasksSound, TasksTyped
    <3> QED BY <1>1, <3>1, <3>2 DEF OneTaskSound, StateFits, Underway
  <2>2. ASSUME NEW t \in tkRecorded
        PROVE  LET own == {i \in 1..Len(tkLast) : tkLast[i].task = t} IN
               A2A!Cardinality(own) <= 1 /\ (own = {} => Len(tkLast) = TkEpisodes)
    <3> DEFINE own == {i \in 1..Len(tkLast) : tkLast[i].task = t}
    <3>1. /\ t \in TkTasks /\ t # None /\ DOMAIN tkLast = 1..Len(tkLast)
          /\ \A i, k \in DOMAIN tkLast : tkLast[i].task = tkLast[k].task /\ tkLast[i].task # None => i = k
          /\ (\A i \in DOMAIN tkLast : tkLast[i].task # t) => Len(tkLast) = TkEpisodes
      BY DEF TaskInv, TasksSound, TasksTyped, EpisodesSound, TaskAssumption
    <3>2. \A i, k \in own : i = k
      BY <3>1
    <3>3. own = {} => Len(tkLast) = TkEpisodes
      BY <3>1
    <3>4. Cardinality(own) <= 1
      <4> HIDE DEF own
      <4>1. CASE own = {}
        <5>1. Cardinality(own) = 0
          BY <4>1, FS_EmptySet
        <5> QED BY <5>1
      <4>2. ASSUME NEW i \in own PROVE Cardinality(own) <= 1
        <5>1. own = {i}
          BY <3>2, <4>2
        <5>2. Cardinality(own) = 1
          BY <5>1, FS_Singleton
        <5> QED BY <5>2
      <4> QED BY <4>1, <4>2
    <3> QED BY <1>2, <3>3, <3>4
  <2> QED BY <2>1, <2>2 DEF A2A!EpisodePerRun
<1> QED BY <1>3, <1>4, <1>5, <1>6

(* An accepted task is run once unless it had made room for younger ones   *)
(* or the process ended; a stream never goes back and tells the outcome of *)
(* a run; and a run has one episode, pushed out only by later ones         *)
(* (server/a2a_task_handlers.go).                                          *)
THEOREM TasksRunOnce ==
  ASSUME TaskAssumption
  PROVE  A2A!Spec =>
            [](A2A!RunsOnce /\ A2A!OldestMakesRoom /\ A2A!StreamsTellTheTruth /\ A2A!EpisodePerRun)
BY TaskInit, TaskNext, TaskInvEnough, PTL DEF A2A!Spec
=============================================================================
