----------------------------- MODULE AgentTrade -----------------------------
(***************************************************************************)
(* Agent trades: an agent quotes a trade, transfers the pay asset to the   *)
(* treasury, and asks for the execution with the hash of its transfer; the *)
(* handler settles the receive asset through the signer.  A request may be *)
(* repeated, with the same or another idempotency key, and may be cut off  *)
(* at any step.  External: the signer, which sends once per key it sees.   *)
(***************************************************************************)
EXTENDS Naturals, FiniteSets

CONSTANTS Trades,  \* quotes of one agent wallet, for the same amount
          Txs,     \* its transfers to the treasury
          Keys,    \* idempotency keys its requests carry
          Calls,   \* executions of the handler, on all replicas
          None

ASSUME AgentTradeAssumption == None \notin Trades \cup Txs \cup Keys

VARIABLES status, tx, key,  \* agent_trade_intents: status, tx_hash, idempotency_key
          lapsed,           \* those whose expires_at has passed
          call,             \* what each handler is doing
          sent,             \* external: settlements sent, by trade and key
          wire              \* external: requests whose caller gave up

atvars == <<status, tx, key, lapsed, call, sent, wire>>

Steps == {"idle", "confirm", "send", "fail", "complete"}
Idle == [at |-> "idle", trade |-> None, tx |-> None, key |-> None]
Call == [at : Steps, trade : Trades \cup {None}, tx : Txs \cup {None}, key : Keys \cup {None}]

Init ==
    /\ status = [t \in Trades |-> "none"] /\ tx = [t \in Trades |-> None]
    /\ key = [t \in Trades |-> None] /\ lapsed = {}
    /\ call = [c \in Calls |-> Idle] /\ sent = {} /\ wire = {}

Goes(c, at) == call' = [call EXCEPT ![c].at = at]
Ends(c) == call' = [call EXCEPT ![c] = Idle]
Trade(c) == call[c].trade

-----------------------------------------------------------------------------
(* CreateAgentTradeIntent: a key that an intent has already is refused,    *)
(* which returns that intent.                                              *)
CreateAgentTradeIntent(t) ==
    /\ status[t] = "none"
    /\ \E k \in (Keys \ {key[u] : u \in Trades}) \cup {None} : key' = [key EXCEPT ![t] = k]
    /\ status' = [status EXCEPT ![t] = "pending"]
    /\ UNCHANGED <<tx, lapsed, call, sent, wire>>

Lapse(t) ==
    /\ status[t] # "none" /\ lapsed' = lapsed \cup {t}
    /\ UNCHANGED <<status, tx, key, call, sent, wire>>

(* handleAgentTradeExecute: the intent is there and its transfer is on     *)
(* chain, confirmed, from the agent and large enough.                      *)
VerifyTransfer(c) ==
    /\ call[c] = Idle
    /\ \E t \in Trades, x \in Txs, k \in Keys :
          /\ status[t] # "none"
          /\ call' = [call EXCEPT ![c] = [at |-> "confirm", trade |-> t, tx |-> x, key |-> k]]
    /\ UNCHANGED <<status, tx, key, lapsed, sent, wire>>

(* ConfirmAgentTradePayment, under the row lock: settled and paid are      *)
(* refused, failed is not; the two unique indexes reject the transfer or   *)
(* the key of another intent.  (The write of expired is rolled back.)      *)
Unused(c) ==
    \A u \in Trades \ {Trade(c)} : /\ tx[u] # call[c].tx
                                   /\ key[Trade(c)] = None => key[u] # call[c].key
\* Mutant: an intent in settlement is confirmed again
NotSettled(s) == s # "settled"
Payable(s) == s \notin {"settled", "paid"}
ConfirmAgentTradePayment(c) ==
    LET t == Trade(c)
    IN  /\ call[c].at = "confirm"
        /\ IF Payable(status[t]) /\ t \notin lapsed /\ Unused(c)
           THEN /\ status' = [status EXCEPT ![t] = "paid"]
                /\ tx' = [tx EXCEPT ![t] = call[c].tx]
                /\ key' = [key EXCEPT ![t] = IF @ = None THEN call[c].key ELSE @]
                /\ Goes(c, "send")
           ELSE Ends(c) /\ UNCHANGED <<status, tx, key>>
        /\ UNCHANGED <<lapsed, sent, wire>>

(* sendAgentTradeSettlement: the key of the request is part of the key of  *)
(* the settlement.  Every error counts as a failure, and a request that    *)
(* timed out may have been served or be served later.                      *)
SettlementKey(c) == <<Trade(c), call[c].key>>
SendSettlement(c) ==
    /\ call[c].at = "send"
    /\ \/ Goes(c, "complete") /\ sent' = sent \cup {SettlementKey(c)} /\ wire' = wire
       \/ Goes(c, "fail") /\ wire' = wire /\ sent' \in {sent, sent \cup {SettlementKey(c)}}
       \/ Goes(c, "fail") /\ sent' = sent /\ wire' = wire \cup {SettlementKey(c)}
    /\ UNCHANGED <<status, tx, key, lapsed>>

(* FailAgentTradeSettlement; its error is ignored.                         *)
FailAgentTradeSettlement(c) ==
    /\ call[c].at = "fail" /\ Ends(c)
    /\ status' \in {status, IF status[Trade(c)] = "paid"
                            THEN [status EXCEPT ![Trade(c)] = "failed"] ELSE status}
    /\ UNCHANGED <<tx, key, lapsed, sent, wire>>

(* CompleteAgentTradeSettlement                                            *)
CompleteAgentTradeSettlement(c) ==
    /\ call[c].at = "complete" /\ Ends(c)
    /\ status' \in {status, IF status[Trade(c)] = "paid"
                            THEN [status EXCEPT ![Trade(c)] = "settled"] ELSE status}
    /\ UNCHANGED <<tx, key, lapsed, sent, wire>>

(* The client goes away, which cancels the handler, or the process stops.  *)
CallStops(c) ==
    /\ call[c] # Idle /\ Ends(c)
    /\ UNCHANGED <<status, tx, key, lapsed, sent, wire>>

(* External: a request the signer serves after its caller gave up.         *)
WireArrives ==
    /\ \E s \in wire : wire' = wire \ {s} /\ sent' = sent \cup {s}
    /\ UNCHANGED <<status, tx, key, lapsed, call>>

Next ==
    \/ \E t \in Trades : CreateAgentTradeIntent(t) \/ Lapse(t)
    \/ \E c \in Calls : \/ VerifyTransfer(c) \/ ConfirmAgentTradePayment(c)
                        \/ SendSettlement(c) \/ FailAgentTradeSettlement(c)
                        \/ CompleteAgentTradeSettlement(c) \/ CallStops(c)
    \/ WireArrives

Spec == Init /\ [][Next]_atvars

-----------------------------------------------------------------------------
TypeOK ==
    /\ status \in [Trades -> {"none", "pending", "paid", "settled", "failed"}]
    /\ tx \in [Trades -> Txs \cup {None}] /\ key \in [Trades -> Keys \cup {None}]
    /\ lapsed \subseteq Trades /\ call \in [Calls -> Call]
    /\ sent \subseteq Trades \X Keys /\ wire \subseteq Trades \X Keys

(* A transfer funds one trade; only a funded trade is settled; and never   *)
(* two handlers settle one trade at a time, while they do it is paid.      *)
SettlesWhatWasPaid ==
    /\ \A t, u \in Trades : t # u /\ tx[t] # None => tx[t] # tx[u]
    /\ \A s \in sent \cup wire : tx[s[1]] # None
    /\ \A t \in Trades : status[t] = "settled" => \E s \in sent : s[1] = t
    /\ \A c, d \in Calls :
          call[c].at \in {"send", "complete"} =>
             /\ status[Trade(c)] = "paid"
             /\ c # d /\ call[d].at \in {"send", "complete"} => Trade(d) # Trade(c)

(* "txHash and idempotencyKey cannot be reused": a trade is settled once.  *)
SettledOnce == \A r, s \in sent : r[1] = s[1] => r = s
=============================================================================
