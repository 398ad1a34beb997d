---------------------------- MODULE AgentAccess ----------------------------
(***************************************************************************)
(* The agent marketplace: purchases of capability plans (direct or by      *)
(* HTTP 402), access quotes, the grants a verified transfer activates, and *)
(* what is consumed of them: by metering, by executions, and by executions *)
(* on risk credit.  Requests are repeated and cut off at any step; every   *)
(* plan costs one unit and every use takes one unit of quota.              *)
(***************************************************************************)
EXTENDS Naturals, FiniteSets

CONSTANTS Purchases,   \* purchases and quotes of one agent
          Quotes,      \* those that are access quotes
          Transfers,   \* the agent's transfers to the treasury
          RequestKeys, \* idempotency keys of its requests
          Handlers,    \* handlers at work, on all replicas
          QuotaOf,     \* the quota of the plan of each purchase
          Limit, CreditLimit,   \* of the agent's policy, of its risk credit
          Risk,        \* the grant of the risk credit
          Nothing

ASSUME AgentAccessAssumption ==
    /\ QuotaOf \in [Purchases -> Nat] /\ Limit \in Nat /\ CreditLimit \in Nat
    /\ Risk \notin Purchases /\ Nothing \notin Purchases \cup {Risk}

VARIABLES purchase, paidBy, \* marketplace_purchases: status; api_payments
          expired,         \* past expires_at
          grant, left,     \* api_access_grants: status, quota_remaining
          ended,           \* grants and credit accounts past expires_at
          held,            \* grants whose token the agent holds
          usage,           \* api_usage_events, by grant and key
          exec,            \* marketplace_execution_events: grant, by key
          result,          \* their status
          credit,          \* agent_capability_credit_accounts: credit_used
          handler,         \* what each handler is doing
          runs             \* external: executions begun at a provider, by key

aavars == <<purchase, paidBy, expired, grant, left, ended, held, usage, exec, result, credit,
            handler, runs>>
bought == <<purchase, paidBy, expired>>
granted == <<grant, left, ended, held>>
used == <<usage, exec, result, credit, runs>>

Grants == Purchases \cup {Risk}
Stages == {"idle", "insert", "activate", "lookup", "consume", "promote", "record"}
Handling == [at : Stages, g : Grants \cup {Nothing}, tx : Transfers \cup {Nothing},
             key : RequestKeys \cup {Nothing}]
Free == [at |-> "idle", g |-> Nothing, tx |-> Nothing, key |-> Nothing]

AccessInit ==
    /\ purchase = [p \in Purchases |-> "none"] /\ paidBy = [p \in Purchases |-> Nothing]
    /\ expired = {} /\ ended = {} /\ held = {}
    /\ grant = [g \in Grants |-> "none"] /\ left = [g \in Grants |-> 0]
    /\ usage = {} /\ exec = [k \in RequestKeys |-> Nothing] /\ result = [k \in RequestKeys |-> "none"]
    /\ credit = 0 /\ handler = [c \in Handlers |-> Free] /\ runs = [k \in RequestKeys |-> 0]

Proceeds(c, at) == handler' = [handler EXCEPT ![c].at = at]
Answers(c) == handler' = [handler EXCEPT ![c] = Free]
Starts(c, at, g, x, k) ==
    handler[c] = Free /\ handler' = [handler EXCEPT ![c] = [at |-> at, g |-> g, tx |-> x, key |-> k]]

-----------------------------------------------------------------------------
(* CreateMarketplacePurchase: the policy's limit is compared with what has *)
(* been bought, and the purchase is inserted later.                        *)
Spent == Cardinality({p \in Purchases \ Quotes : purchase[p] # "none"})
CheckSpend(c, p) ==
    /\ p \notin Quotes /\ purchase[p] = "none" /\ Spent < Limit
    /\ Starts(c, "insert", p, Nothing, Nothing)
    /\ UNCHANGED <<bought, granted, used>>

\* a purchase that another request of the same key inserted is returned
CreateMarketplacePurchase(c) ==
    LET p == handler[c].g
    IN  /\ handler[c].at = "insert" /\ Answers(c)
        /\ purchase' = [purchase EXCEPT ![p] = IF @ = "none" THEN "pending" ELSE @]
        /\ UNCHANGED <<paidBy, expired, granted, used>>

CreateAccessQuote(p) ==
    /\ p \in Quotes /\ purchase[p] = "none" /\ purchase' = [purchase EXCEPT ![p] = "pending"]
    /\ UNCHANGED <<paidBy, expired, granted, used, handler>>

TimePasses(g) ==
    /\ \/ g \in Purchases /\ purchase[g] = "pending" /\ expired' = expired \cup {g} /\ ended' = ended
       \/ grant[g] # "none" /\ ended' = ended \cup {g} /\ expired' = expired
    /\ UNCHANGED <<purchase, paidBy, grant, left, held, used, handler>>

(* The handlers verify the transfer on chain before the transaction.       *)
VerifyPayment(c, p, x) ==
    /\ purchase[p] # "none"
    /\ \E k \in RequestKeys : Starts(c, "activate", p, x, k)
    /\ UNCHANGED <<bought, granted, used>>

(* ActivateMarketplacePurchase and ConfirmAccessPaymentAndGrant, under the *)
(* row lock: pending and not expired, and a transfer that no other row of  *)
(* the same table has (the writes of the refusals are rolled back).  Only  *)
(* this answer carries the token; the handler of HTTP 402 keeps it and     *)
(* goes on to execute under the key of the request.                        *)
SameTable(p) == {q \in Purchases : q \in Quotes <=> p \in Quotes}
UnusedIn(p, x) == \A q \in SameTable(p) \ {p} : paidBy[q] # x
Activate(c) ==
    LET p == handler[c].g
    IN  /\ handler[c].at = "activate"
        /\ IF purchase[p] = "pending" /\ p \notin expired /\ UnusedIn(p, handler[c].tx)
           THEN /\ purchase' = [purchase EXCEPT ![p] = "active"]
                /\ paidBy' = [paidBy EXCEPT ![p] = handler[c].tx]
                /\ grant' = [grant EXCEPT ![p] = "active"]
                /\ left' = [left EXCEPT ![p] = QuotaOf[p]]
                /\ \/ Answers(c) /\ held' \in {held, held \cup {p}}
                   \/ p \notin Quotes /\ Proceeds(c, "lookup") /\ held' = held
           ELSE Answers(c) /\ UNCHANGED <<purchase, paidBy, grant, left, held>>
        /\ UNCHANGED <<expired, ended, used>>

-----------------------------------------------------------------------------
(* ConsumeAccessUsage and consumeMarketplaceUsage, under the lock of the   *)
(* grant: a key is consumed once.  The second, which alone takes the       *)
(* tokens of purchases, exhausts the grant.                                *)
Usable(g) == grant[g] = "active" /\ g \notin ended
Takes(g) == left[g] > 0 /\ left' = [left EXCEPT ![g] = @ - 1]
\* Mutant: a repeated request is charged again
AlwaysNew(g, k) == TRUE
NewUse(g, k) == <<g, k>> \notin usage
Exhausts(g, on) == grant' = IF on /\ left[g] = 1 THEN [grant EXCEPT ![g] = "exhausted"] ELSE grant
ConsumeUsage(g, k, market) ==
    /\ g \in held /\ Usable(g) /\ NewUse(g, k) /\ Takes(g) /\ (market \/ g \in Quotes)
    /\ Exhausts(g, market) /\ usage' = usage \cup {<<g, k>>}
    /\ UNCHANGED <<bought, ended, held, exec, result, credit, handler, runs>>

(* handleAgentCapabilityExecute, with a token or on risk credit: an event  *)
(* that has the key is returned as it is.                                  *)
Execute(c, g, k) ==
    /\ g \in held \cup {Risk} /\ Starts(c, "lookup", g, Nothing, k)
    /\ UNCHANGED <<bought, granted, used>>

LookupExecution(c) ==
    /\ handler[c].at = "lookup"
    /\ IF exec[handler[c].key] # Nothing THEN Answers(c) ELSE Proceeds(c, "consume")
    /\ UNCHANGED <<bought, granted, used>>

(* ExecuteMarketplaceCapabilityMock and ...WithRiskCredit, the rest of the *)
(* transaction: the unique keys of both tables undo what a concurrent      *)
(* request of the same key has done before.                                *)
Inserts(g, k) == exec[k] = Nothing /\ <<g, k>> \notin usage
Pays(g) ==
    IF g = Risk
    THEN /\ credit < CreditLimit /\ Risk \notin ended /\ credit' = credit + 1 /\ left' = left
         /\ grant' = [grant EXCEPT ![Risk] = "active"]
    ELSE Usable(g) /\ Takes(g) /\ Exhausts(g, TRUE) /\ credit' = credit
ConsumeExecution(c) ==
    LET g == handler[c].g  k == handler[c].key
    IN  /\ handler[c].at = "consume" /\ Pays(g) /\ Inserts(g, k) /\ Proceeds(c, "promote")
        /\ usage' = usage \cup {<<g, k>>} /\ exec' = [exec EXCEPT ![k] = g]
        /\ result' = [result EXCEPT ![k] = "completed"]
        /\ UNCHANGED <<bought, ended, held, runs>>

(* promoteRealCapabilityExecution: the provider, on failure perhaps the    *)
(* others, and the result.                                                 *)
PromoteExecution(c) ==
    /\ handler[c].at = "promote" /\ Proceeds(c, "record")
    /\ runs' = [runs EXCEPT ![handler[c].key] = @ + 1]
    /\ UNCHANGED <<bought, granted, usage, exec, result, credit>>

RecordExecution(c) ==
    /\ handler[c].at = "record" /\ Answers(c)
    /\ \E r \in {"real_completed", "mock_fallback"} : result' = [result EXCEPT ![handler[c].key] = r]
    /\ UNCHANGED <<bought, granted, usage, exec, credit, runs>>

(* The client goes away, the process stops, or a refusal ends the request. *)
RequestStops(c) ==
    /\ handler[c] # Free /\ Answers(c)
    /\ UNCHANGED <<bought, granted, used>>

AccessNext ==
    \/ \E p \in Purchases : CreateAccessQuote(p)
    \/ \E g \in Grants : TimePasses(g)
    \/ \E g \in Grants, k \in RequestKeys, market \in BOOLEAN : ConsumeUsage(g, k, market)
    \/ \E c \in Handlers :
        \/ \E p \in Purchases : CheckSpend(c, p) \/ \E x \in Transfers : VerifyPayment(c, p, x)
        \/ \E g \in Grants, k \in RequestKeys : Execute(c, g, k)
        \/ CreateMarketplacePurchase(c) \/ Activate(c) \/ LookupExecution(c)
        \/ ConsumeExecution(c) \/ PromoteExecution(c) \/ RecordExecution(c) \/ RequestStops(c)

AccessSpec == AccessInit /\ [][AccessNext]_aavars

-----------------------------------------------------------------------------
AccessTypeOK ==
    /\ purchase \in [Purchases -> {"none", "pending", "active"}]
    /\ paidBy \in [Purchases -> Transfers \cup {Nothing}] /\ expired \subseteq Purchases
    /\ grant \in [Grants -> {"none", "active", "exhausted"}] /\ left \in [Grants -> Nat]
    /\ ended \subseteq Grants /\ held \subseteq Purchases /\ usage \subseteq Grants \X RequestKeys
    /\ exec \in [RequestKeys -> Grants \cup {Nothing}] /\ credit \in 0..CreditLimit
    /\ result \in [RequestKeys -> {"none", "completed", "real_completed", "mock_fallback"}]
    /\ handler \in [Handlers -> Handling] /\ runs \in [RequestKeys -> Nat]

(* What a grant has left and what was consumed of it make its quota, of a  *)
(* grant that one transfer bought; the credit used is what ran on credit;  *)
(* and nothing runs at a provider twice or without having been charged.    *)
Uses(g) == Cardinality({u \in usage : u[1] = g})
UseIsPaidOnce ==
    /\ AccessTypeOK
    /\ \A p \in Purchases : /\ grant[p] # "none" => left[p] + Uses(p) = QuotaOf[p]
                            /\ grant[p] # "none" <=> purchase[p] = "active"
                            /\ grant[p] = "exhausted" => left[p] = 0
    /\ \A p, q \in Purchases :
          p # q /\ paidBy[p] # Nothing /\ paidBy[p] = paidBy[q] => ~(p \in Quotes <=> q \in Quotes)
    /\ credit = Uses(Risk) /\ credit <= CreditLimit
    /\ \A k \in RequestKeys : runs[k] <= 1 /\ (runs[k] = 1 => <<exec[k], k>> \in usage)

(* "dailyLimitUsdt": an agent's purchases stay within the limit of its     *)
(* policy.                                                                 *)
SpendWithinLimit == Spent <= Limit
=============================================================================
