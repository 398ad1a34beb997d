--------------------------- MODULE LiquidityRoute ---------------------------
(***************************************************************************)
(* The liquidity router of the delivery worker on one buy order: which     *)
(* pairs the app offers and which the worker routes, the quotes of the     *)
(* providers, asked for at once, the attempts to execute the best of them  *)
(* and then the next, what is recorded and written to the order, and the   *)
(* hot wallet when the router gives up.  The providers are HTTP services   *)
(* and the BingX account, which buys and then withdraws to the customer.   *)
(* External: the providers and the balance of the hot wallet.              *)
(***************************************************************************)
EXTENDS Naturals, FiniteSets

CONSTANTS Providers, \* numbered in the order of their names
          BingX,     \* the one that is the exchange account
          Configs,   \* configurations, seen from one pair
          None

(* The pair is USDT on BSC or on another network, another token, a native  *)
(* coin, or one whose wallet service runs.  in_policy: the list            *)
(* LIQUIDITY_ALLOWED_PAIRS names it; policy: it names any pair; listed:    *)
(* LIQUIDITY_ALLOWED_ASSETS and _NETWORKS name it as far as they are not   *)
(* empty; lists: neither is; network: it is among those supported;         *)
(* contract: one that passes the checks is configured; bingx: what the     *)
(* account may do for the pair.                                            *)
Config == [pair : {"usdt_bsc", "usdt", "token", "coin", "own_coin"}, in_policy : BOOLEAN, policy : BOOLEAN,
           listed : BOOLEAN, lists : BOOLEAN, network : BOOLEAN, contract : BOOLEAN,
           router : BOOLEAN, http : BOOLEAN, bingx : {"off", "quote", "trade", "withdraw"},
           hot_first : BOOLEAN]

VARIABLES cfg,    \* the configuration
          at,     \* where tryLiquidityExecution is
          quote,  \* score of each provider's quote
          late,   \* the timeout of the whole route has passed
          tried,  \* providers asked to execute
          cur,    \* the one being asked
          exec,   \* the execution that was accepted
          bought, \* external: BingX holds coins bought for the order
          sent,   \* external: providers that deliver to the customer
          record, \* buy_liquidity_executions
          out,    \* the order's status, or "hot" when the wallet is tried
          unclear \* history: an answer was lost or refused, or a write failed

vars == <<cfg, at, quote, late, tried, cur, exec, bought, sent, record, out, unclear>>
external == <<bought, sent, unclear>>
result == <<exec, record, out>>

NoExec == [prov |-> None, status |-> "none"]

Asked == 0
NoQuote == 3

Init ==
    /\ cfg \in Configs
    /\ at = "idle" /\ quote = [p \in Providers |-> Asked] /\ late = FALSE
    /\ tried = {} /\ cur = None /\ exec = NoExec /\ bought = FALSE /\ sent = {}
    /\ record = NoExec /\ out = "enviando" /\ unclear = FALSE

-----------------------------------------------------------------------------
(* The worker: resolveLiquidityPair takes empty lists for "all".           *)
ContainsCSVFold(c) == c.listed
HydrateAndValidate(c) == c.pair \in {"coin", "own_coin"} \/ c.contract
ResolveLiquidityPair(c) ==
    (IF c.policy THEN c.in_policy ELSE ContainsCSVFold(c)) /\ HydrateAndValidate(c)

(* The app: the same configuration, with empty lists for "none" and the    *)
(* networks it is told to support.                                         *)
ContainsCSVFoldMobile(c) == c.lists /\ c.listed
HydrateAndValidateMobile(c) == c.pair \in {"coin", "own_coin"} \/ c.contract
ResolveMobileLiquidityPair(c) ==
    /\ c.network
    /\ IF c.policy THEN c.in_policy ELSE ContainsCSVFoldMobile(c)
    /\ HydrateAndValidateMobile(c)

IsUsdt(c) == c.pair \in {"usdt_bsc", "usdt"}

\* USDT of another network comes from the HTTP services alone.
BuyPairHasExecutionRoute(c) ==
    \/ c.pair = "usdt_bsc"
    \/ c.router /\ (c.http \/ (~IsUsdt(c) /\ c.bingx = "withdraw"))
BuyPairSupported(c) == ResolveMobileLiquidityPair(c) /\ BuyPairHasExecutionRoute(c)

(* What it is told it may buy: USDT on BSC and the coins of the wallet     *)
(* services come on top.                                                   *)
HotWalletAllowed(c) ==
    /\ c.pair = "usdt_bsc" /\ c.contract /\ c.network
    /\ IF c.policy THEN c.in_policy ELSE ContainsCSVFoldMobile(c)
SupportedPairs(c) ==
    /\ ResolveMobileLiquidityPair(c) \/ HotWalletAllowed(c) \/ c.pair = "own_coin"
    /\ BuyPairHasExecutionRoute(c)

(* The web: what it lists and what it takes go through one check, with    *)
(* lists and networks read as the app reads them; BingX may bring USDT.    *)
ContainsCSVFoldServer(c) == c.lists /\ c.listed
HydrateAndValidateBuyPair(c) == c.pair \in {"coin", "own_coin"} \/ c.contract
ServerPairHasExecutionRoute(c) ==
    \/ c.pair = "usdt_bsc"
    \/ c.router /\ (c.http \/ c.bingx = "withdraw")
ResolveExecutableBuyPair(c) ==
    /\ c.network
    /\ IF c.policy THEN c.in_policy ELSE ContainsCSVFoldServer(c)
    /\ HydrateAndValidateBuyPair(c) /\ ServerPairHasExecutionRoute(c)
ExecutableBuyPairs(c) ==
    /\ IF c.policy THEN c.in_policy ELSE ContainsCSVFoldServer(c)
    /\ ResolveExecutableBuyPair(c)

(* newBuyLiquidityRouter: an account that may not trade is still asked.    *)
Routed(c) == {p \in Providers : IF p = BingX THEN c.bingx # "off" ELSE c.http}

(* shouldUseLiquidityRouter: USDT on BSC leaves the hot wallet when its    *)
(* balance is short or cannot be read.                                     *)
HotWalletSupported(c) == c.pair = "usdt_bsc"

UseRouter ==
    /\ at = "idle" /\ cfg.router /\ ResolveLiquidityPair(cfg)
    /\ at' = "quote" /\ UNCHANGED <<cfg, quote, late, tried, cur, result, external>>

UseHotWallet ==
    /\ at = "idle"
    /\ \/ ~cfg.router \/ ~ResolveLiquidityPair(cfg)
       \/ cfg.hot_first /\ HotWalletSupported(cfg)
    /\ at' = "done" /\ out' = "hot"
    /\ UNCHANGED <<cfg, quote, late, tried, cur, exec, record, external>>

(* One timeout, 2.5 s by default, for the quotes and the executions.       *)
TimeoutPasses ==
    /\ at \in {"quote", "next", "withdraw"} /\ ~late /\ late' = TRUE
    /\ UNCHANGED <<cfg, at, quote, tried, cur, result, external>>

(* BingX is asked for the price of any coin but USDT; a quote that has no  *)
(* amount or is for another pair is none.                                  *)
QuoteHTTP == IF late THEN {NoQuote} ELSE {NoQuote, 1, 2}
QuoteBingX == IF late /\ ~IsUsdt(cfg) THEN {NoQuote} ELSE {NoQuote, 1, 2}

(* QuoteAll, each provider in a goroutine of its own.                      *)
Quote(p) ==
    /\ at = "quote" /\ p \in Routed(cfg) /\ quote[p] = Asked
    /\ \E s \in IF p = BingX THEN QuoteBingX ELSE QuoteHTTP : quote' = [quote EXCEPT ![p] = s]
    /\ UNCHANGED <<cfg, at, late, tried, cur, result, external>>

Quoted == {p \in Providers : quote[p] \in {1, 2}}
NormalizeQuotes ==
    /\ at = "quote" /\ \A p \in Routed(cfg) : quote[p] # Asked
    /\ at' = "next" /\ UNCHANGED <<cfg, quote, late, tried, cur, result, external>>

(* sortQuotes: the lower score, then the name.                             *)
SortQuotes(p, q) == quote[p] < quote[q] \/ (quote[p] = quote[q] /\ p < q)

-----------------------------------------------------------------------------
(* ExecuteBest asks the first of the quotes it has not asked yet.          *)
ExecuteNext(p) ==
    /\ at = "next" /\ p \in Quoted \ tried
    /\ \A q \in Quoted \ tried : q = p \/ SortQuotes(p, q)
    /\ cur' = p /\ tried' = tried \cup {p}
    /\ at' = IF p = BingX THEN "buy" ELSE "http"
    /\ UNCHANGED <<cfg, quote, late, result, external>>

Accept(s) == exec' = [prov |-> cur, status |-> s] /\ at' = "record"
Refused == at' = "next" /\ UNCHANGED exec

(* HTTPProvider.Execute: refused, executed as it says, or executed with an *)
(* answer that is lost or does not match the request.                      *)
ExecuteHTTP ==
    /\ at = "http"
    /\ \/ Refused /\ UNCHANGED <<sent, unclear>>
       \/ /\ ~late /\ sent' = sent \cup {cur}
          /\ \/ (\E s \in {"sent", "accepted"} : Accept(s)) /\ UNCHANGED unclear
             \/ Refused /\ unclear' = TRUE
    /\ UNCHANGED <<cfg, quote, late, tried, cur, record, out, bought>>

(* BingXProvider.Execute: the market buy, which USDT does without;         *)
PlaceMarketBuy ==
    /\ at = "buy"
    /\ \/ Refused /\ UNCHANGED <<bought, unclear>>
       \/ /\ cfg.bingx \in {"trade", "withdraw"}
          /\ ~IsUsdt(cfg) => ~late
          /\ bought' = ~IsUsdt(cfg)
          /\ \/ ~IsUsdt(cfg) /\ Refused /\ unclear' = TRUE
             \/ /\ IF cfg.bingx = "withdraw" THEN at' = "withdraw" /\ UNCHANGED exec
                   ELSE Accept("pending_withdrawal")
                /\ UNCHANGED unclear
    /\ UNCHANGED <<cfg, quote, late, tried, cur, record, out, sent>>

(* then the withdrawal.  When it fails the coins stay where they are.      *)
Withdraw ==
    /\ at = "withdraw"
    /\ \/ Refused /\ UNCHANGED <<sent, unclear>>
       \/ /\ ~late /\ sent' = sent \cup {cur}
          /\ \/ (\E s \in {"sent", "submitted"} : Accept(s)) /\ UNCHANGED unclear
             \/ Refused /\ unclear' = TRUE
    /\ UNCHANGED <<cfg, quote, late, tried, cur, record, out, bought>>

NoProviderLeft ==
    /\ at = "next" /\ Quoted \subseteq tried
    /\ at' = "record" /\ UNCHANGED <<cfg, quote, late, tried, cur, result, external>>

(* The provider that executed, or else the best quote.                     *)
LiquidityExecutionRecord ==
    IF exec # NoExec THEN {[prov |-> exec.prov, status |-> "attempted"]}
    ELSE {[prov |-> p, status |-> "failed"] :
            p \in {q \in Quoted : \A r \in Quoted : r = q \/ SortQuotes(q, r)}}

(* RecordLiquidityExecution, whose error is ignored.                       *)
RecordExecution ==
    /\ at = "record" /\ at' = "write"
    /\ record' \in {NoExec} \cup LiquidityExecutionRecord
    /\ UNCHANGED <<cfg, quote, late, tried, cur, exec, out, external>>

(* The order takes the status of the execution; without one, or when the   *)
(* write fails, the hot wallet is next.                                    *)
WriteStatus ==
    /\ at = "write" /\ at' = "done"
    /\ \/ /\ exec = NoExec /\ out' = "hot" /\ UNCHANGED unclear
       \/ /\ exec # NoExec /\ UNCHANGED unclear
          /\ out' = IF exec.status = "sent" THEN "enviado" ELSE "pendente_confirmacao"
       \/ /\ exec # NoExec /\ out' = "hot" /\ unclear' = TRUE
    /\ UNCHANGED <<cfg, quote, late, tried, cur, exec, record, bought, sent>>

Next ==
    \/ UseRouter \/ UseHotWallet \/ TimeoutPasses \/ NormalizeQuotes \/ ExecuteHTTP
    \/ PlaceMarketBuy \/ Withdraw \/ NoProviderLeft \/ RecordExecution \/ WriteStatus
    \/ \E p \in Providers : Quote(p) \/ ExecuteNext(p)

Spec == Init /\ [][Next]_vars

-----------------------------------------------------------------------------
TypeOK ==
    /\ cfg \in Config /\ tried \subseteq Providers /\ sent \subseteq Providers
    /\ \A p \in Providers : quote[p] \in {Asked, NoQuote, 1, 2}
    /\ exec.prov \in Providers \cup {None} /\ record.prov \in Providers \cup {None}
    /\ out \in {"enviando", "hot", "enviado", "pendente_confirmacao"}

(* A purchase that the app or the web accepts is one it lists, and one     *)
(* that the worker has a way to deliver: the four read the same            *)
(* configuration with code of their own.                                   *)
OfferedIsRoutable ==
    /\ BuyPairSupported(cfg) => SupportedPairs(cfg)
    /\ ResolveExecutableBuyPair(cfg) => ExecutableBuyPairs(cfg)
    /\ BuyPairSupported(cfg) \/ ResolveExecutableBuyPair(cfg) =>
          \/ HotWalletSupported(cfg)
          \/ /\ cfg.router /\ ResolveLiquidityPair(cfg)
             /\ \E p \in Routed(cfg) : p = BingX => cfg.bingx = "withdraw"

(* The customer is paid twice, by two providers or by one and the hot      *)
(* wallet, only after an answer that was lost or refused or a write that   *)
(* failed.                                                                 *)
PaidTwiceIsUnclear ==
    Cardinality(sent) + (IF out = "hot" THEN 1 ELSE 0) > 1 => unclear

(* The cheapest quote is tried before the others; an order says enviado    *)
(* for a delivery, and the execution recorded for it names who made it.    *)
OrderTellsWhoPaid ==
    /\ \A p \in tried, q \in Quoted : SortQuotes(q, p) => q \in tried
    /\ out = "enviado" => exec.prov \in sent
    /\ (out \in {"enviado", "pendente_confirmacao"} /\ record # NoExec) =>
          record.prov = exec.prov /\ (exec.prov \in sent \/ bought \/ cfg.bingx = "trade")

=============================================================================
