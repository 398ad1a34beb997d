---------------------------- MODULE BuyCheckout ----------------------------
(***************************************************************************)
(* Before a BUY order exists: the quote (server/quote_handlers.go,         *)
(* database/phase2_finance.go), the request that uses it                   *)
(* (server/buy_handlers.go), and the charge at Efi with the access token   *)
(* that all requests of a process share (server/payment_provider.go).      *)
(* BuyOrder begins where this module ends.                                 *)
(***************************************************************************)
EXTENDS Integers, FiniteSets

CONSTANTS Requests, Quotes,
          Prices,     \* market rates the price worker may fetch, positive
          MaxTokens,  \* access tokens Efi gives to one rail
          None

VARIABLES price,      \* the market rate in memory, 0 before the first one
          quote,      \* quote -> the row, or None
          req,        \* request -> where it is
          token,      \* rail -> the cached token, 0 when there is none
          refreshing, \* rail -> a request is fetching a token
          closed,     \* rail -> closed channels; the open one is the next number
          issued,     \* rail -> tokens Efi has given
          revoked,    \* rail -> Efi takes its last token no longer
          charge,     \* request -> what Efi holds for its id
          order       \* request -> the total of its order, or None

vars == <<price, quote, req, token, refreshing, closed, issued, revoked, charge, order>>
oauth == <<token, refreshing, closed, issued, revoked>>

Rails == {"pix", "card"}
Subtotal == 10                       \* amountFiat
Fee(native) == IF native THEN 2 ELSE 1       \* buyQuotePricing: what a quote shows
ProviderFee(native) == IF native THEN 1 ELSE 0

NewRequest == [at |-> "new", quote |-> None, native |-> FALSE, rail |-> "pix", rate |-> 0,
               total |-> 0, step |-> "charge", token |-> 0, use |-> 0, channel |-> 0,
               again |-> FALSE]
Stages == {"new", "token", "wait", "fetch", "store", "finish", "send", "qr", "insert",
           "done", "failed"}

TypeOK ==
    /\ price \in Prices \cup {0}
    /\ quote \in [Quotes -> {None} \cup [rate : Prices, native : BOOLEAN, rail : Rails,
                              total : Nat, consumed : BOOLEAN, expired : BOOLEAN]]
    /\ req \in [Requests -> [at : Stages, quote : Quotes \cup {None}, native : BOOLEAN,
           rail : Rails, rate : Prices \cup {0}, total : Nat, step : {"charge", "pay"},
           token : 0..MaxTokens, use : 0..MaxTokens, channel : Nat, again : BOOLEAN]]
    /\ token \in [Rails -> 0..MaxTokens] /\ refreshing \in [Rails -> BOOLEAN]
    /\ closed \in [Rails -> Nat] /\ issued \in [Rails -> 0..MaxTokens]
    /\ revoked \in [Rails -> BOOLEAN]
    /\ charge \in [Requests -> [made : Nat, paid : Nat, amount : Nat]]
    /\ order \in [Requests -> Nat \cup {None}]

Init ==
    /\ price = 0
    /\ quote = [q \in Quotes |-> None]
    /\ req = [r \in Requests |-> NewRequest]
    /\ token = [l \in Rails |-> 0] /\ refreshing = [l \in Rails |-> FALSE]
    /\ closed = [l \in Rails |-> 0] /\ issued = [l \in Rails |-> 0]
    /\ revoked = [l \in Rails |-> FALSE]
    /\ charge = [r \in Requests |-> [made |-> 0, paid |-> 0, amount |-> 0]]
    /\ order = [r \in Requests |-> None]

-----------------------------------------------------------------------------
(* Prices and quotes                                                       *)

\* What the two sources say, 0 for an error; the second is asked after the first.
Rate(coinGecko, binance) == IF coinGecko # 0 THEN coinGecko ELSE binance

(* A rate that is zero or unchanged is not taken: one known is never lost. *)
FetchPrice ==
    /\ \E c, b \in Prices \cup {0} :
          /\ Rate(c, b) \notin {0, price}
          /\ price' = Rate(c, b)
    /\ UNCHANGED <<quote, req, oauth, charge, order>>

NewQuote(native, rail) == [rate |-> price, native |-> native, rail |-> rail,
    total |-> Subtotal + Fee(native), consumed |-> FALSE, expired |-> FALSE]

HandleQuote(q, native, rail) ==
    /\ price > 0 /\ quote[q] = None
    /\ quote' = [quote EXCEPT ![q] = NewQuote(native, rail)]
    /\ UNCHANGED <<price, req, oauth, charge, order>>

QuoteExpires(q) ==
    /\ quote[q] # None /\ ~quote[q].expired
    /\ quote' = [quote EXCEPT ![q].expired = TRUE]
    /\ UNCHANGED <<price, req, oauth, charge, order>>

\* ConsumeQuote, under the lock of the row.
Consumable(q, native, rail) ==
    /\ quote[q] # None /\ ~quote[q].consumed /\ ~quote[q].expired
    /\ quote[q].native = native /\ quote[q].rail = rail

(* What the request charges: the provider's withdrawal fee is added to the *)
(* fee of the quote, which holds it already, and to the fee of a request   *)
(* without a quote.                                                        *)
Total(q, native) ==
    IF q = None THEN Subtotal + 1 + ProviderFee(native)
    ELSE quote[q].total + ProviderFee(native)

\* A request that has ended holds nothing but what its order says.
Fails(r) == req' = [req EXCEPT ![r] = [NewRequest EXCEPT !.at = "failed"]]

(* handleCreateBuy up to the charge.  A request that is refused after its  *)
(* quote was consumed does not give it back.  The rate of a request        *)
(* without a quote, which may bring its own, is not followed.              *)
CreateBuy(r, q, native, rail) ==
    /\ req[r].at = "new"
    /\ q # None => Consumable(q, native, rail)
    /\ quote' = IF q = None THEN quote ELSE [quote EXCEPT ![q].consumed = TRUE]
    /\ \/ /\ price > 0
          /\ req' = [req EXCEPT ![r] = [@ EXCEPT !.at = "token", !.quote = q,
                 !.native = native, !.rail = rail, !.total = Total(q, native),
                 !.rate = IF q = None THEN 0 ELSE quote[q].rate]]
       \/ Fails(r)
    /\ UNCHANGED <<price, oauth, charge, order>>

-----------------------------------------------------------------------------
(* The access token of a rail                                              *)

(* The token in the hand of a request, and the one its first call had.     *)
WithToken(r, t) == [req[r] EXCEPT !.at = "send", !.use = t,
                                  !.token = IF @ = 0 THEN t ELSE @]

(* beginEfiTokenRefresh, under efiMu.                                      *)
BeginEfiTokenRefresh(r) ==
    LET l == req[r].rail IN
    /\ req[r].at = "token"
    /\ \/ /\ token[l] # 0
          /\ req' = [req EXCEPT ![r] = WithToken(r, token[l])]
          /\ UNCHANGED refreshing
       \/ /\ token[l] = 0 /\ refreshing[l]
          /\ req' = [req EXCEPT ![r].at = "wait", ![r].channel = closed[l] + 1]
          /\ UNCHANGED refreshing
       \/ /\ token[l] = 0 /\ ~refreshing[l]
          /\ req' = [req EXCEPT ![r].at = "fetch"]
          /\ refreshing' = [refreshing EXCEPT ![l] = TRUE]
    /\ UNCHANGED <<price, quote, token, closed, issued, revoked, charge, order>>

(* The channel was closed, or the client has gone.                         *)
Wakes(r) ==
    /\ req[r].at = "wait"
    /\ \/ req[r].channel <= closed[req[r].rail] /\ req' = [req EXCEPT ![r].at = "token", ![r].channel = 0]
       \/ Fails(r)
    /\ UNCHANGED <<price, quote, oauth, charge, order>>

(* The call of the token endpoint; every error goes to the deferred finish.*)
FetchToken(r) ==
    LET l == req[r].rail IN
    /\ req[r].at = "fetch"
    /\ \/ /\ issued[l] < MaxTokens
          /\ issued' = [issued EXCEPT ![l] = @ + 1]
          /\ revoked' = [revoked EXCEPT ![l] = FALSE]
          /\ req' = [req EXCEPT ![r].at = "store", ![r].use = issued[l] + 1]
       \/ /\ req' = [req EXCEPT ![r].at = "finish", ![r].use = 0]
          /\ UNCHANGED <<issued, revoked>>
    /\ UNCHANGED <<price, quote, token, refreshing, closed, charge, order>>

StoreEfiToken(r) ==
    /\ req[r].at = "store"
    /\ token' = [token EXCEPT ![req[r].rail] = req[r].use]
    /\ req' = [req EXCEPT ![r].at = "finish"]
    /\ UNCHANGED <<price, quote, refreshing, closed, issued, revoked, charge, order>>

Closed(r) == closed[req[r].rail] + 1

FinishEfiTokenRefresh(r) ==
    LET l == req[r].rail IN
    /\ req[r].at = "finish"
    /\ closed' = [closed EXCEPT ![l] = Closed(r)]
    /\ refreshing' = [refreshing EXCEPT ![l] = FALSE]
    /\ IF req[r].use = 0 THEN Fails(r)
       ELSE req' = [req EXCEPT ![r] = WithToken(r, req[r].use)]
    /\ UNCHANGED <<price, quote, token, issued, revoked, charge, order>>

TokenExpires(l) ==
    /\ token[l] # 0
    /\ token' = [token EXCEPT ![l] = 0]
    /\ UNCHANGED <<price, quote, req, refreshing, closed, issued, revoked, charge, order>>

Revokes(l) ==
    /\ issued[l] > 0 /\ ~revoked[l]
    /\ revoked' = [revoked EXCEPT ![l] = TRUE]
    /\ UNCHANGED <<price, quote, req, token, refreshing, closed, issued, charge, order>>

-----------------------------------------------------------------------------
(* The charge                                                              *)

(* What Efi does with a call it takes: a Pix charge is kept under the txid *)
(* made of the order's id, and put again it is the same.                   *)
Carried(r) ==
    LET c == charge[r] IN
    IF req[r].step = "pay" THEN [c EXCEPT !.paid = @ + 1]
    ELSE [c EXCEPT !.made = @ + 1, !.amount = req[r].total]

Accepted(r) == req[r].use = issued[req[r].rail] /\ ~revoked[req[r].rail]

\* Mutant: a call without an answer is repeated too.
RepeatableAnyway(r, answer) == ~req[r].again
\* efiBillingRequestWithAuthRetry: only the card rail, only a 401, only once
Repeatable(r, answer) == req[r].rail = "card" /\ answer = "401" /\ ~req[r].again

(* A call that failed is repeated with a new token, or ends the request;   *)
(* the token in the cache is dropped whatever it is.                       *)
NotDone(r, answer) ==
    IF Repeatable(r, answer)
    THEN /\ token' = [token EXCEPT ![req[r].rail] = 0]
         /\ req' = [req EXCEPT ![r].at = "token", ![r].again = TRUE]
    ELSE Fails(r) /\ UNCHANGED token

(* The card rail makes a charge and then pays it, with the token it had    *)
(* at first; Pix goes on to the QR code.                                   *)
Answered(r) ==
    req' = [req EXCEPT ![r] =
        IF @.rail = "pix" THEN [@ EXCEPT !.at = "qr"]
        ELSE IF @.step = "charge" THEN [@ EXCEPT !.step = "pay", !.use = req[r].token,
                                                 !.again = FALSE]
        ELSE [@ EXCEPT !.at = "insert"]]

Send(r) ==
    /\ req[r].at = "send"
    /\ \/ /\ Accepted(r)
          /\ charge' = [charge EXCEPT ![r] = Carried(r)]
          /\ \/ Answered(r) /\ UNCHANGED token
             \/ NotDone(r, "no answer")
       \/ ~Accepted(r) /\ NotDone(r, "401") /\ UNCHANGED charge
       \/ NotDone(r, "refused") /\ UNCHANGED charge
    /\ UNCHANGED <<price, quote, refreshing, closed, issued, revoked, order>>

EfiQRCode(r) ==
    /\ req[r].at = "qr"
    /\ Fails(r) \/ req' = [req EXCEPT ![r].at = "insert"]
    /\ UNCHANGED <<price, quote, oauth, charge, order>>

(* CreateBuyOrder; when it fails the customer is told so.                  *)
CreateBuyOrder(r) ==
    /\ req[r].at = "insert"
    /\ \/ /\ order' = [order EXCEPT ![r] = req[r].total]
          /\ req' = [req EXCEPT ![r] = [NewRequest EXCEPT !.at = "done", !.quote = req[r].quote,
                 !.native = req[r].native, !.rail = req[r].rail, !.rate = req[r].rate]]
       \/ Fails(r) /\ UNCHANGED order
    /\ UNCHANGED <<price, quote, oauth, charge>>

Next ==
    \/ FetchPrice
    \/ \E q \in Quotes : QuoteExpires(q) \/ \E b \in BOOLEAN, l \in Rails : HandleQuote(q, b, l)
    \/ \E r \in Requests :
          \/ \E q \in Quotes \cup {None}, b \in BOOLEAN, l \in Rails : CreateBuy(r, q, b, l)
          \/ BeginEfiTokenRefresh(r) \/ Wakes(r) \/ FetchToken(r) \/ StoreEfiToken(r)
          \/ FinishEfiTokenRefresh(r) \/ Send(r) \/ EfiQRCode(r) \/ CreateBuyOrder(r)
    \/ \E l \in Rails : TokenExpires(l) \/ Revokes(l)

Spec == Init /\ [][Next]_vars

-----------------------------------------------------------------------------
(* One request fetches the token of a rail at a time, and whoever waits is *)
(* on a channel that was closed or that this one will close: no error,     *)
(* expiry or invalidation leaves a request waiting for nobody              *)
(* (payment_provider.go:403-445).                                          *)
Fetching(l) == {r \in Requests : req[r].rail = l /\ req[r].at \in {"fetch", "store", "finish"}}
NobodyWaitsInVain ==
    /\ \A l \in Rails : Cardinality(Fetching(l)) = IF refreshing[l] THEN 1 ELSE 0
    /\ \A r \in Requests : req[r].at = "wait" =>
           \/ req[r].channel <= closed[req[r].rail]
           \/ refreshing[req[r].rail] /\ req[r].channel = closed[req[r].rail] + 1

(* Whatever the tokens do, a card is charged once at most, and an order is *)
(* for a charge of its own amount (payment_provider.go:489-501).           *)
ChargedOnce ==
    /\ \A r \in Requests : charge[r].made <= 1 /\ charge[r].paid <= charge[r].made
    /\ \A r \in Requests : order[r] # None =>
           /\ charge[r].made = 1 /\ charge[r].amount = order[r]
           /\ req[r].rail = "card" => charge[r].paid = 1

(* A quote makes one order at most, at the rate and the total it showed;   *)
(* but for BTC on Bitcoin, where the provider's fee is added again.        *)
QuoteIsKept ==
    \A r \in Requests : order[r] # None /\ req[r].quote # None =>
        LET q == req[r].quote IN
        /\ \A s \in Requests \ {r} : order[s] = None \/ req[s].quote # q
        /\ req[r].rate = quote[q].rate
        /\ order[r] = quote[q].total + ProviderFee(quote[q].native)
=============================================================================
