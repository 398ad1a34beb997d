----------------------------- MODULE TokenSwap -----------------------------
(***************************************************************************)
(* The swap of one BSC token for another: the quote and the request        *)
(* (mobile/swap.go, pancake_swap.go, db_phase5.go) and the worker that     *)
(* sends it to PancakeSwap (workers/swap.go, pancake_swap.go), through the *)
(* signer or with the user's own key.  A swap is named by its quote, of    *)
(* which the table holds one row.  No process of the repository starts the *)
(* worker yet: the module follows it as it is written.                     *)
(***************************************************************************)
EXTENDS Naturals, FiniteSets

CONSTANTS Swaps, Workers,
          Signer,      \* through the signer, as in production, or with the key
          Prices,      \* what the pool gives, raw
          Slippage,    \* in basis points
          None

VARIABLES config,      \* "on", "off" or another router since the last start
          price,
          quote,       \* the least to be received, or None
          expired,
          row,         \* swaps: its status, and whose hash it carries
          event,       \* swap.created, not yet received
          work,        \* worker -> what it does
          leg          \* swap, worker -> what became of the transaction

vars == <<config, price, quote, expired, row, event, work, leg>>

Requested == {"pending", "execution_requested"}
NoRow == [st |-> "none", hash |-> None]
Idle == [at |-> "idle", swap |-> None]

TypeOK ==
    /\ config \in {"on", "off", "other"} /\ price \in Prices
    /\ quote \in [Swaps -> Nat \cup {None}] /\ expired \subseteq Swaps
    /\ row \in [Swaps -> [st : Requested \cup {"none", "route_unavailable", "signing",
                                 "broadcast", "completed", "failed"}, hash : Workers \cup {None}]]
    /\ event \subseteq Swaps
    /\ work \in [Workers -> [at : {"idle", "off", "mark", "read", "check", "key", "post", "price",
           "approve", "broadcast", "send", "await", "complete", "fail"}, swap : Swaps \cup {None}]]
    /\ leg \in [Swaps -> [Workers -> {"none", "sent", "moved", "same", "refused"}]]

Init ==
    /\ config = "on" /\ price \in Prices
    /\ quote = [s \in Swaps |-> None] /\ expired = {}
    /\ row = [s \in Swaps |-> NoRow] /\ event = {}
    /\ work = [w \in Workers |-> Idle]
    /\ leg = [s \in Swaps |-> [w \in Workers |-> "none"]]

-----------------------------------------------------------------------------
(* A user asks for a quote and then for the swap.                          *)

MinOutRaw(out) == (out * (10000 - Slippage)) \div 10000

(* callPancakeAmountsOut, with every node tried.                           *)
AmountsOut == price

PancakeQuote(s) == quote' = [quote EXCEPT ![s] = MinOutRaw(AmountsOut)]

HandleSwapQuote(s) ==
    /\ config # "off" /\ quote[s] = None
    /\ PancakeQuote(s)
    /\ UNCHANGED <<config, price, expired, row, event, work, leg>>

(* Sixty seconds.                                                          *)
QuoteExpires(s) ==
    /\ quote[s] # None /\ s \notin expired
    /\ expired' = expired \cup {s}
    /\ UNCHANGED <<config, price, quote, row, event, work, leg>>

PriceMoves ==
    /\ price' \in Prices \ {price}
    /\ UNCHANGED <<config, quote, expired, row, event, work, leg>>

(* The unique index on the quote lets one request in.                      *)
CreateSwap(s) ==
    /\ row[s] = NoRow
    /\ row' = [row EXCEPT ![s].st = "execution_requested"]

(* The bus may drop the event.                                             *)
HandleSwapExecute(s) ==
    /\ config # "off" /\ quote[s] # None /\ s \notin expired
    /\ CreateSwap(s)
    /\ event' \in {event, event \cup {s}}
    /\ UNCHANGED <<config, price, quote, expired, work, leg>>

-----------------------------------------------------------------------------
(* The worker.                                                             *)

At(w, at) == work[w].at = at
Goto(w, at) == work' = [work EXCEPT ![w].at = at]
Ends(w) == work' = [work EXCEPT ![w] = Idle]
Status(w, st) == row' = [row EXCEPT ![work[w].swap].st = st]
OnlyWork == UNCHANGED <<config, price, quote, expired, row, event, leg>>

(* executeSwap's select takes no lock.                                     *)
ExecuteSwap(w, s) ==
    /\ At(w, "idle")
    /\ IF row[s].st \in Requested
       THEN work' = [work EXCEPT ![w] = [at |-> IF config = "off" THEN "off" ELSE "mark", swap |-> s]]
       ELSE UNCHANGED work

Receive(w, s) ==
    /\ s \in event /\ event' = event \ {s}
    /\ ExecuteSwap(w, s)
    /\ UNCHANGED <<config, price, quote, expired, row, leg>>

RetryPending(w, s) ==
    /\ row[s].st \in Requested
    /\ ExecuteSwap(w, s)
    /\ OnlyWork

MarkSwapRouteUnavailable(w) ==
    /\ At(w, "off")
    /\ IF row[work[w].swap].st \in Requested
       THEN Status(w, "route_unavailable") \/ UNCHANGED row
       ELSE UNCHANGED row
    /\ Ends(w)
    /\ UNCHANGED <<config, price, quote, expired, event, leg>>

(* The rows of the update are not counted; an error ends the attempt.      *)
MarkSigning(w) ==
    /\ At(w, "mark")
    /\ \/ /\ IF row[work[w].swap].st = "execution_requested"
             THEN Status(w, "signing") ELSE UNCHANGED row
          /\ Goto(w, "read")
       \/ Ends(w) /\ UNCHANGED row
    /\ UNCHANGED <<config, price, quote, expired, event, leg>>

PancakeSwapInstruction(w) ==
    /\ At(w, "read")
    /\ \/ row[work[w].swap].st = "signing" /\ Goto(w, "check")
       \/ Goto(w, "fail")
    /\ OnlyWork

(* What executePancakeSwap requires before it needs a key.                 *)
ExecutePancakeSwap(w) ==
    /\ At(w, "check")
    /\ Goto(w, IF work[w].swap \notin expired /\ config = "on" THEN "key" ELSE "fail")
    /\ OnlyWork

(* The user may have no key, or one that cannot be read.                   *)
MobileSwapWalletKey(w) ==
    /\ At(w, "key")
    /\ \/ Goto(w, IF Signer THEN "post" ELSE "price")
       \/ Goto(w, "fail")
    /\ OnlyWork

Sends(w) == leg' = [leg EXCEPT ![work[w].swap][w] = "sent"]

(* The call of the signer: any 2xx with a hash is the result, and no       *)
(* receipt is awaited.  A call that ends otherwise may have been taken.    *)
ExecuteViaSigner(w) ==
    /\ At(w, "post")
    /\ \/ Sends(w) /\ (Goto(w, "complete") \/ Goto(w, "fail"))
       \/ Goto(w, "fail") /\ UNCHANGED leg
    /\ UNCHANGED <<config, price, quote, expired, row, event>>

CheckAmountsOut(w) ==
    /\ At(w, "price")
    /\ \/ AmountsOut >= quote[work[w].swap] /\ Goto(w, "approve")
       \/ Goto(w, "fail")
    /\ OnlyWork

Approve(w) ==
    /\ At(w, "approve")
    /\ Goto(w, "broadcast") \/ Goto(w, "fail")
    /\ OnlyWork

MarkBroadcast(w) ==
    /\ At(w, "broadcast")
    /\ \/ /\ IF row[work[w].swap].st = "signing" THEN Status(w, "broadcast") ELSE UNCHANGED row
          /\ Goto(w, "send")
       \/ Goto(w, "fail") /\ UNCHANGED row
    /\ UNCHANGED <<config, price, quote, expired, event, leg>>

SendPancakeTransaction(w) ==
    /\ At(w, "send")
    /\ \/ Sends(w) /\ Goto(w, "await")
       \/ Goto(w, "fail") /\ UNCHANGED leg
    /\ UNCHANGED <<config, price, quote, expired, row, event>>

(* waitPancakeReceipt, of the transaction of one's own.                    *)
WaitPancakeReceipt(w) ==
    /\ At(w, "await")
    /\ \/ leg[work[w].swap][w] = "moved" /\ Goto(w, "complete")
       \/ Goto(w, "fail")
    /\ OnlyWork

(* Neither of the last two updates looks at the status.                    *)
CompleteSwap(w) ==
    /\ At(w, "complete")
    /\ \/ row' = [row EXCEPT ![work[w].swap] = [st |-> "completed", hash |-> w]]
       \/ UNCHANGED row
    /\ Ends(w)
    /\ UNCHANGED <<config, price, quote, expired, event, leg>>

FailSwap(w) ==
    /\ At(w, "fail")
    /\ Status(w, "failed") \/ UNCHANGED row
    /\ Ends(w)
    /\ UNCHANGED <<config, price, quote, expired, event, leg>>

(* The process stops, and may start with another configuration.            *)
Restart(w) ==
    /\ ~At(w, "idle")
    /\ Ends(w)
    /\ UNCHANGED <<config, price, quote, expired, row, event, leg>>

Reconfigure ==
    /\ config = "on" /\ \A w \in Workers : At(w, "idle")
    /\ config' \in {"off", "other"}
    /\ UNCHANGED <<price, quote, expired, row, event, work, leg>>

-----------------------------------------------------------------------------
(* Outside: the chain refuses a swap after its deadline or below its       *)
(* minimum, and the signer sends once for one key: the next one who asks   *)
(* is told the same transaction.                                           *)
Repeated(s) == Signer /\ \E w \in Workers : leg[s][w] \in {"moved", "refused"}

Lands(s, w) ==
    /\ leg[s][w] = "sent"
    /\ leg' = [leg EXCEPT ![s][w] =
                 IF Repeated(s) THEN "same"
                 ELSE IF s \notin expired /\ price >= quote[s] THEN "moved" ELSE "refused"]
    /\ UNCHANGED <<config, price, quote, expired, row, event, work>>

Next ==
    \/ \E s \in Swaps : HandleSwapQuote(s) \/ QuoteExpires(s) \/ HandleSwapExecute(s)
    \/ PriceMoves \/ Reconfigure
    \/ \E w \in Workers, s \in Swaps : Receive(w, s) \/ RetryPending(w, s) \/ Lands(s, w)
    \/ \E w \in Workers :
          \/ MarkSwapRouteUnavailable(w) \/ MarkSigning(w) \/ PancakeSwapInstruction(w)
          \/ ExecutePancakeSwap(w) \/ MobileSwapWalletKey(w) \/ ExecuteViaSigner(w)
          \/ CheckAmountsOut(w) \/ Approve(w) \/ MarkBroadcast(w) \/ SendPancakeTransaction(w)
          \/ WaitPancakeReceipt(w) \/ CompleteSwap(w) \/ FailSwap(w) \/ Restart(w)

Spec == Init /\ [][Next]_vars

-----------------------------------------------------------------------------
Moved(s) == {w \in Workers : leg[s][w] = "moved"}

(* Through the signer a swap moves the user's tokens at most once, however *)
(* many workers and restarts took part.                                    *)
SignerMovesOnce == Signer => \A s \in Swaps : Cardinality(Moved(s)) <= 1

(* A completed swap names a transaction that was sent for it, and with the *)
(* user's own key one that moved the tokens; one that is still waiting or  *)
(* was given up for want of a route has sent none.  Not said, for it is    *)
(* not so: that a swap completed through the signer moved anything.        *)
ToldIsTrue == \A s \in Swaps :
    /\ row[s].st = "completed" =>
          /\ row[s].hash \in Workers /\ leg[s][row[s].hash] # "none"
          /\ ~Signer => leg[s][row[s].hash] = "moved"
    /\ row[s].st \in Requested \cup {"none", "route_unavailable"} =>
          \A w \in Workers : leg[s][w] = "none"
=============================================================================
