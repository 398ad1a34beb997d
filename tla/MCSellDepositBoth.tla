------------------------- MODULE MCSellDepositBoth -------------------------
(***************************************************************************)
(* What the watcher of the chain serves, for one run of TLC.  "shared":    *)
(* two orders of the same amount at the hot wallet (the constants of the   *)
(* .cfg).  "own": an order at an address of its own, with one short and    *)
(* one full transfer.  "m2m": agent payment intents at a treasury address. *)
(* "sale" and "gate": trades of the mobile app, of BTC and of tokens.      *)
(* Each has its own variables; the scenario says which one moves.          *)
(***************************************************************************)
EXTENDS SellDeposit, M2MSettlement, MobileTrade, TLC

CONSTANTS o1, o2, o3, t1, t2, p1, p2

Addr(o) == IF o = o3 THEN "own" ELSE "shared"
SharedOrders == [o \in Orders |-> Addr(o)]
FullAmounts  == [o \in Orders |-> 2]

(* All transfers reach one address with the full amount, or t1 alone falls *)
(* short.                                                                  *)
ToShared == [t \in Txs |-> "shared"]
ToOwn    == [t \in Txs |-> "own"]
AllFull  == [t \in Txs |-> 2]
T1Short  == [t \in Txs |-> IF t = t1 THEN 1 ELSE 2]

PollerSymmetry == Permutations(Pollers)

CONSTANTS i1, i2, q1, q2, q3, q4, c1, c2, r1, u1

VARIABLES scenario, oOrd, oDtx, oExpired, oIncident, oCursor, oHead, oBlock, oPoll, oErrors

ovars == <<oOrd, oDtx, oExpired, oIncident, oCursor, oHead, oBlock, oPoll, oErrors>>

OwnAddr == o3 :> "own"
OwnAmount == o3 :> 2

Own == INSTANCE SellDeposit WITH Orders <- {o3}, OrderAddr <- OwnAddr,
    OrderAmount <- OwnAmount, TxAddr <- ToOwn, TxAmount <- T1Short, Lookback <- 4,
    MaxBlock <- 4, ord <- oOrd, dtx <- oDtx, expired <- oExpired, incident <- oIncident,
    cursor <- oCursor, head <- oHead, block <- oBlock, poll <- oPoll, errors <- oErrors

Asked == [i \in Intents |-> IF i = i1 THEN 1 ELSE 2]
Carried == [t \in {t1, t2} |-> IF t = t1 THEN 1 ELSE 2]

\* q1 and q2 are sales of BTC, q3 is a sale and q4 a purchase of tokens
Sides == [q \in Quotes |-> IF q \in {q1, q2} THEN "btc" ELSE IF q = q3 THEN "sell" ELSE "buy"]
Alike == [q \in Quotes |-> 1]
AnyQuote == [k \in Keys |-> Quotes]

\* Sales of BTC: one request at a time, the first key for q1, the second for q2.
OnlySales ==
    /\ issued' \subseteq {q1, q2} /\ call'[c2] = Unserved
    /\ \A k \in Keys : op'[k].body \in {Null, IF k = 1 THEN q1 ELSE q2}
\* Tokens: two requests at a time, with any key for any quote, and no deposit.
OnlyTokens == issued' \subseteq {q3, q4} /\ UNCHANGED deposits

InitAll ==
    /\ scenario \in {"shared", "own", "m2m", "sale", "gate"}
    /\ Init /\ Own!Init /\ M2MInit /\ TradeInit
NextAll ==
    \/ scenario = "shared" /\ Next /\ UNCHANGED <<scenario, ovars, m2mvars, tradevars>>
    \/ scenario = "own" /\ Own!Next /\ UNCHANGED <<scenario, vars, m2mvars, tradevars>>
    \/ scenario = "m2m" /\ M2MNext /\ UNCHANGED <<scenario, vars, ovars, tradevars>>
    \/ scenario = "sale" /\ TradeNext /\ OnlySales /\ UNCHANGED <<scenario, vars, ovars, m2mvars>>
    \/ scenario = "gate" /\ TradeNext /\ OnlyTokens /\ UNCHANGED <<scenario, vars, ovars, m2mvars>>
SpecAll == InitAll /\ [][NextAll]_<<scenario, vars, ovars, m2mvars, tradevars>>

-----------------------------------------------------------------------------
(* With one short and one full transfer to the order's own address, the    *)
(* shared cursor passes no deposit that nobody handled (NoDepositSkipped   *)
(* of SellDeposit), and what is paid was paid in full.                     *)
OwnDepositIsHandled == Own!TypeOK /\ Own!NoDepositSkipped /\ Own!PaidByConfirmedDeposit
=============================================================================
