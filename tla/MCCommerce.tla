----------------------------- MODULE MCCommerce -----------------------------
(***************************************************************************)
(* What is bought with the balances of the gateway, for one run of TLC:    *)
(* agent trades ("trade"), the agent marketplace ("access") and gift cards *)
(* ("gift").  They share no state, and the scenario, chosen in the initial *)
(* state, is the one that moves.                                           *)
(***************************************************************************)
EXTENDS AgentTrade, AgentAccess, GiftCardOrder, TLC

CONSTANTS t1, t2, x1, x2, k1, k2, c1, c2

Interchangeable == Permutations(Trades) \cup Permutations(Txs) \cup Permutations(Keys)
                   \cup Permutations(Calls)

CONSTANTS p1, p2, p3, x3, k3, o1, o2

VARIABLE scenario

\* p1 and p2 are purchases, p3 is an access quote
Quota == [p \in {p1, p2, p3} |-> IF p = p1 THEN 1 ELSE 2]

\* o1 is paid from the wallet, o2 by a transfer
GiftQuotes == (o1 :> o1) @@ (o2 :> o2)

-----------------------------------------------------------------------------
InitAll == /\ scenario \in {"trade", "access", "gift"}
           /\ Init /\ AccessInit /\ GiftInit
NextAll ==
    \/ scenario = "trade" /\ Next /\ UNCHANGED <<scenario, aavars, gcvars>>
    \/ scenario = "access" /\ AccessNext /\ UNCHANGED <<scenario, atvars, gcvars>>
    \/ scenario = "gift" /\ GiftNext /\ UNCHANGED <<scenario, atvars, aavars>>
SpecAll == InitAll /\ [][NextAll]_<<scenario, atvars, aavars, gcvars>>
=============================================================================
