------------------------------ MODULE MCBitcoin ------------------------------
(***************************************************************************)
(* The two sides of Bitcoin for one run of TLC: the treasury that delivers *)
(* BUY orders ("treasury") and the wallets of the users ("wallet": two     *)
(* withdrawals that both need the one recorded UTXO, with the tracker      *)
(* beside them).  They share no state, and the scenario, chosen in the     *)
(* initial state, says which one moves.                                    *)
(***************************************************************************)
EXTENDS BtcTreasury, BtcWallet, TLC

CONSTANTS o1, o2, u1, u2, u3, w1, w2, s1, s2, k1, r1

\* o1 takes one UTXO, o2 takes two.
Needs == [o \in Orders |-> IF o = o1 THEN 1 ELSE 2]

Interchangeable == Permutations(Utxos) \cup Permutations(Workers)

VARIABLE scenario

InitAll == /\ scenario \in {"treasury", "wallet"} /\ Init /\ WalletInit
           /\ scenario = "wallet" => deep = {}
NextAll ==
    \/ scenario = "treasury" /\ Next /\ UNCHANGED <<scenario, btcvars>>
    \/ scenario = "wallet" /\ WalletNext /\ UNCHANGED <<scenario, vars>>
SpecAll == InitAll /\ [][NextAll]_<<scenario, vars, btcvars>>
=============================================================================
