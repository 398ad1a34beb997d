----------------------------- MODULE MCServices -----------------------------
(***************************************************************************)
(* The components that share no state with one another, for TLC: Mobile    *)
(* Pay, ChainFX Tap, recurring buys and the gas station.  Each has its own *)
(* variables; the scenario, chosen in the initial state, is what moves.    *)
(***************************************************************************)
EXTENDS MobilePay, GasRelay, NfcSettlement, DcaCycle, TLC

CONSTANTS w1, w2, w3, p1, t1, c1, c2, v1, a1, a2, x1, g1, g2, g3, s1, s2

Interchangeable == Permutations(Workers) \cup Permutations(Calls)

TapTokens == (a1 :> a1) @@ (a2 :> a2)  \* each tap with a token of its own

VARIABLE scenario

\* g1 and g2 are one signature, sent twice.
OneSentTwice == g1 :> s1 @@ g2 :> s1 @@ g3 :> s2

-----------------------------------------------------------------------------
InitAll == scenario \in {"pay", "nfc", "dca", "gas"} /\ Init /\ TapInit /\ DcaInit /\ GasInit
NextAll ==
    \/ scenario = "pay" /\ Next /\ UNCHANGED <<scenario, tapvars, dcavars, gasvars>>
    \/ scenario = "nfc" /\ TapNext /\ UNCHANGED <<scenario, vars, dcavars, gasvars>>
    \/ scenario = "dca" /\ DcaNext /\ UNCHANGED <<scenario, vars, tapvars, gasvars>>
    \/ scenario = "gas" /\ GasNext /\ UNCHANGED <<scenario, vars, tapvars, dcavars>>
SpecAll == InitAll /\ [][NextAll]_<<scenario, vars, tapvars, dcavars, gasvars>>

=============================================================================
