-------------------------------- MODULE MCEvm --------------------------------
(***************************************************************************)
(* What leaves the gateway to another wallet, for one run of TLC: BUY      *)
(* orders ("buy"), the EVM transfers of one user ("transfer": a request    *)
(* sent twice and two more), and Solana, with one key before two replicas  *)
(* ("replicas") or two keys before one ("keys").  They share no state; the *)
(* scenario, chosen in the initial state, is what moves.                   *)
(***************************************************************************)
EXTENDS BuyOrder, WalletTransfer, SolanaWallet, TLC

CONSTANTS o1, o2, w1, w2, h1, h2, bingx

Note(raw, e2e) == [raw |-> raw, e2e |-> e2e]
Refunded == <<Note("waiting", ""), Note("paid", ""), Note("refunded", "")>>
Pix == <<Note("CONCLUIDA", "e1")>>

\* o1, a Pix of a pair that a provider lists too, next to o2, a card charge that
\* is paid and refunded, of the hot wallet
MixedKind  == (o1 :> "pix") @@ (o2 :> "card")
MixedNotes == (o1 :> Pix) @@ (o2 :> Refunded)
FirstQuoted == (o1 :> Providers) @@ (o2 :> {})

Interchangeable == Permutations(Workers) \cup Permutations(Handlers)

CONSTANTS k1, k2, k3, r1, r2, r3, r4, s1, s2, s3, d1, v1, v2

\* r1 and r2 are one request, sent twice
RequestKeys == (r1 :> k1) @@ (r2 :> k1) @@ (r3 :> k2) @@ (r4 :> k3)

\* s1 and s2 are one withdrawal of the user, sent twice, and s3 another
WithdrawalKeys == (s1 :> k1) @@ (s2 :> k1) @@ (s3 :> k2)

VARIABLE scenario

InitAll ==
    /\ scenario \in {"buy", "transfer", "replicas", "keys"}
    /\ Init /\ TransferInit /\ SolanaInit
NextAll ==
    \/ scenario = "buy" /\ Next /\ UNCHANGED <<scenario, transfervars, solvars>>
    \/ scenario = "transfer" /\ TransferNext /\ UNCHANGED <<scenario, vars, solvars>>
    \/ /\ scenario = "replicas" /\ SolanaNext /\ UNCHANGED <<scenario, vars, transfervars>>
       /\ call'[s3] = call[s3]
    \/ /\ scenario = "keys" /\ SolanaNext /\ UNCHANGED <<scenario, vars, transfervars>>
       /\ call'[s2] = call[s2] /\ worker'[v2] = worker[v2] /\ UNCHANGED arrived
SpecAll == InitAll /\ [][NextAll]_<<scenario, vars, transfervars, solvars>>
=============================================================================
