---------------------------- MODULE MCSellPayout ----------------------------
(***************************************************************************)
(* Scenarios of SellPayout for TLC.  "race": two automatic activities and  *)
(* a signer call on one order.  "modes": replicas in manual mode, in       *)
(* simulation and unconfigured beside one automatic activity, with a       *)
(* second order, which has no amount.  "live": automatic activities under  *)
(* the fairness of the scheduler.                                          *)
(***************************************************************************)
EXTENDS SellPayout, TLC

CONSTANTS o1, o2, w1, w2, m1, m2, m3, c1

AllAuto == [w \in Workers |-> "auto"]
ModeOf == (w1 :> "auto") @@ (w2 :> "auto")
          @@ (m1 :> "unconfigured") @@ (m2 :> "simulate") @@ (m3 :> "manual")

VARIABLE scenario

OthersRest == \A m \in {m1, m2, m3} : task'[m] = Idle
AlwaysOneIdle == \E w \in {w1, w2} : task'[w] = Idle

InitAll == /\ scenario \in {"race", "modes"}
           /\ Init
           /\ scenario = "race" => ord[o2] = "aguardando_deposito"

NextAll == \/ /\ scenario = "race" /\ Next /\ UNCHANGED scenario
              /\ OthersRest /\ ord'[o2] = ord[o2] /\ \A c \in Calls : call'[c] # o2
           \/ /\ scenario = "modes" /\ Next /\ UNCHANGED scenario
              /\ AlwaysOneIdle /\ UNCHANGED call

SpecAll == InitAll /\ [][NextAll]_<<scenario, vars>>

\* The two automatic activities are interchangeable, and so are the calls.
PairSymmetry == Permutations({w1, w2}) \cup Permutations(Calls)

\* What happens where every replica is automatic, for the liveness run: the
\* actions of the other modes happen in SpecAll.
AutoNext == (\A w \in Workers : Mode[w] = "auto") /\ Next /\ UNCHANGED scenario
LiveInit == scenario = "live" /\ Init
FairAutoSpec == LiveInit /\ [][AutoNext]_<<scenario, vars>> /\ Fairness
=============================================================================
