------------------------------- MODULE MCLive -------------------------------
(***************************************************************************)
(* What must happen in the end, for TLC: deliveries of BUY orders, Mobile  *)
(* Pay and the bus of events, each with its own variables; the scenario, chosen in the    *)
(* initial state, is the component that moves, and the fairness is that of *)
(* its module.                                                             *)
(***************************************************************************)
EXTENDS BuyOrder, TLC

CONSTANTS o1, o2, w1, w2, h1, bingx, p1, t1, c1, v1, None

\* two paid BUY orders, one created by the recurring buys, compete for the workers
BuyKind == (o1 :> "pix") @@ (o2 :> "dca")
BuyNotes == (o1 :> <<[raw |-> "CONCLUIDA", e2e |-> "e1"]>>) @@ (o2 :> <<>>)
BuyQuoted == (o1 :> {}) @@ (o2 :> {bingx})

VARIABLES scenario, payIntent, payFundTx, payExpired, payFunding, payExec, payRefund,
          paySeen, payCall, payTask, payRtask, payChain, payEfi, payWire, paySigner,
          payAgain, ebSubs, ebQueue, ebOpen, ebBusClosed, ebThread, ebPublished,
          ebDropped, ebHandled, ebTarget

payVars == <<payIntent, payFundTx, payExpired, payFunding, payExec, payRefund, paySeen,
            payCall, payTask, payRtask, payChain, payEfi, payWire, paySigner, payAgain>>
ebVars == <<ebSubs, ebQueue, ebOpen, ebBusClosed, ebThread, ebPublished, ebDropped,
            ebHandled, ebTarget>>
all == <<scenario, vars, payVars, ebVars>>

Pay == INSTANCE MobilePay WITH Payments <- {p1}, Txs <- {t1}, Unpayable <- {},
    Calls <- {c1}, Workers <- {w1}, RefundWorkers <- {v1}, MaxAttempts <- 2,
    MaxRefundAttempts <- 2, MinNotFound <- 2, None <- None, intent <- payIntent,
    fundTx <- payFundTx, expired <- payExpired, funding <- payFunding, exec <- payExec,
    refund <- payRefund, seen <- paySeen, call <- payCall, task <- payTask,
    rtask <- payRtask, chain <- payChain, efi <- payEfi, wire <- payWire,
    signer <- paySigner, again <- payAgain

Bus == INSTANCE EventBus WITH Workers <- {w1, w2}, Senders <- {h1}, Leavers <- {w1},
    Capacity <- 1, MaxEvents <- 2, subs <- ebSubs, queue <- ebQueue, open <- ebOpen,
    busClosed <- ebBusClosed, thread <- ebThread, published <- ebPublished,
    dropped <- ebDropped, handled <- ebHandled, target <- ebTarget

BuyMoves == scenario = "buy" /\ UNCHANGED <<scenario, payVars, ebVars>>
PayMoves == scenario = "pay" /\ UNCHANGED <<scenario, vars, ebVars>>
BusMoves == scenario = "bus" /\ UNCHANGED <<scenario, vars, payVars>>

InitAll == scenario \in {"buy", "pay", "bus"} /\ Init /\ Pay!Init /\ Bus!Init
NextAll == \/ BuyMoves /\ Next
           \/ PayMoves /\ Pay!Next
           \/ BusMoves /\ Bus!Next

(* Fairness of BuyOrder and EventBus, FairSpec of MobilePay.               *)
BuyFairness ==
    /\ \A w \in Workers : WF_all(BuyMoves /\ WorkerStep(w))
    /\ \A o \in Orders : WF_all(BuyMoves /\ SixtySecondsPass(o))
PayFairness ==
    /\ WF_all(PayMoves /\ Pay!Runs(w1)) /\ WF_all(PayMoves /\ Pay!Refunds(v1))
    /\ WF_all(PayMoves /\ Pay!RecoverStaleProcessing(p1))
    /\ WF_all(PayMoves /\ Pay!RecoverStaleRefunds(p1))
BusFairness ==
    /\ \A t \in {w1, w2, h1} : WF_all(BusMoves /\ Bus!LoopStep(t))
    /\ WF_all(BusMoves /\ Bus!Close(h1)) /\ WF_all(BusMoves /\ Bus!Unsubscribe(w1))

FairSpecAll == InitAll /\ [][NextAll]_all /\ BuyFairness /\ PayFairness
               /\ BusFairness

-----------------------------------------------------------------------------
(* A Mobile Pay execution, and a refund, leave the workers' queues: module *)
(* MobilePay.                                                              *)
PaymentsEnd == Pay!ExecutionEnds /\ Pay!RefundEnds

(* No publisher waits for ever, and the bus can be shut down: module       *)
(* EventBus.                                                               *)
BusGoesOn == Bus!BusGoesOn
=============================================================================
