--------------------------- MODULE TreasurySweep ---------------------------
(***************************************************************************)
(* The two workers that move USDT to the treasury through the signer:      *)
(* SweepWorker empties deposit addresses into the hot wallet               *)
(* (workers/sweep.go, the sweeps table), AutoSweeperWorker takes what the  *)
(* hot wallet holds above its ceiling to the cold one                      *)
(* (workers/auto_sweeper.go).  Every replica runs both.  External: the     *)
(* signer, which takes one transfer per idempotency key and makes it when  *)
(* it can, perhaps never, and the chain.                                   *)
(***************************************************************************)
EXTENDS Integers, FiniteSets

CONSTANTS Sweeps,     \* rows of the sweeps table
          Replicas,
          HotMax, HotMin,  \* AUTO_SWEEPER_HOT_MAX_USDT and _MIN_USDT in millionths, HotMin <= HotMax
          MinNet,     \* what a sweep must be worth after its costs, in millionths
          Scale,      \* base units of the token per millionth: 10^12 for USDT on BSC
          Holdings,   \* what the hot wallet may hold, in base units
          None

VARIABLES sweep,     \* row -> its status, or None
          listed,    \* replica -> pending rows of this round, not sent yet
          sending,   \* replica -> the row of its call and what the call returned
          due,       \* row -> transfers the signer has taken and not made
          moved,     \* row -> transfers the signer made for it
          wire,      \* rows whose request may still reach the signer
          hot,       \* the hot wallet on chain
          read,      \* replica -> the balance its cycle has read, or None
          ops,       \* amounts the signer took: the key of a cycle's transfer
          pending,   \* of them, the ones not on chain yet
          touched    \* the wallet moved otherwise during a cycle or a pending transfer

vars == <<sweep, listed, sending, due, moved, wire, hot, read, ops, pending, touched>>
rows == <<sweep, listed, sending, due, moved, wire>>
auto == <<hot, read, ops, pending, touched>>

NoCall == [sweep |-> None, answer |-> "none"]

TypeOK ==
    /\ sweep \in [Sweeps -> {None, "pending", "sent", "failed"}]
    /\ listed \in [Replicas -> SUBSET Sweeps]
    /\ sending \in [Replicas -> [sweep : Sweeps \cup {None},
                                 answer : {"none", "accepted", "failed"}]]
    /\ due \in [Sweeps -> Nat] /\ moved \in [Sweeps -> Nat] /\ wire \subseteq Sweeps
    /\ hot \in Nat /\ read \in [Replicas -> Nat \cup {None}]
    /\ ops \subseteq Nat /\ pending \subseteq ops
    /\ touched \in BOOLEAN

Init ==
    /\ sweep = [s \in Sweeps |-> None]
    /\ listed = [r \in Replicas |-> {}] /\ sending = [r \in Replicas |-> NoCall]
    /\ due = [s \in Sweeps |-> 0] /\ moved = [s \in Sweeps |-> 0] /\ wire = {}
    /\ hot \in Holdings
    /\ read = [r \in Replicas |-> None] /\ ops = {} /\ pending = {}
    /\ touched = FALSE

-----------------------------------------------------------------------------
(* SweepWorker.  derivation_index is never written, so OrdersToSweep finds *)
(* no order and every row comes from the internal endpoint.                *)

CreateSweep(s) ==
    /\ sweep[s] = None
    /\ sweep' = [sweep EXCEPT ![s] = "pending"]
    /\ UNCHANGED <<listed, sending, due, moved, wire, auto>>

ListPendingSweeps(r) ==
    /\ listed[r] = {} /\ sending[r] = NoCall
    /\ listed' = [listed EXCEPT ![r] = {s \in Sweeps : sweep[s] = "pending"}]
    /\ listed'[r] # {}
    /\ UNCHANGED <<sweep, sending, due, moved, wire, auto>>

\* Mutant: the signer does not know the key.
TakenAgain(s) == [due EXCEPT ![s] = @ + 1]
\* the signer takes a transfer for the key, the row's id, the first time
Taken(s) == [due EXCEPT ![s] = IF due[s] + moved[s] = 0 THEN 1 ELSE @]

(* sendSweep: the row is not looked at again.  Any 2xx is "accepted": the  *)
(* status of the answer is not read, and an absent hash is made up.  The   *)
(* request may also be refused, or end without an answer before or after   *)
(* it was taken.                                                           *)
SendSweep(r, s) ==
    /\ s \in listed[r] /\ sending[r] = NoCall
    /\ listed' = [listed EXCEPT ![r] = @ \ {s}]
    /\ \/ /\ due' = Taken(s) /\ UNCHANGED wire
          /\ \E a \in {"accepted", "failed"} :
                sending' = [sending EXCEPT ![r] = [sweep |-> s, answer |-> a]]
       \/ /\ wire' \in {wire, wire \cup {s}} /\ UNCHANGED due
          /\ sending' = [sending EXCEPT ![r] = [sweep |-> s, answer |-> "failed"]]
    /\ UNCHANGED <<sweep, moved, auto>>

WireArrives(s) ==
    /\ s \in wire
    /\ wire' = wire \ {s} /\ due' = Taken(s)
    /\ UNCHANGED <<sweep, listed, sending, moved, auto>>

(* External: what was signed, in an unknown broadcast or in manual review  *)
(* is broadcast, at any time or never.                                     *)
SignerMoves(s) ==
    /\ due[s] > 0
    /\ due' = [due EXCEPT ![s] = @ - 1] /\ moved' = [moved EXCEPT ![s] = @ + 1]
    /\ UNCHANGED <<sweep, listed, sending, wire, auto>>

(* MarkSweep writes whatever the row holds; the write itself may fail.     *)
MarkSweep(r) ==
    LET c == sending[r] IN
    /\ c # NoCall
    /\ sending' = [sending EXCEPT ![r] = NoCall]
    /\ sweep' \in {sweep, [sweep EXCEPT ![c.sweep] =
                              IF c.answer = "accepted" THEN "sent" ELSE "failed"]}
    /\ UNCHANGED <<listed, due, moved, wire, auto>>

ReplicaStops(r) ==
    /\ listed[r] # {} \/ sending[r] # NoCall \/ read[r] # None
    /\ listed' = [listed EXCEPT ![r] = {}] /\ sending' = [sending EXCEPT ![r] = NoCall]
    /\ read' = [read EXCEPT ![r] = None]
    /\ UNCHANGED <<sweep, due, moved, wire, hot, ops, pending, touched>>

-----------------------------------------------------------------------------
(* AutoSweeperWorker                                                       *)

Ends(r) == read' = [read EXCEPT ![r] = None]

\* autoSweepOperationID: wallets, token and network are fixed, so the amount is the key
OperationID(amount) == amount

\* balance is in base units and HotMin in millionths: usdtDecimals is 6
Excess(balance) == balance - HotMin
\* rawUSDTToDecimal sends the difference as if it were millionths, and the
\* signer moves that many
Moves(amount) == amount * Scale
Profitable(amount) == amount >= MinNet

\* a cycle has read the balance, or a transfer is not on chain yet
InProgress == pending # {} \/ \E r \in Replicas : read[r] # None

(* executeSweep up to the balance.  The rows of auto_sweeper_runs, which   *)
(* nothing reads back, are left out, and so is a cycle the node fails.     *)
BalanceOf(r) ==
    /\ read[r] = None
    /\ read' = [read EXCEPT ![r] = hot]
    /\ touched' = (touched /\ InProgress)
    /\ UNCHANGED <<rows, hot, ops, pending>>

SkipSweep(r) ==
    /\ read[r] # None
    /\ read[r] <= HotMax \/ Excess(read[r]) <= 0 \/ ~Profitable(Excess(read[r]))
    /\ Ends(r)
    /\ UNCHANGED <<rows, hot, ops, pending, touched>>

(* dispatchSweep: what was read goes out but for the reserve, under a key  *)
(* that two cycles over one balance share.                                 *)
DispatchSweep(r) ==
    LET amount == Excess(read[r]) IN
    /\ read[r] # None
    /\ read[r] > HotMax /\ amount > 0 /\ Profitable(amount)
    /\ \/ /\ ops' = ops \cup {OperationID(amount)}
          /\ pending' = pending \cup ({OperationID(amount)} \ ops)
       \/ \* the signer refuses
          UNCHANGED <<ops, pending>>
    /\ Ends(r)
    /\ UNCHANGED <<rows, hot, touched>>

(* External: a transfer the wallet cannot cover is reverted, which at the  *)
(* Scale of BSC is the rule.                                               *)
Lands(amount) ==
    /\ amount \in pending
    /\ pending' = pending \ {amount}
    /\ hot' = IF hot >= Moves(amount) THEN hot - Moves(amount) ELSE hot
    /\ UNCHANGED <<rows, read, ops, touched>>

\* deliveries of BUY orders, relays, deposits
OtherTransfer(balance) ==
    /\ balance \in Holdings \ {hot}
    /\ hot' = balance
    /\ touched' = (touched \/ InProgress)
    /\ UNCHANGED <<rows, read, ops, pending>>

Next ==
    \/ \E s \in Sweeps : CreateSweep(s) \/ WireArrives(s) \/ SignerMoves(s)
    \/ \E r \in Replicas : \/ ListPendingSweeps(r) \/ MarkSweep(r) \/ ReplicaStops(r)
                           \/ \E s \in Sweeps : SendSweep(r, s)
                           \/ BalanceOf(r) \/ SkipSweep(r) \/ DispatchSweep(r)
    \/ \E a \in ops : Lands(a)
    \/ \E b \in Holdings : OtherTransfer(b)

Spec == Init /\ [][Next]_vars

-----------------------------------------------------------------------------
(* Whatever two replicas list, send and write, a row moves at most once,   *)
(* and one that says sent is in the signer's hands under its own key       *)
(* (sweep.go:110-199).  Not said, for it is not so: that it has moved.     *)
SweepMovesOnce ==
    \A s \in Sweeps : /\ due[s] + moved[s] <= 1
                      /\ sweep[s] = "sent" => due[s] + moved[s] = 1

(* The cycles of all replicas ask for one transfer at a time, unless some  *)
(* other transfer moves the wallet meanwhile: a balance read twice, or     *)
(* read before a transfer landed, has the key of what was already taken    *)
(* (autoSweepOperationID).                                                 *)
OneSweepAtATime == ~touched => Cardinality(pending) <= 1
=============================================================================
