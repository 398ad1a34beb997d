--------------------------- MODULE PayoutPromise ---------------------------
(***************************************************************************)
(* What the automatic SELL payout promises about one order's PIX: there is *)
(* one transfer, it is requested once and settles once, and the gateway's  *)
(* verdict is "completed" only after that transfer was really made, from   *)
(* which moment the verdict never changes again.  Nothing is said of       *)
(* workers, events, retries or leases; SellPayout is shown to implement it.*)
(***************************************************************************)
CONSTANT Orders

VARIABLES transfer,  \* [Orders -> {"none", "processing", "done", "refused"}]
          verdict    \* [Orders -> {"open", "completed", "rejected"}]

promise == <<transfer, verdict>>

Init == /\ transfer = [o \in Orders |-> "none"]
        /\ verdict  = [o \in Orders |-> "open"]

Request(o) ==
    /\ transfer[o] = "none"
    /\ \E s \in {"processing", "done", "refused"} : transfer' = [transfer EXCEPT ![o] = s]
    /\ UNCHANGED verdict

Settle(o) ==
    /\ transfer[o] = "processing"
    /\ \E s \in {"done", "refused"} : transfer' = [transfer EXCEPT ![o] = s]
    /\ UNCHANGED verdict

Judge(o) ==
    /\ verdict[o] # "completed"
    /\ \E v \in {"open", "completed", "rejected"} :
         /\ v = "completed" => transfer[o] = "done"
         /\ verdict' = [verdict EXCEPT ![o] = v]
    /\ UNCHANGED transfer

Next == \E o \in Orders : Request(o) \/ Settle(o) \/ Judge(o)

Spec == Init /\ [][Next]_promise
=============================================================================
