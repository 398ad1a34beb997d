----------------------------- MODULE DcaCycle -----------------------------
(***************************************************************************)
(* Recurring buys.  Every window of a strategy is one dca_executions row;  *)
(* a goroutine of any replica processes it: it reserves USDT of the        *)
(* wallet, creates the paid buy order (whose id is the execution's) and    *)
(* links it; buy.sent then completes the row and captures the reserve.     *)
(* One strategy and its wallet.  A strategy under reconciliation hold is   *)
(* treated like a paused one and modelled as such; the simulated execution *)
(* of test environments and rows of older schemas (pending, manual_review) *)
(* are left out.  External: the worker that delivers the order (module     *)
(* BuyOrder), reduced to sent or failed.                                   *)
(***************************************************************************)
EXTENDS Naturals, FiniteSets

CONSTANTS Windows, \* scheduled_at of the strategy
          Executors, \* execute goroutines of all replicas
          Budget,  \* available USDT of the wallet
          Prices,  \* USDT a window may cost at the time of its quote
          NoWindow

(* What a window costs is not nothing.                                     *)
ASSUME DcaAssumption ==
    IsFiniteSet(Windows) /\ Prices \subseteq Nat \ {0} /\ Budget \in Nat

VARIABLES strategy, \* active, paused or cancelled
          row,      \* dca_executions
          waiting,  \* rows whose next_attempt_at lies ahead
          age,      \* processing_at: not set, set, set more than two minutes ago
          usable, onHold, \* wallet: available and locked
          total,    \* total_invested, in windows
          cycle,    \* what each goroutine is doing
          bought,   \* buy_orders of the windows
          sent      \* buy.sent events on the bus

dcavars == <<strategy, row, waiting, age, usable, onHold, total, cycle, bought, sent>>
wallet == <<usable, onHold>>

Execution == [st : {"none", "claimed", "processing", "retry_wait", "submitted",
                    "provider_unknown", "skipped_paused", "completed"},
              reserved : Prices \cup {0}, captured : BOOLEAN, released : BOOLEAN,
              linked : BOOLEAN, submitted : BOOLEAN]
NoExecution == [st |-> "none", reserved |-> 0, captured |-> FALSE, released |-> FALSE,
                linked |-> FALSE, submitted |-> FALSE]
CycleTask == [at : {"idle", "begin", "reserve", "create", "link", "release", "fail"},
              x : Windows \cup {NoWindow}, held : Prices \cup {0}]
IdleCycle == [at |-> "idle", x |-> NoWindow, held |-> 0]

DcaInit ==
    /\ strategy = "active" /\ row = [x \in Windows |-> NoExecution]
    /\ waiting = {} /\ age = [x \in Windows |-> "none"] /\ usable = Budget /\ onHold = 0 /\ total = 0
    /\ cycle = [w \in Executors |-> IdleCycle] /\ bought = [x \in Windows |-> "none"]
    /\ sent = {}

Goto(w, at) == cycle' = [cycle EXCEPT ![w].at = at]
Rest(w) == cycle' = [cycle EXCEPT ![w] = IdleCycle]

-----------------------------------------------------------------------------
(* UpdateDCA and DeleteDCA; the changed amount applies to later windows.   *)
UpdateDCA(s) ==
    /\ strategy # "cancelled" /\ strategy' = s
    /\ UNCHANGED <<row, waiting, age, wallet, total, cycle, bought, sent>>

(* claimDue: the row is inserted once per window and next_execution moves. *)
ClaimDue(w, x) ==
    /\ strategy = "active" /\ row[x].st = "none" /\ cycle[w] = IdleCycle
    /\ row' = [row EXCEPT ![x].st = "claimed"]
    /\ cycle' = [cycle EXCEPT ![w] = [IdleCycle EXCEPT !.at = "begin", !.x = x]]
    /\ UNCHANGED <<strategy, waiting, age, wallet, total, bought, sent>>

(* claimRecoverable: nothing is written, so its row locks protect nothing  *)
(* once the transaction commits.                                           *)
ClaimRecoverable(w, x) ==
    /\ row[x].st \in {"claimed", "processing", "retry_wait"} /\ x \notin waiting
    /\ cycle[w] = IdleCycle
    /\ cycle' = [cycle EXCEPT ![w] = [IdleCycle EXCEPT !.at = "begin", !.x = x]]
    /\ UNCHANGED <<strategy, row, waiting, age, wallet, total, bought, sent>>

(* markExecutionFailed waits five minutes.  The context of execute ends    *)
(* after 30 seconds, and no statement after it is taken to last minutes:   *)
(* the goroutines from before the wait are gone, and a processing_at set   *)
(* by then is old.                                                         *)
Unattended(x) == \A w \in Executors : cycle[w].x # x
Grown(a) == IF a = "young" THEN "old" ELSE a
AttemptDue(x) ==
    /\ x \in waiting /\ Unattended(x)
    /\ waiting' = waiting \ {x} /\ age' = [age EXCEPT ![x] = Grown(@)]
    /\ UNCHANGED <<strategy, row, wallet, total, cycle, bought, sent>>

(* So is, two minutes after processing_at, the goroutine that set it.      *)
ProcessingAges(x) ==
    /\ row[x].st = "processing" /\ age[x] = "young" /\ Unattended(x)
    /\ age' = [age EXCEPT ![x] = "old"]
    /\ UNCHANGED <<strategy, row, waiting, wallet, total, cycle, bought, sent>>

(* transitionExecutionProcessing: processing_at is set once and kept by    *)
(* every later attempt (COALESCE).  The answer of the first write may be   *)
(* lost, the error of the second is dropped.                               *)
TransitionExecutionProcessing(w) ==
    LET x == cycle[w].x
        takes == /\ strategy = "active" /\ ~row[x].linked /\ x \notin waiting
                 /\ \/ row[x].st \in {"claimed", "retry_wait"}
                    \/ row[x].st = "processing" /\ age[x] = "old"
        skips == strategy # "active" /\ row[x].st \in {"claimed", "retry_wait"} /\ ~row[x].linked
    IN  /\ cycle[w].at = "begin"
        /\ \/ /\ takes /\ row' = [row EXCEPT ![x].st = "processing"]
              /\ age' = [age EXCEPT ![x] = IF @ = "none" THEN "young" ELSE @]
              /\ Goto(w, "reserve") \/ Goto(w, "fail")
           \/ /\ ~takes /\ Rest(w) /\ UNCHANGED age
              /\ \/ skips /\ row' = [row EXCEPT ![x].st = "skipped_paused"]
                 \/ UNCHANGED row
           \/ UNCHANGED <<row, age>> /\ Goto(w, "fail")   \* database error
        /\ UNCHANGED <<strategy, waiting, wallet, total, bought, sent>>

Reserves(e, p) == e.reserved = 0 /\ usable >= p

\* The wallet, the price and the amount of the cycle, any of which may fail.
LookUpFails(w) == Goto(w, "fail") /\ UNCHANGED <<row, wallet>>

(* Then reserveDCAFunding, one transaction with the row locked: an         *)
(* identical reserve stands, another amount or a released one is an error. *)
(* When the answer of the commit is lost the goroutine fails without its   *)
(* release.                                                                *)
ReserveDCAFunding(w) ==
    LET x == cycle[w].x
        e == row[x]
    IN  /\ cycle[w].at = "reserve"
        /\ \/ LookUpFails(w)
           \/ \E p \in Prices :
                /\ ~e.captured /\ ~e.released /\ (Reserves(e, p) \/ e.reserved = p)
                /\ row' = [row EXCEPT ![x].reserved = p]
                /\ \/ cycle' = [cycle EXCEPT ![w].at = "create", ![w].held = p]
                   \/ Goto(w, "fail")
                /\ IF Reserves(e, p) THEN usable' = usable - p /\ onHold' = onHold + p
                   ELSE UNCHANGED wallet
        /\ UNCHANGED <<strategy, waiting, age, total, bought, sent>>

(* createPaidBuyOrder: the id is the primary key, so a second goroutine    *)
(* gets the existing order; linking the user after the INSERT may fail.    *)
CreatePaidBuyOrder(w) ==
    LET x == cycle[w].x
        made == [bought EXCEPT ![x] = IF @ = "none" THEN "pago_fiat" ELSE @]
    IN  /\ cycle[w].at = "create"
        /\ \/ bought' = made /\ Goto(w, "link")
           \/ bought' \in {bought, made} /\ Goto(w, "release")
        /\ UNCHANGED <<strategy, row, waiting, age, wallet, total, sent>>

(* submitted is true from here on.  A row in flight whose quote has not    *)
(* expired takes the order; any other but a completed one is parked with   *)
(* it, and the error of that second write is dropped.                      *)
SubmittedRow(e) == [e EXCEPT !.st = "submitted", !.linked = TRUE, !.submitted = TRUE]
ParkedRow(e) == [e EXCEPT !.st = "provider_unknown", !.linked = TRUE]
Link(w) ==
    LET x == cycle[w].x
        e == row[x]
    IN  /\ cycle[w].at = "link"
        /\ \/ e.st \in {"submitted", "processing"} /\ row' = [row EXCEPT ![x] = SubmittedRow(e)]
           \/ e.st # "completed" /\ row' = [row EXCEPT ![x] = ParkedRow(e)] /\ Rest(w)
           \/ UNCHANGED row
        /\ Rest(w) \/ Goto(w, "fail")                   \* the answer may be lost
        /\ UNCHANGED <<strategy, waiting, age, wallet, total, bought, sent>>

(* txReleaseDCAFunding, with the amount this goroutine reserved.           *)
Releasable(e) == ~e.released /\ ~e.captured /\ e.reserved > 0
ReleaseDCAFunding(w) ==
    LET x == cycle[w].x
    IN  /\ cycle[w].at = "release" /\ Goto(w, "fail")
        /\ \/ /\ Releasable(row[x]) /\ onHold >= cycle[w].held
              /\ usable' = usable + cycle[w].held /\ onHold' = onHold - cycle[w].held
              /\ row' = [row EXCEPT ![x].released = TRUE]
           \/ UNCHANGED <<wallet, row>>          \* not releasable, or the write fails
        /\ UNCHANGED <<strategy, waiting, age, total, bought, sent>>

(* Mutant: a late goroutine parks a row that buy.sent has completed.       *)
ParkableAlways(e) == TRUE
(* markExecutionFailed.                                                    *)
Parkable(e) == e.st # "completed"
MarkExecutionFailed(w) ==
    LET x == cycle[w].x
        e == row[x]
    IN  /\ cycle[w].at = "fail" /\ Rest(w)
        /\ \/ /\ Parkable(e)
              /\ row' = [row EXCEPT ![x].st =
                   IF e.submitted \/ e.linked THEN "provider_unknown" ELSE "retry_wait"]
              /\ waiting' = waiting \cup {x}
           \/ UNCHANGED <<row, waiting>>
        /\ UNCHANGED <<strategy, age, wallet, total, bought, sent>>

ExecutorStops(w) ==
    /\ cycle[w].at # "idle" /\ Rest(w)
    /\ UNCHANGED <<strategy, row, waiting, age, wallet, total, bought, sent>>

-----------------------------------------------------------------------------
(* External: the buy worker finds paid orders by event and by its sweep.   *)
OrderEnds(x) ==
    /\ bought[x] = "pago_fiat"
    /\ \/ bought' = [bought EXCEPT ![x] = "sent"] /\ sent' = sent \cup {x}
       \/ bought' = [bought EXCEPT ![x] = "failed"] /\ UNCHANGED sent
    /\ UNCHANGED <<strategy, row, waiting, age, wallet, total, cycle>>

(* txCaptureDCAFunding; its error rolls the whole confirmation back.       *)
Capturable(e) == e.reserved > 0 /\ ~e.released /\ (e.captured \/ onHold >= e.reserved)
Confirmable(e) == e.linked /\ e.st \in {"processing", "submitted"}

(* confirmDCAExecution: the event is consumed whatever comes of it.        *)
ConfirmDCAExecution(x) ==
    LET e == row[x]
    IN  /\ x \in sent
        /\ \/ sent' = sent \ {x} /\ UNCHANGED <<row, wallet, total>>
           \/ /\ Confirmable(e) /\ Capturable(e)
              /\ row' = [row EXCEPT ![x].st = "completed", ![x].captured = TRUE]
              /\ onHold' = IF e.captured THEN onHold ELSE onHold - e.reserved
              /\ total' = total + 1 /\ usable' = usable /\ sent' = sent \ {x}
        /\ UNCHANGED <<strategy, waiting, age, cycle, bought>>

DcaNext ==
    \/ \E s \in {"active", "paused", "cancelled"} : UpdateDCA(s)
    \/ \E x \in Windows : \/ AttemptDue(x) \/ ProcessingAges(x) \/ OrderEnds(x)
                          \/ ConfirmDCAExecution(x)
                          \/ \E w \in Executors : ClaimDue(w, x) \/ ClaimRecoverable(w, x)
    \/ \E w \in Executors : \/ TransitionExecutionProcessing(w) \/ ReserveDCAFunding(w)
                          \/ CreatePaidBuyOrder(w) \/ Link(w) \/ ReleaseDCAFunding(w)
                          \/ MarkExecutionFailed(w) \/ ExecutorStops(w)

DcaSpec == DcaInit /\ [][DcaNext]_dcavars

-----------------------------------------------------------------------------
DcaTypeOK ==
    /\ strategy \in {"active", "paused", "cancelled"} /\ row \in [Windows -> Execution]
    /\ waiting \subseteq Windows /\ age \in [Windows -> {"none", "young", "old"}] /\ sent \subseteq Windows
    /\ usable \in 0..Budget /\ onHold \in 0..Budget /\ total \in 0..Cardinality(Windows)
    /\ cycle \in [Executors -> CycleTask]
    /\ bought \in [Windows -> {"none", "pago_fiat", "sent", "failed"}]

InReserve == {x \in Windows : row[x].reserved > 0 /\ ~row[x].captured /\ ~row[x].released}
Captured == {x \in Windows : row[x].captured}

\* the units of USDT that the windows in S reserved
Units(S) == UNION {{x} \X (1..row[x].reserved) : x \in S}

(* What the wallet has locked is what its open windows reserved, and what  *)
(* left it is what completed ones captured, however goroutines interleave. *)
ReservesAddUp ==
    /\ onHold = Cardinality(Units(InReserve))
    /\ usable + onHold + Cardinality(Units(Captured)) = Budget
    /\ \A x \in Windows : ~(row[x].captured /\ row[x].released)

(* The accounting contract: a window counts in the totals exactly when it  *)
(* is completed, with its order sent and its reserve captured.             *)
TotalsAreDelivered ==
    /\ total = Cardinality(Captured)
    /\ \A x \in Windows : /\ row[x].captured <=> row[x].st = "completed"
                          /\ row[x].captured => bought[x] = "sent"

(* What is reserved, and what the strategy counts as bought, agree with    *)
(* the orders.                                                             *)
DcaBooksAreTrue == DcaTypeOK /\ ReservesAddUp /\ TotalsAreDelivered

(* The worker's header: "multiple pod instances never process the same     *)
(* strategy simultaneously".                                               *)
NeverTogether ==
    \A v, w \in Executors :
        v # w /\ cycle[v].x = cycle[w].x =>
            {cycle[v].at, cycle[w].at} \cap {"idle", "begin", "fail"} # {}

=============================================================================
