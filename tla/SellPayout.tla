----------------------------- MODULE SellPayout -----------------------------
(***************************************************************************)
(* The SELL payout: a confirmed stablecoin deposit is turned into a PIX to *)
(* the seller.  Payout activities (goroutines of workers/payout.go, in one *)
(* or more replicas) share the orders and sell_payout_executions tables;   *)
(* each action is one SQL statement or transaction, or one HTTP exchange   *)
(* with Efi, so everything an activity remembers between two actions may   *)
(* be stale.  Efi is external: it keeps one PIX per idEnvio, may receive a *)
(* request whose caller has already given up, and settles in its own time. *)
(***************************************************************************)
EXTENDS Naturals, FiniteSets

CONSTANTS Orders,       \* SELL orders
          Workers,      \* concurrent payout activities, all replicas together
          Mode,         \* [Workers -> Modes], the configuration each one runs with
          NoPixKey,     \* orders that carry no PIX key
          BadAmount,    \* orders whose payoutBRL is not positive
          MinNotFound,  \* SellPayoutNotFoundMinReconciliations
          Calls,        \* bound: the POST /api/order/{id}/deposit calls that are made
          MaxCrashes,   \* bound: process crashes
          None          \* no order

Modes == {"auto", "manual", "simulate", "unconfigured"}

ASSUME SellPayoutAssumption ==
    /\ IsFiniteSet(Workers)
    /\ Mode \in [Workers -> Modes]
    /\ NoPixKey \subseteq Orders /\ BadAmount \subseteq Orders
    /\ MinNotFound \in Nat \ {0}
    /\ MaxCrashes \in Nat
    /\ None \notin Orders

VARIABLES ord,     \* orders.status
          exec,    \* the order's sell_payout_executions row
          bus,     \* payout.requested events published and not yet taken
          call,    \* deposit calls: "new", the order checked, or "done"
          task,    \* what each activity is about to do
          pix,     \* external: the PIX transfers Efi holds
          wire,    \* external: requests sent to Efi whose caller gave up waiting
          hand,    \* external: orders the operator has paid by hand
          shown,   \* history: orders concluded in simulation, with no payment
          crashes

vars == <<ord, exec, bus, call, task, pix, wire, hand, shown, crashes>>
external == <<pix, wire, hand, shown>>

Funding == {"aguardando_deposito", "aguardando_validacao"}
OrderStatus == Funding \cup {"pago", "processando_payout", "aguardando_pix_manual",
                            "concluida", "incidente_validacao", "erro"}
DueStatus == {"pending", "submit_started", "submitted",
              "provider_pending", "provider_unknown"}
TerminalStatus == {"completed", "failed", "manual_review"}

(* A row: amb tells first_ambiguous_at IS NULL ("no") from set, and set    *)
(* for longer than the grace period ("aged"); cnf is consecutive_not_found *)
(* up to MinNotFound; due is next_attempt_at <= now().                     *)
Row == [st : DueStatus \cup TerminalStatus \cup {"none"}, att : Nat,
        amb : {"no", "fresh", "aged"}, cnf : 0..MinNotFound, due : BOOLEAN]
NoRow == [st |-> "none", att |-> 0, amb |-> "no", cnf |-> 0, due |-> FALSE]

PixStatus == {"processing", "done", "refused"}
Steps == {"idle", "claimManual", "noKey", "badAmount", "simulate", "unconfigured",
          "claim", "ensure", "lookup", "missing", "mark", "put", "get",
          "unknown", "rejected", "submitted", "apply", "notFound"}
Task == [at : Steps, order : Orders \cup {None}, reply : PixStatus \cup {"none"}]
Idle == [at |-> "idle", order |-> None, reply |-> "none"]

Init == /\ ord    \in [Orders -> Funding]
        /\ exec    = [o \in Orders |-> NoRow]
        /\ bus     = [o \in Orders |-> 0]
        /\ call    = [c \in Calls |-> "new"]
        /\ task    = [w \in Workers |-> Idle]
        /\ pix     = {}
        /\ wire    = {}
        /\ hand    = {}
        /\ shown   = {}
        /\ crashes = 0

GoTo(w, step)        == task' = [task EXCEPT ![w].at = step]
GoWith(w, step, rep) == task' = [task EXCEPT ![w].at = step, ![w].reply = rep]
Finish(w)            == task' = [task EXCEPT ![w] = Idle]

(* Mutant: a new provider key for every attempt.                           *)
IdEnvioPerAttempt(o) == <<o, exec[o].att>>

(* The provider key never changes between attempts.                        *)
IdEnvio(o) == o

PixFor(id) == {p \in pix : p.id = id}

-----------------------------------------------------------------------------
(* The chain watcher: ConfirmSellDepositForPayout, then Bus.Publish, which *)
(* may drop the event on a full buffer or be lost with the process.        *)
Publish(o) == \E published \in {0, 1} : bus' = [bus EXCEPT ![o] = @ + published]

DepositConfirmed(o) ==
    /\ ord[o] \in Funding
    /\ ord' = [ord EXCEPT ![o] = "pago"]
    /\ Publish(o)
    /\ UNCHANGED <<exec, call, task, external, crashes>>

(* handleDeposit, the signer's call for the same deposit: it checks the    *)
(* status, and later overwrites whatever status it has become.             *)
SignerChecks(c, o) ==
    /\ call[c] = "new" /\ ord[o] = "aguardando_deposito"
    /\ call' = [call EXCEPT ![c] = o]
    /\ UNCHANGED <<ord, exec, bus, task, external, crashes>>

SignerWrites(c, o) ==
    /\ call[c] = o
    /\ call' = [call EXCEPT ![c] = "done"]
    /\ \/ ord' = [ord EXCEPT ![o] = "pago"] /\ Publish(o)
       \/ ord' = [ord EXCEPT ![o] = "incidente_validacao"] /\ UNCHANGED bus
    /\ UNCHANGED <<exec, task, external, crashes>>

-----------------------------------------------------------------------------
(* GetOrder and the checks that follow it decide the first write.          *)
FirstStep(w, o) ==
    IF ord[o] \notin {"pago", "processando_payout"} THEN "idle"
    ELSE IF Mode[w] = "manual" THEN (IF ord[o] = "pago" THEN "claimManual" ELSE "idle")
    ELSE IF o \in NoPixKey           THEN "noKey"
    ELSE IF o \in BadAmount          THEN "badAmount"
    ELSE IF Mode[w] = "simulate"     THEN "simulate"
    ELSE IF Mode[w] = "unconfigured" THEN "unconfigured"
    ELSE IF ord[o] = "pago"          THEN "claim" ELSE "lookup"

Begin(w, o) == LET step == FirstStep(w, o)
               IN  task' = [task EXCEPT ![w] =
                     IF step = "idle" THEN Idle
                     ELSE [at |-> step, order |-> o, reply |-> "none"]]

(* The worker takes an event from the bus and reads the order.             *)
TakeEvent(w, o) ==
    /\ task[w].at = "idle" /\ bus[o] > 0
    /\ bus' = [bus EXCEPT ![o] = @ - 1]
    /\ Begin(w, o)
    /\ UNCHANGED <<ord, exec, call, external, crashes>>

(* recoverDueSellPayouts: lease a due row for 30 s and process its order.  *)
Recover(w, o) ==
    /\ task[w].at = "idle" /\ Mode[w] # "manual"
    /\ exec[o].st \in DueStatus /\ exec[o].due
    /\ exec' = [exec EXCEPT ![o].due = FALSE]
    /\ Begin(w, o)
    /\ UNCHANGED <<ord, bus, call, external, crashes>>

(* ClaimOrderForManualPayout: compare-and-set from pago.                   *)
ClaimManual(w) ==
    LET o == task[w].order IN
    /\ task[w].at = "claimManual"
    /\ IF ord[o] = "pago"
       THEN ord' = [ord EXCEPT ![o] = "aguardando_pix_manual"]
       ELSE UNCHANGED ord
    /\ Finish(w)
    /\ UNCHANGED <<exec, bus, call, external, crashes>>

(* UpdateOrderStatus, with no condition on the status it overwrites.       *)
StatusWritten(step) == CASE step \in {"noKey", "missing"}          -> "incidente_validacao"
                         [] step \in {"badAmount", "unconfigured"} -> "erro"
                         [] step = "simulate"                      -> "concluida"

OverwriteStatus(w) ==
    /\ task[w].at \in {"noKey", "missing", "badAmount", "unconfigured", "simulate"}
    /\ ord' = [ord EXCEPT ![task[w].order] = StatusWritten(task[w].at)]
    /\ shown' = IF task[w].at = "simulate" THEN shown \cup {task[w].order} ELSE shown
    /\ Finish(w)
    /\ UNCHANGED <<exec, bus, call, pix, wire, hand, crashes>>

(* ClaimOrderForPayout: compare-and-set from pago.                         *)
Claim(w) ==
    LET o == task[w].order IN
    /\ task[w].at = "claim"
    /\ IF ord[o] = "pago"
       THEN /\ ord' = [ord EXCEPT ![o] = "processando_payout"]
            /\ GoTo(w, "ensure")
       ELSE /\ UNCHANGED ord
            /\ Finish(w)
    /\ UNCHANGED <<exec, bus, call, external, crashes>>

(* Mutant: a started submit is submitted again.                            *)
DispatchResubmits(w, row) ==
    CASE row.st \in TerminalStatus -> Finish(w)
      [] row.st \in {"provider_unknown", "provider_pending", "submitted"} -> GoTo(w, "get")
      [] OTHER -> GoTo(w, "mark")

(* Mutant: a row whose submit was not answered is not reconciled.          *)
DispatchForgetsUnknown(w, row) ==
    CASE row.st \in TerminalStatus \cup {"provider_unknown"} -> Finish(w)
      [] \/ row.st \in {"provider_pending", "submitted"}
         \/ row.st = "submit_started" /\ row.att > 0 -> GoTo(w, "get")
      [] OTHER -> GoTo(w, "mark")

(* What the status read from the row makes the worker do next.             *)
Dispatch(w, row) ==
    CASE row.st \in TerminalStatus -> Finish(w)
      [] \/ row.st \in {"provider_unknown", "provider_pending", "submitted"}
         \/ row.st = "submit_started" /\ row.att > 0 -> GoTo(w, "get")
      [] OTHER -> GoTo(w, "mark")

(* EnsureSellPayoutExecution: INSERT .. ON CONFLICT DO NOTHING, then read. *)
Ensure(w) ==
    LET o   == task[w].order
        row == IF exec[o].st = "none" THEN [NoRow EXCEPT !.st = "pending", !.due = TRUE]
                                      ELSE exec[o] IN
    /\ task[w].at = "ensure"
    /\ exec' = [exec EXCEPT ![o] = row]
    /\ Dispatch(w, row)
    /\ UNCHANGED <<ord, bus, call, external, crashes>>

(* GetSellPayoutExecutionByOrder; no row is an incident.                   *)
Lookup(w) ==
    LET o == task[w].order IN
    /\ task[w].at = "lookup"
    /\ IF exec[o].st = "none" THEN GoTo(w, "missing") ELSE Dispatch(w, exec[o])
    /\ UNCHANGED <<ord, exec, bus, call, external, crashes>>

(* MarkSellPayoutSubmitStarted: the worker goes on to submit whether or    *)
(* not its UPDATE found the row in a status it may leave.                  *)
MarkSubmitStarted(w) ==
    LET o == task[w].order IN
    /\ task[w].at = "mark"
    /\ exec' = IF exec[o].st \in {"pending", "submit_started"}
               THEN [exec EXCEPT ![o].st = "submit_started", ![o].att = @ + 1]
               ELSE exec
    /\ GoTo(w, "put")
    /\ UNCHANGED <<ord, bus, call, external, crashes>>

-----------------------------------------------------------------------------
(* PUT /v3/gn/pix/{idEnvio}: Efi creates the PIX, or answers with the one  *)
(* it has, or refuses; or the caller times out before or after it arrives. *)
Accepted(o) == IF PixFor(IdEnvio(o)) = {}
               THEN {pix \cup {[id |-> IdEnvio(o), order |-> o, st |-> s]} : s \in PixStatus}
               ELSE {pix}

PutAnswered(w) ==
    LET o == task[w].order IN
    /\ task[w].at = "put"
    /\ pix' \in Accepted(o)
    /\ \E p \in pix' : p.id = IdEnvio(o) /\ GoWith(w, "submitted", p.st)
    /\ UNCHANGED <<ord, exec, bus, call, wire, hand, shown, crashes>>

PutRefused(w) ==
    /\ task[w].at = "put"
    /\ GoTo(w, "rejected")
    /\ UNCHANGED <<ord, exec, bus, call, external, crashes>>

PutUnanswered(w) ==
    LET o == task[w].order IN
    /\ task[w].at = "put"
    /\ \/ UNCHANGED wire
       \/ wire' = wire \cup {[id |-> IdEnvio(o), order |-> o]}
    /\ GoTo(w, "unknown")
    /\ UNCHANGED <<ord, exec, bus, call, pix, hand, shown, crashes>>

(* GET /v2/gn/pix/enviados/id-envio/{idEnvio}.                             *)
GetAnswered(w) ==
    /\ task[w].at = "get"
    /\ LET found == PixFor(IdEnvio(task[w].order)) IN
         IF found = {} THEN GoTo(w, "notFound")
                       ELSE \E p \in found : GoWith(w, "apply", p.st)
    /\ UNCHANGED <<ord, exec, bus, call, external, crashes>>

GetFailed(w) ==
    /\ task[w].at = "get"
    /\ GoTo(w, "unknown") \/ GoTo(w, "rejected")
    /\ UNCHANGED <<ord, exec, bus, call, external, crashes>>

-----------------------------------------------------------------------------
(* MarkSellPayoutProviderUnknown.                                          *)
MarkProviderUnknown(w) ==
    LET o == task[w].order IN
    /\ task[w].at = "unknown"
    /\ exec' = IF exec[o].st \in TerminalStatus THEN exec
               ELSE [exec EXCEPT ![o].st  = "provider_unknown",
                                 ![o].amb = IF @ = "no" THEN "fresh" ELSE @,
                                 ![o].due = FALSE]
    /\ Finish(w)
    /\ UNCHANGED <<ord, bus, call, external, crashes>>

(* MarkSellPayoutFailed(manual = true): both callers ask for the review.   *)
MarkFailed(w) ==
    LET o == task[w].order IN
    /\ task[w].at = "rejected"
    /\ exec' = IF exec[o].st = "completed" THEN exec
               ELSE [exec EXCEPT ![o].st = "manual_review"]
    /\ ord'  = IF ord[o] = "concluida" THEN ord
               ELSE [ord EXCEPT ![o] = "incidente_validacao"]
    /\ Finish(w)
    /\ UNCHANGED <<bus, call, external, crashes>>

(* MarkSellPayoutSubmitted.                                                *)
MarkSubmitted(w) ==
    LET o == task[w].order IN
    /\ task[w].at = "submitted"
    /\ exec' = IF exec[o].st \in TerminalStatus THEN exec
               ELSE [exec EXCEPT ![o].st = "provider_pending", ![o].cnf = 0, ![o].due = FALSE]
    /\ GoTo(w, "apply")
    /\ UNCHANGED <<ord, bus, call, external, crashes>>

(* Mutant: a transfer in processing counts as done.                        *)
RowStatusHasty(reply) == CASE reply \in {"done", "processing"} -> "completed"
                           [] reply = "refused" -> "failed"

(* sellPayoutStatusFromProvider.                                           *)
RowStatus(reply) == CASE reply = "done"       -> "completed"
                      [] reply = "refused"    -> "failed"
                      [] reply = "processing" -> "provider_pending"

(* ApplySellPayoutProviderEvent: only a completed row is left alone.       *)
ApplyProviderEvent(w) ==
    LET o    == task[w].order
        next == RowStatus(task[w].reply) IN
    /\ task[w].at = "apply"
    /\ IF exec[o].st = "completed"
       THEN UNCHANGED <<exec, ord>>
       ELSE /\ exec' = [exec EXCEPT ![o].st = next, ![o].cnf = 0, ![o].due = FALSE]
            /\ ord' = CASE next = "completed" /\ ord[o] \in {"processando_payout", "pago"}
                             -> [ord EXCEPT ![o] = "concluida"]
                        [] next = "failed" /\ ord[o] # "concluida"
                             -> [ord EXCEPT ![o] = "incidente_validacao"]
                        [] OTHER -> ord
    /\ Finish(w)
    /\ UNCHANGED <<bus, call, external, crashes>>

(* MarkSellPayoutReconcileNotFound: the row is re-read under its lock.     *)
MarkNotFound(w) ==
    LET o      == task[w].order
        giveUp == exec[o].amb = "aged" /\ exec[o].cnf + 1 >= MinNotFound IN
    /\ task[w].at = "notFound"
    /\ exec' = IF exec[o].st \in {"completed", "failed"} THEN exec
               ELSE [exec EXCEPT ![o].st  = IF giveUp THEN "manual_review" ELSE @,
                                 ![o].cnf = IF @ < MinNotFound THEN @ + 1 ELSE @,
                                 ![o].due = FALSE]
    /\ ord'  = IF (giveUp \/ exec[o].st = "manual_review") /\ ord[o] # "concluida"
               THEN [ord EXCEPT ![o] = "incidente_validacao"] ELSE ord
    /\ Finish(w)
    /\ UNCHANGED <<bus, call, external, crashes>>

-----------------------------------------------------------------------------
(* The operator pays an order of the manual queue, then confirms it with   *)
(* MarkManualPixPaid.                                                      *)
PayByHand(o) ==
    /\ ord[o] = "aguardando_pix_manual"
    /\ hand' = hand \cup {o}
    /\ UNCHANGED <<ord, exec, bus, call, task, pix, wire, shown, crashes>>

MarkManualPixPaid(o) ==
    /\ o \in hand /\ ord[o] = "aguardando_pix_manual"
    /\ ord' = [ord EXCEPT ![o] = "concluida"]
    /\ UNCHANGED <<exec, bus, call, task, external, crashes>>

(* handlePixWebhook and handlePayout: the provider's (or the signer's)     *)
(* callback overwrites the status; a payer CPF mismatch is an incident.    *)
PixWebhook(p) ==
    /\ p.st # "processing"
    /\ \E s \in IF p.st = "done" THEN {"concluida", "incidente_validacao"} ELSE {"erro"} :
         ord' = [ord EXCEPT ![p.order] = s]
    /\ UNCHANGED <<exec, bus, call, task, external, crashes>>

(* Time: next_attempt_at passes; the grace period of an ambiguous submit   *)
(* runs out.                                                               *)
BecomesDue(o) ==
    /\ exec[o].st \in DueStatus /\ ~exec[o].due
    /\ exec' = [exec EXCEPT ![o].due = TRUE]
    /\ UNCHANGED <<ord, bus, call, task, external, crashes>>

GraceElapses(o) ==
    /\ exec[o].amb = "fresh"
    /\ exec' = [exec EXCEPT ![o].amb = "aged"]
    /\ UNCHANGED <<ord, bus, call, task, external, crashes>>

(* Efi: an abandoned request is lost or still arrives; a PIX settles.      *)
WireArrives(m) ==
    /\ wire' = wire \ {m}
    /\ pix' = IF PixFor(m.id) = {}
              THEN pix \cup {[id |-> m.id, order |-> m.order, st |-> "processing"]} ELSE pix
    /\ UNCHANGED <<ord, exec, bus, call, task, hand, shown, crashes>>

WireLost(m) ==
    /\ wire' = wire \ {m}
    /\ UNCHANGED <<ord, exec, bus, call, task, pix, hand, shown, crashes>>

PixSettles(p) ==
    /\ p.st = "processing"
    /\ \E s \in {"done", "refused"} : pix' = (pix \ {p}) \cup {[p EXCEPT !.st = s]}
    /\ UNCHANGED <<ord, exec, bus, call, task, wire, hand, shown, crashes>>

(* A database error, a cancelled context or a panic ends one activity; a   *)
(* crash ends them all, the calls in flight too, and loses the bus.        *)
Abandon(w) ==
    /\ task[w].at # "idle" /\ crashes < MaxCrashes
    /\ crashes' = crashes + 1
    /\ Finish(w)
    /\ UNCHANGED <<ord, exec, bus, call, external>>

Crash ==
    /\ crashes < MaxCrashes
    /\ crashes' = crashes + 1
    /\ task' = [w \in Workers |-> Idle]
    /\ call' = [c \in Calls |-> IF call[c] = "new" THEN "new" ELSE "done"]
    /\ bus'  = [o \in Orders |-> 0]
    /\ UNCHANGED <<ord, exec, external>>

-----------------------------------------------------------------------------
WorkerStep(w) ==
    \/ ClaimManual(w) \/ OverwriteStatus(w) \/ Claim(w) \/ Ensure(w) \/ Lookup(w)
    \/ MarkSubmitStarted(w) \/ PutAnswered(w) \/ PutRefused(w) \/ PutUnanswered(w)
    \/ GetAnswered(w) \/ GetFailed(w) \/ MarkProviderUnknown(w) \/ MarkFailed(w)
    \/ MarkSubmitted(w) \/ ApplyProviderEvent(w) \/ MarkNotFound(w)

Environment ==
    \/ \E o \in Orders : \/ DepositConfirmed(o) \/ PayByHand(o) \/ MarkManualPixPaid(o)
                         \/ BecomesDue(o) \/ GraceElapses(o)
                         \/ \E c \in Calls : SignerChecks(c, o) \/ SignerWrites(c, o)
    \/ \E m \in wire : WireArrives(m) \/ WireLost(m)
    \/ \E p \in pix : PixSettles(p) \/ PixWebhook(p)

Next == \/ \E w \in Workers : \/ WorkerStep(w) \/ Abandon(w)
                              \/ \E o \in Orders : TakeEvent(w, o) \/ Recover(w, o)
        \/ Environment
        \/ Crash

Spec == Init /\ [][Next]_vars

(* The loop polls every 10 s, goroutines run to completion, time passes,   *)
(* a request in flight ends, Efi settles what it holds, and a lookup that  *)
(* is retried for ever is answered some day.                               *)
Fairness ==
    /\ \A w \in Workers : WF_vars(WorkerStep(w))
    /\ \A w \in Workers : SF_vars(GetAnswered(w))
    /\ \A o \in Orders : /\ WF_vars(BecomesDue(o)) /\ WF_vars(GraceElapses(o))
                         /\ SF_vars(\E w \in Workers : Recover(w, o))
    /\ WF_vars(\E m \in wire : WireArrives(m) \/ WireLost(m))
    /\ WF_vars(\E p \in pix : PixSettles(p))

FairSpec == Spec /\ Fairness
-----------------------------------------------------------------------------
TypeOK == /\ ord     \in [Orders -> OrderStatus]
          /\ exec    \in [Orders -> Row]
          /\ bus     \in [Orders -> Nat]
          /\ call    \in [Calls -> Orders \cup {"new", "done"}]
          /\ task    \in [Workers -> Task]
          /\ pix     \subseteq [id : Orders, order : Orders, st : PixStatus]
          /\ wire    \subseteq [id : Orders, order : Orders]
          /\ hand    \subseteq Orders
          /\ shown   \subseteq Orders
          /\ crashes \in 0..MaxCrashes

(* Efi never holds two transfers for one order, however many workers       *)
(* submit, time out and submit again: the provider key is the order's.     *)
OnePixPerOrder == \A p, q \in pix : p.order = q.order => p = q

(* An order is shown as concluded only when the seller has been paid, or   *)
(* when a replica running in simulation concluded that very order.         *)
Paid(o) == o \in hand \/ \E p \in pix : p.order = o /\ p.st = "done"
ConcludedIsPaid == \A o \in Orders : ord[o] = "concluida" =>
                      Paid(o) \/ o \in shown

(* Submits do not accumulate over time: only automatic activities that     *)
(* were running side by side when the row was pending ever submit, so a    *)
(* retry after a crash or a timeout is a lookup, never another submit.     *)
Automatic  == {w \in Workers : Mode[w] = "auto"}
Marking(o) == {w \in Workers : task[w].at = "mark" /\ task[w].order = o}
SubmitsOnlySideBySide == \A o \in Orders :
    exec[o].att > 0 => exec[o].att + Cardinality(Marking(o)) <= Cardinality(Automatic)

(* A row that completed keeps its verdict: no late timeout, rejection or   *)
(* not-found answer of another worker changes it.                          *)
CompletedIsFinal == [][\A o \in Orders : exec[o].st = "completed" =>
                          exec'[o].st = "completed"]_vars

(* An execution never completes without having claimed its order first:    *)
(* with no signer call in flight, a completed row leaves no order open for *)
(* another payout.                                                         *)
CompletedClosesOrder == \A o \in Orders : exec[o].st = "completed" =>
    \/ ord[o] \in {"concluida", "incidente_validacao", "erro"}
    \/ \E c \in Calls : call[c] # "new"

(* No transfer is ever made for an order without a PIX key or an amount:   *)
(* not by the first attempt, not by a recovery, not beside a replica that  *)
(* has already moved the order.                                            *)
UnpayableIsNotPaid == \A p \in pix : p.order \notin NoPixKey \cup BadAmount

(* The three together: a submission is never repeated but side by side, a  *)
(* completed one closes its order, an order that cannot be paid gets none. *)
SubmissionsAreSafe == TypeOK /\ SubmitsOnlySideBySide /\ CompletedClosesOrder /\ UnpayableIsNotPaid

(* Recovery finishes what a lost answer left open: a paid automatic order  *)
(* that is still in processando_payout is closed, and an ambiguous         *)
(* submission ends completed, failed or in manual review, unless an        *)
(* incident took the order away from it.                                   *)
AmbiguousResolves == \A o \in Orders :
    /\ (ord[o] = "processando_payout" /\ Paid(o)) ~> ord[o] # "processando_payout"
    /\ (exec[o].amb # "no" /\ exec[o].st \in DueStatus)
          ~> (exec[o].st \in TerminalStatus \/ ord[o] # "processando_payout")

(* The promise of PayoutPromise, read off the state of this module: Efi's  *)
(* word on the order's transfer, and the row's verdict on it.              *)
TransferOf(o) == IF \E p \in pix : p.order = o
                 THEN (CHOOSE p \in pix : p.order = o).st ELSE "none"
VerdictOf(o)  == CASE exec[o].st = "completed" -> "completed"
                   [] exec[o].st \in {"failed", "manual_review"} -> "rejected"
                   [] OTHER -> "open"
Promise == INSTANCE PayoutPromise WITH transfer <- [o \in Orders |-> TransferOf(o)],
                                       verdict  <- [o \in Orders |-> VerdictOf(o)]
ImplementsPromise == Promise!Spec
=============================================================================
