------------------------------ MODULE MobilePay ------------------------------
(***************************************************************************)
(* Mobile QR payments: the user funds a payment with USDT on chain, the    *)
(* execution worker sends the PIX through Efi, Efi's webhooks race with    *)
(* that worker, and the refund worker gives the USDT back through the      *)
(* signer when the PIX is taken for failed.  Each action is one            *)
(* transaction or one HTTP exchange.  The errors of the store are ignored  *)
(* by both workers (`_ = w.store...`), so a write that is lost is the same *)
(* as a worker that stopped.  External: the chain, Efi, which keeps one    *)
(* PIX per provider_idempotency_key, and the signer, which keeps one       *)
(* transfer per "refund:"+payment_id; both keys are functions of the       *)
(* payment.                                                                *)
(***************************************************************************)
EXTENDS Naturals, FiniteSets

CONSTANTS Payments,         \* mobile_payment_intents
          Txs,              \* USDT transfers to the treasury, each enough for a payment
          Unpayable,        \* payments providerRequest refuses (not PIX, no key)
          Calls,            \* bound: POST /mobile/pay/confirm calls with a tx_hash
          Workers,          \* execution workers, one per replica
          RefundWorkers,    \* refund workers, one per replica
          MaxAttempts,      \* MOBILE_PAYMENT_EXECUTION_MAX_ATTEMPTS
          MaxRefundAttempts,\* MOBILE_PAYMENT_REFUND_MAX_ATTEMPTS
          MinNotFound,      \* MOBILE_PAYMENT_EFI_NOT_FOUND_MIN_RECONCILIATIONS
          None              \* no payment, no transaction

ASSUME MobilePayAssumption ==
    /\ Unpayable \subseteq Payments
    /\ MaxAttempts \in Nat \ {0} /\ MaxRefundAttempts \in Nat \ {0} /\ MinNotFound \in Nat \ {0}
    /\ None \notin Payments \cup Txs

VARIABLES intent,  \* mobile_payment_intents.status
          fundTx,  \* funding_tx_hash
          expired, \* payments whose quote_expires_at has passed
          funding, \* mobile_payment_funding_transactions: the payment of each tx_hash
          exec,    \* mobile_payment_executions
          refund,  \* mobile_payment_refunds
          seen,    \* mobile_payment_provider_events: statuses received per payment
          call,    \* confirm handlers
          task,    \* what each execution worker has claimed
          rtask,   \* what each refund worker has claimed
          chain,   \* external: state of each funding transfer
          efi,     \* external: Efi's PIX for the payment's key
          wire,    \* external: PUTs whose caller gave up waiting
          signer,  \* external: the signer's refund operation
          again    \* history: payments whose PIX was sent again on top of a PUT
                   \* that Efi had, or could still get

vars == <<intent, fundTx, expired, funding, exec, refund, seen, call, task, rtask,
          chain, efi, wire, signer, again>>
books == <<intent, exec, refund>>
entry == <<fundTx, expired, funding, call, chain>>
world == <<efi, wire, signer>>

IntentStatus == {"none", "awaiting_funding", "funding_confirmed", "processing",
                 "provider_pending", "completed", "refund_pending", "refunded",
                 "manual_review"}
FundedStatus == {"funding_confirmed", "provider_pending", "processing"}
Waiting == {"provider_pending", "provider_unknown"}
DueStatus == {"pending", "retry_wait"} \cup Waiting
DoneStatus == {"completed", "failed", "manual_review"}
RefundDue == {"pending", "retry_wait", "provider_unknown", "confirming"}
RefundDone == {"completed", "cancelled", "manual_review"}
Events == {"pending", "completed", "failed"}

(* Rows: amb is ambiguous_submit, nf consecutive_not_found, ns tells that  *)
(* provider_status is not_found_unconfirmed; tx is tx_hash <> ''.          *)
Exec == [st : {"none", "processing"} \cup DueStatus \cup DoneStatus,
         att : 0..MaxAttempts, amb : BOOLEAN, nf : 0..MinNotFound, ns : BOOLEAN]
NoExec == [st |-> "none", att |-> 0, amb |-> FALSE, nf |-> 0, ns |-> FALSE]
Refund == [st : {"none", "processing"} \cup RefundDue \cup RefundDone,
           att : 0..MaxRefundAttempts, tx : BOOLEAN]
NoRefund == [st |-> "none", att |-> 0, tx |-> FALSE]

Call == [at : {"new", "verify", "insert", "done"}, p : Payments \cup {None},
         t : Txs \cup {None}]
Answers == Events \cup {"none", "definitive", "ambiguous", "transient", "notfound"}
Task == [at : {"idle", "call", "apply"}, p : Payments \cup {None},
         act : {"execute", "reconcile"}, before : {"none"} \cup DueStatus,
         att : 0..MaxAttempts, sender : BOOLEAN, nf : 0..MinNotFound, ns : BOOLEAN,
         ans : Answers]
Idle == [at |-> "idle", p |-> None, act |-> "execute", before |-> "none", att |-> 0,
         sender |-> FALSE, nf |-> 0, ns |-> FALSE, ans |-> "none"]
RTask == [at : {"idle", "call", "apply"}, p : Payments \cup {None},
          act : {"broadcast", "reconcile", "confirm"}, att : 0..MaxRefundAttempts,
          ans : {"none", "tx", "txconfirmed", "ambiguous", "transient", "definitive",
                 "pending", "confirmed", "reverted", "error"}]
RIdle == [at |-> "idle", p |-> None, act |-> "broadcast", att |-> 0, ans |-> "none"]

Init ==
    /\ intent = [p \in Payments |-> "none"]  /\ fundTx = [p \in Payments |-> None]
    /\ expired = {}                          /\ funding = [t \in Txs |-> None]
    /\ exec = [p \in Payments |-> NoExec]    /\ refund = [p \in Payments |-> NoRefund]
    /\ seen = [p \in Payments |-> {}]
    /\ call = [c \in Calls |-> [at |-> "new", p |-> None, t |-> None]]
    /\ task = [w \in Workers |-> Idle]       /\ rtask = [v \in RefundWorkers |-> RIdle]
    /\ chain = [t \in Txs |-> "pending"]
    /\ efi = [p \in Payments |-> "none"]     /\ wire = {}
    /\ signer = [p \in Payments |-> "none"]  /\ again = {}

-----------------------------------------------------------------------------
(* handleMobilePayConfirm without a tx_hash: a quote becomes an intent.    *)
CreateIntent(p) ==
    /\ intent[p] = "none"
    /\ intent' = [intent EXCEPT ![p] = "awaiting_funding"]
    /\ UNCHANGED <<exec, refund, entry, seen, task, rtask, world, again>>

QuoteExpires(p) ==
    /\ intent[p] # "none" /\ p \notin expired
    /\ expired' = expired \cup {p}
    /\ UNCHANGED <<books, fundTx, funding, call, chain, seen, task, rtask, world, again>>

Ended(c) == [call EXCEPT ![c].at = "done"]

(* With a tx_hash: an expired quote goes to review whatever the status is. *)
BeginConfirm(c) == \E p \in Payments, t \in Txs :
    /\ call[c].at = "new" /\ intent[p] # "none"
    /\ IF p \in expired
       THEN /\ intent' = [intent EXCEPT ![p] = "manual_review"]
            /\ call' = Ended(c)
       ELSE /\ call' = [call EXCEPT ![c] = [at |-> "verify", p |-> p, t |-> t]]
            /\ UNCHANGED intent
    /\ UNCHANGED <<exec, refund, fundTx, expired, funding, chain, seen, task, rtask, world,
                   again>>

(* The receipt is not there yet, cannot be read or is wrong: both UPDATEs  *)
(* set the status and the hash without looking at the status.              *)
FundingUnproved(c) == LET p == call[c].p IN
    /\ call[c].at = "verify"
    /\ \E s \in {"awaiting_funding", "manual_review"} :
         /\ s = "awaiting_funding" => chain[call[c].t] = "pending"
         /\ intent' = [intent EXCEPT ![p] = s]
    /\ fundTx' = [fundTx EXCEPT ![p] = call[c].t]
    /\ call' = Ended(c)
    /\ UNCHANGED <<exec, refund, expired, funding, chain, seen, task, rtask, world, again>>

(* The CTE: the intent is updated when it has no other hash, and the hash  *)
(* is registered once; the handler goes on only when it registered it.     *)
RegisterFunding(c) == LET p == call[c].p  t == call[c].t IN
    /\ call[c].at = "verify" /\ chain[t] = "final"
    /\ IF fundTx[p] \in {None, t}
       THEN /\ intent' = [intent EXCEPT ![p] = "funding_confirmed"]
            /\ fundTx' = [fundTx EXCEPT ![p] = t]
            /\ IF funding[t] = None
               THEN /\ funding' = [funding EXCEPT ![t] = p]
                    /\ call' = [call EXCEPT ![c].at = "insert"]
               ELSE call' = Ended(c) /\ UNCHANGED funding
       ELSE call' = Ended(c) /\ UNCHANGED <<intent, fundTx, funding>>
    /\ UNCHANGED <<exec, refund, expired, chain, seen, task, rtask, world, again>>

InsertExecution(c) == LET p == call[c].p IN
    /\ call[c].at = "insert"
    /\ exec' = IF exec[p].st = "none" THEN [exec EXCEPT ![p].st = "pending"] ELSE exec
    /\ call' = Ended(c)
    /\ UNCHANGED <<intent, refund, fundTx, expired, funding, chain, seen, task, rtask, world,
                   again>>

(* The handler stops, or its INSERT fails and the error is ignored.        *)
HandlerStops(c) ==
    /\ call[c].at \in {"verify", "insert"}
    /\ call' = Ended(c)
    /\ UNCHANGED <<books, fundTx, expired, funding, chain, seen, task, rtask, world, again>>

-----------------------------------------------------------------------------
(* The transactions of the store, as changes of the three rows.            *)
SetExec(p, st) == exec' = [exec EXCEPT ![p].st = st]
SetIntent(p, st, unless) ==
    intent' = IF intent[p] \in unless THEN intent ELSE [intent EXCEPT ![p] = st]

CompleteExecution(p) ==
    /\ exec' = IF exec[p].st = "completed" THEN exec
               ELSE [exec EXCEPT ![p].st = "completed", ![p].amb = FALSE, ![p].nf = 0,
                                 ![p].ns = FALSE]
    /\ SetIntent(p, "completed", {})

(* Mutant: the review forgets that the row may be completed.               *)
MarkManualReviewAnyway(p) ==
    /\ SetExec(p, "manual_review") /\ SetIntent(p, "manual_review", {"completed"})

MarkManualReview(p) ==
    /\ IF exec[p].st = "completed" THEN UNCHANGED exec ELSE SetExec(p, "manual_review")
    /\ SetIntent(p, "manual_review", {"completed"})

(* Mutant: a definitive error of a lookup counts like one of the PUT.      *)
CanRefundOnAnyError(k) ==
    /\ k.sender
    /\ k.before \notin {"completed", "manual_review"}
    /\ k.ans \in {"failed", "definitive"}

(* mobilePaymentCanCreateRefund                                            *)
CanCreateRefund(k) ==
    /\ k.sender
    /\ k.before \notin {"completed", "manual_review"}
    /\ k.before \in Waiting => k.ans = "failed"
    /\ \/ k.ans = "failed"
       \/ k.act = "execute" /\ k.ans = "definitive"

FailExecutionForRefund(p, k) ==
    IF ~CanCreateRefund(k)
    THEN MarkManualReview(p) /\ UNCHANGED refund
    ELSE /\ exec' = IF exec[p].st = "completed" THEN exec
                    ELSE [exec EXCEPT ![p].st = "failed", ![p].amb = FALSE, ![p].ns = FALSE]
         /\ SetIntent(p, "refund_pending", {"completed", "refunded"})
         /\ refund' = IF refund[p].st = "none" THEN [refund EXCEPT ![p].st = "pending"]
                      ELSE refund

Capped(n) == IF n < MinNotFound THEN n ELSE MinNotFound

(* markProviderWaiting: the row only while it is processing, the intent    *)
(* whenever it is not completed.                                           *)
MarkProviderWaiting(p, k, st) ==
    /\ exec' = IF exec[p].st # "processing" THEN exec
               ELSE LET ns == k.ns /\ st = "provider_unknown" IN
                    [exec EXCEPT ![p].st = st, ![p].ns = ns,
                                 ![p].amb = @ \/ st = "provider_unknown",
                                 ![p].nf = IF ns THEN Capped(@ + 1) ELSE 0]
    /\ SetIntent(p, "provider_pending", {"completed"})

(* MarkReconcileNotFound; aged tells that the grace period is over.        *)
MarkReconcileNotFound(p, k, aged) ==
    LET manual == k.nf + 1 >= MinNotFound /\ aged IN
    /\ exec' = IF exec[p].st # "processing" THEN exec
               ELSE [exec EXCEPT ![p].st = IF manual THEN "manual_review" ELSE "provider_unknown",
                                 ![p].ns = TRUE, ![p].amb = TRUE, ![p].nf = Capped(@ + 1)]
    /\ SetIntent(p, IF manual THEN "manual_review" ELSE "provider_pending",
                 {"completed", "refunded"})

(* RetryExecution: the next attempt is an execute, whatever this one was.  *)
RetryExecution(p) ==
    /\ IF exec[p].st = "processing" THEN SetExec(p, "retry_wait") ELSE UNCHANGED exec
    /\ UNCHANGED intent

-----------------------------------------------------------------------------
HasSender(p) == fundTx[p] # None /\ funding[fundTx[p]] # None
Funded(p) == fundTx[p] # None /\ intent[p] \in FundedStatus

(* ClaimNext when the row is not to be tried: the intent is not funded, or *)
(* the attempts are used up.                                               *)
CloseUnclaimed(w, p) ==
    /\ task[w] = Idle /\ exec[p].st \in DueStatus
    /\ IF ~Funded(p)
       THEN SetExec(p, "failed") /\ UNCHANGED intent
       ELSE /\ exec[p].att >= MaxAttempts
            /\ SetExec(p, "manual_review") /\ SetIntent(p, "manual_review", {"completed"})
    /\ UNCHANGED <<refund, entry, seen, task, rtask, world, again>>

ActionFor(st) == IF st \in Waiting THEN "reconcile" ELSE "execute"

ClaimNext(w, p) ==
    /\ task[w] = Idle /\ exec[p].st \in DueStatus
    /\ Funded(p) /\ exec[p].att < MaxAttempts
    /\ task' = [task EXCEPT ![w] =
         [at |-> "call", p |-> p, act |-> ActionFor(exec[p].st), before |-> exec[p].st,
          att |-> exec[p].att + 1, sender |-> HasSender(p), nf |-> exec[p].nf, ns |-> exec[p].ns, ans |-> "none"]]
    /\ exec' = [exec EXCEPT ![p].st = "processing", ![p].att = @ + 1]
    /\ intent' = [intent EXCEPT ![p] = "processing"]
    /\ UNCHANGED <<refund, entry, seen, rtask, world, again>>

(* What Efi says of a PIX it holds.                                        *)
Reported(e) == CASE e = "accepted" -> "pending" [] e = "paid" -> "completed"
                 [] e = "rejected" -> "failed"  [] OTHER -> "notfound"

(* Execute and Reconcile: [the PIX, the answer].  Configuration and token  *)
(* errors come before the PIX request; a 5xx, a reset or a timeout says    *)
(* nothing about the request it answers.                                   *)
Errors == {"definitive", "ambiguous", "transient"}
Unsure == {"ambiguous", "transient"}
Verdicts == {"accepted", "paid", "rejected"}
Unmoved(p) == {<<efi[p], a>> : a \in Errors}
ExecuteOutcomes(p) ==
    Unmoved(p) \cup IF efi[p] # "none" THEN {<<efi[p], Reported(efi[p])>>}
                    ELSE {<<e, a>> : e \in Verdicts, a \in Unsure}
                         \cup {<<e, Reported(e)>> : e \in Verdicts}
ReconcileOutcomes(p) == Unmoved(p) \cup {<<efi[p], Reported(efi[p])>>}
Outcomes(p, act) == IF p \in Unpayable THEN {<<efi[p], "definitive">>}
                    ELSE IF act = "execute" THEN ExecuteOutcomes(p)
                    ELSE ReconcileOutcomes(p)

(* A request without a sure answer may reach an Efi that has none yet.     *)
MayStillArrive(act, o) == act = "execute" /\ o[1] = "none" /\ o[2] \in Unsure

ProviderCall(w) == LET p == task[w].p IN
    /\ task[w].at = "call"
    /\ \E o \in Outcomes(p, task[w].act) :
         /\ efi' = [efi EXCEPT ![p] = o[1]]
         /\ \/ UNCHANGED wire
            \/ MayStillArrive(task[w].act, o) /\ wire' = wire \cup {p}
         /\ task' = [task EXCEPT ![w].at = "apply", ![w].ans = o[2]]
    /\ again' = IF task[w].act = "execute" /\ (efi[p] # "none" \/ p \in wire)
                THEN again \cup {p} ELSE again
    /\ UNCHANGED <<books, entry, seen, rtask, signer>>

(* applyProviderResult and applyProviderError.  FailExecutionForRefund     *)
(* leads to review whenever the refund is not allowed, and so it is for a  *)
(* definitive error of a reconciliation.                                   *)
ApplyAnswer(p, k) ==
    LET last == k.att >= MaxAttempts IN
    \/ k.ans = "completed" /\ CompleteExecution(p) /\ UNCHANGED refund
    \/ k.ans \in {"failed", "definitive"} /\ FailExecutionForRefund(p, k)
    \/ k.ans = "notfound" /\ UNCHANGED refund
         /\ \E aged \in BOOLEAN : MarkReconcileNotFound(p, k, aged)
    \/ k.ans \in {"pending", "ambiguous", "transient"} /\ last
         /\ MarkManualReview(p) /\ UNCHANGED refund
    \/ k.ans = "pending" /\ ~last
         /\ MarkProviderWaiting(p, k, "provider_pending") /\ UNCHANGED refund
    \/ k.ans = "ambiguous" /\ ~last
         /\ MarkProviderWaiting(p, k, "provider_unknown") /\ UNCHANGED refund
    \/ k.ans = "transient" /\ ~last /\ RetryExecution(p) /\ UNCHANGED refund

ProviderApply(w) ==
    /\ task[w].at = "apply"
    /\ ApplyAnswer(task[w].p, task[w])
    /\ task' = [task EXCEPT ![w] = Idle]
    /\ UNCHANGED <<entry, seen, rtask, world, again>>

WorkerStops(w) ==
    /\ task[w] # Idle
    /\ task' = [task EXCEPT ![w] = Idle]
    /\ UNCHANGED <<books, entry, seen, rtask, world, again>>

(* Mutant: only a row known to be ambiguous is recovered.                  *)
RecoverAmbiguous(p) ==
    /\ exec[p].st = "processing" /\ exec[p].amb /\ \A w \in Workers : task[w].p # p
    /\ SetExec(p, "provider_unknown")
    /\ UNCHANGED <<intent, refund, entry, seen, task, rtask, world, again>>

(* RecoverStaleProcessing: four HTTP timeouts of 25 s are shorter than the *)
(* 120 s after which a row is stale, so its worker no longer holds it.     *)
RecoverStaleProcessing(p) ==
    /\ exec[p].st = "processing" /\ \A w \in Workers : task[w].p # p
    /\ SetExec(p, "provider_unknown")
    /\ UNCHANGED <<intent, refund, entry, seen, task, rtask, world, again>>

-----------------------------------------------------------------------------
Existing(p) == CASE efi[p] = "accepted" -> {"pending"}
                 [] efi[p] = "paid"     -> {"pending", "completed"}
                 [] efi[p] = "rejected" -> {"pending", "failed"}
                 [] OTHER               -> {}

(* The event's hash is stored first; the rows are then looked for with     *)
(* SKIP LOCKED, so while any other transaction holds them the event counts *)
(* as unmatched, and its redelivery as a duplicate.                        *)
WebhookUnmatched(p, s) ==
    /\ s \in Existing(p) \ seen[p]
    /\ seen' = [seen EXCEPT ![p] = @ \cup {s}]
    /\ UNCHANGED <<books, entry, task, rtask, world, again>>

Settled(p) == exec[p].st = "completed" \/ intent[p] = "completed"

(* markMobilePaymentFinancialIncident                                      *)
FinancialIncident(p) ==
    /\ SetIntent(p, "manual_review", {})
    /\ refund' = IF refund[p].st = "completed" THEN refund
                 ELSE [refund EXCEPT ![p].st = "manual_review"]
    /\ UNCHANGED exec

WebhookCompleted(p) ==
    IF refund[p].tx \/ refund[p].st \in {"confirming", "completed"}
    THEN FinancialIncident(p)
    ELSE /\ refund' = IF refund[p].st \in {"pending", "retry_wait", "provider_unknown",
                                           "manual_review"}
                      THEN [refund EXCEPT ![p].st = "cancelled"] ELSE refund
         /\ CompleteExecution(p)

WebhookFailed(p) ==
    FailExecutionForRefund(p, [sender |-> HasSender(p), before |-> exec[p].st,
                               act |-> "webhook", ans |-> "failed"])

WebhookPending(p) ==
    /\ exec' = IF exec[p].st = "failed" THEN exec
               ELSE [exec EXCEPT ![p].st = "provider_pending", ![p].ns = FALSE]
    /\ SetIntent(p, "provider_pending", {"refund_pending", "refunded"})
    /\ UNCHANGED refund

ApplyEfiMobileWebhook(p, s) ==
    /\ s \in Existing(p) \ seen[p]
    /\ seen' = [seen EXCEPT ![p] = @ \cup {s}]
    /\ \/ Settled(p) /\ UNCHANGED books
       \/ /\ ~Settled(p)
          /\ CASE s = "completed" -> WebhookCompleted(p)
               [] s = "failed"    -> WebhookFailed(p)
               [] s = "pending"   -> WebhookPending(p)
    /\ UNCHANGED <<entry, task, rtask, world, again>>

-----------------------------------------------------------------------------
SetRefund(p, st) == refund' = [refund EXCEPT ![p].st = st]

(* mobileRefundEligibleForBroadcast; the definitive proof it asks for is   *)
(* what CanCreateRefund required when the row was written.                 *)
Eligible(p) ==
    /\ intent[p] = "refund_pending" \/ (intent[p] = "manual_review" /\ refund[p].tx)
    /\ exec[p].st = "failed" /\ fundTx[p] # None

(* ClaimNextRefund when the refund must not go on.                         *)
CloseRefund(v, p) ==
    /\ rtask[v] = RIdle /\ refund[p].st \in RefundDue
    /\ IF Settled(p)
       THEN IF refund[p].tx THEN FinancialIncident(p)
            ELSE SetRefund(p, "cancelled") /\ UNCHANGED <<intent, exec>>
       ELSE /\ ~Eligible(p) \/ refund[p].att >= MaxRefundAttempts
            /\ SetRefund(p, "manual_review") /\ UNCHANGED <<intent, exec>>
    /\ UNCHANGED <<entry, seen, task, rtask, world, again>>

(* A reconciliation of a refund that has a tx_hash only confirms it.       *)
RefundAction(r) ==
    CASE r.st = "confirming" \/ (r.st = "provider_unknown" /\ r.tx) -> "confirm"
      [] r.st = "provider_unknown" /\ ~r.tx -> "reconcile"
      [] OTHER -> "broadcast"

ClaimNextRefund(v, p) ==
    /\ rtask[v] = RIdle /\ refund[p].st \in RefundDue
    /\ ~Settled(p) /\ Eligible(p) /\ refund[p].att < MaxRefundAttempts
    /\ rtask' = [rtask EXCEPT ![v] =
         [at |-> "call", p |-> p, act |-> RefundAction(refund[p]),
          att |-> refund[p].att + 1, ans |-> "none"]]
    /\ refund' = [refund EXCEPT ![p].st = "processing", ![p].att = @ + 1]
    /\ UNCHANGED <<intent, exec, entry, seen, task, world, again>>

(* The signer's operation: "none", "failed" before it was broadcast, in    *)
(* the mempool, and then mined or reverted.                                *)
Broadcast(s) == IF s \in {"none", "failed"} THEN "sent" ELSE s

(* [the operation, the answer] of BroadcastRefund, ReconcileRefund (and    *)
(* RecoverRefund) and VerifyRefundReceipt.                                 *)
BroadcastOutcomes(s) ==
    {<<Broadcast(s), a>> : a \in {"tx", "ambiguous", "transient"}} \cup {<<s, a>> : a \in Errors}
    \cup IF s \in {"none", "failed"} THEN {<<"failed", "transient">>} ELSE {}
LookupOutcomes(s) ==
    {<<s, a>> : a \in Errors}
    \cup CASE s \in {"sent", "reverted"} -> {<<s, "tx">>}
           [] s = "mined"  -> {<<s, "tx">>, <<s, "txconfirmed">>}
           [] s = "failed" -> {<<s, "transient">>}
           [] OTHER        -> {<<s, "ambiguous">>}
ReceiptOutcomes(s) ==
    {<<s, "error">>, <<s, CASE s = "mined" -> "confirmed" [] s = "reverted" -> "reverted"
                            [] OTHER -> "pending">>}
RefundOutcomes(act, s) == CASE act = "broadcast" -> BroadcastOutcomes(s)
                            [] act = "reconcile" -> LookupOutcomes(s)
                            [] act = "confirm"   -> ReceiptOutcomes(s)

SignerCall(v) == LET p == rtask[v].p IN
    /\ rtask[v].at = "call"
    /\ \E o \in RefundOutcomes(rtask[v].act, signer[p]) :
         /\ signer' = [signer EXCEPT ![p] = o[1]]
         /\ rtask' = [rtask EXCEPT ![v].at = "apply", ![v].ans = o[2]]
    /\ UNCHANGED <<books, entry, seen, task, efi, wire, again>>

IfProcessing(p, r) == refund' = IF refund[p].st = "processing" THEN [refund EXCEPT ![p] = r]
                                ELSE refund
Marked(p, st) == [refund[p] EXCEPT !.st = st]
MarkRefundBroadcast(p) == IfProcessing(p, [Marked(p, "confirming") EXCEPT !.tx = TRUE])
MarkRefundManualReview(p) == IF refund[p].st = "completed" THEN UNCHANGED refund
                             ELSE SetRefund(p, "manual_review")

CompleteRefund(p) ==
    /\ refund' = [refund EXCEPT ![p].st = "completed", ![p].tx = TRUE]
    /\ SetIntent(p, "refunded", {"completed", "refunded"})

(* What broadcastRefund, reconcileRefund and confirmRefund do with each    *)
(* answer.                                                                 *)
ApplyRefundAnswer(p, k) ==
    LET last == k.att >= MaxRefundAttempts IN
    \/ k.ans = "confirmed" /\ CompleteRefund(p)
    \/ /\ k.ans # "confirmed" /\ UNCHANGED intent
       /\ CASE k.ans \in {"tx", "txconfirmed", "pending"} -> MarkRefundBroadcast(p)
            [] k.ans = "reverted"  -> MarkRefundManualReview(p)
            [] k.ans = "error"     -> IfProcessing(p, Marked(p, "provider_unknown"))
            [] k.act = "broadcast" ->
                 IF k.ans = "ambiguous" THEN IfProcessing(p, Marked(p, "provider_unknown"))
                 ELSE IF last THEN MarkRefundManualReview(p)
                 ELSE IfProcessing(p, Marked(p, "retry_wait"))
            [] k.act = "reconcile" ->
                 IF k.ans = "transient" THEN IfProcessing(p, Marked(p, "retry_wait"))
                 ELSE IF last THEN MarkRefundManualReview(p)
                 ELSE IfProcessing(p, Marked(p, "provider_unknown"))

(* An operation the signer reports confirmed is verified at once, by the   *)
(* same claim.                                                             *)
RefundApply(v) == LET k == rtask[v] IN
    /\ k.at = "apply"
    /\ ApplyRefundAnswer(k.p, k)
    /\ rtask' = [rtask EXCEPT ![v] =
         IF k.ans = "txconfirmed" THEN [k EXCEPT !.at = "call", !.act = "confirm", !.ans = "none"]
         ELSE RIdle]
    /\ UNCHANGED <<exec, entry, seen, task, world, again>>

RefundWorkerStops(v) ==
    /\ rtask[v] # RIdle
    /\ rtask' = [rtask EXCEPT ![v] = RIdle]
    /\ UNCHANGED <<books, entry, seen, task, world, again>>

(* RecoverStaleRefunds measures from started_at, which only the first      *)
(* claim sets: a later claim is stale while its worker is still busy.      *)
RecoverStaleRefunds(p) ==
    /\ refund[p].st = "processing"
    /\ refund[p].att > 1 \/ \A v \in RefundWorkers : rtask[v].p # p
    /\ SetRefund(p, "provider_unknown")
    /\ UNCHANGED <<intent, exec, entry, seen, task, rtask, world, again>>

-----------------------------------------------------------------------------
(* External.                                                               *)
ChainMoves(t) ==
    /\ chain[t] = "pending"
    /\ \E s \in {"final", "bad"} : chain' = [chain EXCEPT ![t] = s]
    /\ UNCHANGED <<books, fundTx, expired, funding, call, seen, task, rtask, world, again>>

WireArrives(p) ==
    /\ p \in wire
    /\ wire' = wire \ {p}
    /\ efi' = IF efi[p] = "none" THEN [efi EXCEPT ![p] = "accepted"] ELSE efi
    /\ UNCHANGED <<books, entry, seen, task, rtask, signer, again>>

EfiSettles(p) ==
    /\ efi[p] = "accepted"
    /\ \E s \in {"paid", "rejected"} : efi' = [efi EXCEPT ![p] = s]
    /\ UNCHANGED <<books, entry, seen, task, rtask, wire, signer, again>>

RefundMined(p) ==
    /\ signer[p] = "sent"
    /\ \E s \in {"mined", "reverted"} : signer' = [signer EXCEPT ![p] = s]
    /\ UNCHANGED <<books, entry, seen, task, rtask, efi, wire, again>>

ConfirmStep(c) == BeginConfirm(c) \/ FundingUnproved(c) \/ RegisterFunding(c)
                  \/ InsertExecution(c) \/ HandlerStops(c)
Runs(w) == (\E p \in Payments : CloseUnclaimed(w, p) \/ ClaimNext(w, p))
           \/ ProviderCall(w) \/ ProviderApply(w)
Refunds(v) == (\E p \in Payments : CloseRefund(v, p) \/ ClaimNextRefund(v, p))
              \/ SignerCall(v) \/ RefundApply(v)
Recovers(p) == RecoverStaleProcessing(p) \/ RecoverStaleRefunds(p)
World(p) == WireArrives(p) \/ EfiSettles(p) \/ RefundMined(p)

Next ==
    \/ \E p \in Payments : CreateIntent(p) \/ QuoteExpires(p) \/ Recovers(p) \/ World(p)
    \/ \E p \in Payments, s \in Events : WebhookUnmatched(p, s) \/ ApplyEfiMobileWebhook(p, s)
    \/ \E c \in Calls : ConfirmStep(c)
    \/ \E t \in Txs : ChainMoves(t)
    \/ \E w \in Workers : Runs(w) \/ WorkerStops(w)
    \/ \E v \in RefundWorkers : Refunds(v) \/ RefundWorkerStops(v)

Spec == Init /\ [][Next]_vars

(* The workers poll for ever and every HTTP exchange has a timeout; nothing*)
(* is assumed of the user, of Efi's webhooks or of the handlers.           *)
FairSpec == /\ Spec
            /\ \A w \in Workers : WF_vars(Runs(w))
            /\ \A v \in RefundWorkers : WF_vars(Refunds(v))
            /\ \A p \in Payments : WF_vars(RecoverStaleProcessing(p))
                                   /\ WF_vars(RecoverStaleRefunds(p))

-----------------------------------------------------------------------------
TypeOK ==
    /\ intent \in [Payments -> IntentStatus]
    /\ fundTx \in [Payments -> Txs \cup {None}] /\ funding \in [Txs -> Payments \cup {None}]
    /\ expired \subseteq Payments /\ wire \subseteq Payments /\ again \subseteq Payments
    /\ exec \in [Payments -> Exec] /\ refund \in [Payments -> Refund]
    /\ seen \in [Payments -> SUBSET Events]
    /\ call \in [Calls -> Call] /\ chain \in [Txs -> {"pending", "final", "bad"}]
    /\ task \in [Workers -> Task] /\ rtask \in [RefundWorkers -> RTask]
    /\ efi \in [Payments -> {"none", "accepted", "paid", "rejected"}]
    /\ signer \in [Payments -> {"none", "failed", "sent", "mined", "reverted"}]

(* A payment is completed only when Efi paid the PIX, and refunded only    *)
(* when the USDT really went back, whatever was lost, late or repeated.    *)
BooksMatchTheMoney == \A p \in Payments :
    /\ exec[p].st = "completed" \/ intent[p] = "completed" => efi[p] = "paid"
    /\ refund[p].st = "completed" \/ intent[p] = "refunded" => signer[p] = "mined"

(* The USDT goes back only for a PIX that Efi rejected, or never got and   *)
(* will not get: after a timeout, a lost answer or a lookup that fails or  *)
(* finds nothing, no error is taken for a refusal.  The one exception is   *)
(* the execution sent again on top of a PUT that Efi had or could still    *)
(* get (retry_wait after a timeout or a 5xx): its 400, 401, 403 or 404     *)
(* counts as a refusal, and the refund then races with the first PIX.      *)
RefundedIsUnpaid == \A p \in Payments \ again :
    signer[p] # "none" =>
        \/ efi[p] = "rejected"
        \/ efi[p] = "none" /\ p \notin wire

(* What the books say is what happened, and what was paid is not returned  *)
(* unless the execution was sent twice.                                    *)
PaymentBooksAreTrue == TypeOK /\ BooksMatchTheMoney /\ RefundedIsUnpaid

(* What is concluded stays so, although two workers, a stale claim or a    *)
(* late webhook may write after it.                                        *)
CompletedIsFinal == [][\A p \in Payments :
    /\ exec[p].st = "completed" => exec'[p].st = "completed"
    /\ refund[p].st = "completed" => refund'[p].st = "completed"]_vars

(* Every execution leaves the worker's queue, whatever crashes: completed, *)
(* failed or left to support.                                              *)
ExecutionEnds == \A p \in Payments :
    exec[p].st # "none" ~> exec[p].st \in DoneStatus

(* So does every refund.                                                   *)
RefundEnds == \A p \in Payments :
    refund[p].st # "none" ~> refund[p].st \in RefundDone

=============================================================================
