--------------------------- MODULE MobilePayProofs ---------------------------
(***************************************************************************)
(* Theorems of MobilePay, for any number of payments, transfers, confirm   *)
(* calls and workers of either kind.  The inductive invariant IndInv adds  *)
(* to the books what the workers' memory is worth: an answer still to be   *)
(* applied is true of Efi, or of the signer, when it is finally applied,   *)
(* however late.  SentInv adds what a refund rests on: while Efi has no    *)
(* PIX of a payment, one worker at most holds its row.                     *)
(***************************************************************************)
EXTENDS MobilePay, TLAPS

(* What an execution worker remembers of Efi's answer.                     *)
AnswersAreTrue == \A w \in Workers :
    /\ task[w].at # "idle" => task[w].p \in Payments
    /\ task[w].at = "apply" /\ task[w].ans = "completed" => efi[task[w].p] = "paid"

(* What a refund worker holds, and remembers of the signer's answer.       *)
RefundsAreTrue == \A v \in RefundWorkers :
    /\ rtask[v].at # "idle" => rtask[v].p \in Payments
    /\ rtask[v].at = "apply" =>
         /\ rtask[v].ans = "confirmed" => signer[rtask[v].p] = "mined"
         /\ rtask[v].act = "confirm" =>
              rtask[v].ans \in {"error", "pending", "confirmed", "reverted"}

CallsHoldTheirPair == \A c \in Calls :
    call[c].at \in {"verify", "insert"} => call[c].p \in Payments /\ call[c].t \in Txs

SentRefundsHaveRows == \A p \in Payments : refund[p].tx => refund[p].st # "none"

IndInv == /\ TypeOK
          /\ AnswersAreTrue /\ RefundsAreTrue
          /\ CallsHoldTheirPair
          /\ SentRefundsHaveRows
          /\ BooksMatchTheMoney

-----------------------------------------------------------------------------
LEMMA InitIndInv == Init => IndInv
  <1> SUFFICES ASSUME Init PROVE IndInv
    OBVIOUS
  <1> USE MobilePayAssumption DEF Init
  <1>1. NoExec \in Exec /\ NoRefund \in Refund /\ Idle \in Task /\ RIdle \in RTask
    BY DEF NoExec, Exec, NoRefund, Refund, Idle, Task, RIdle, RTask, Answers
  <1>2. TypeOK
    BY <1>1 DEF TypeOK, IntentStatus, Call
  <1>3. AnswersAreTrue /\ RefundsAreTrue /\ CallsHoldTheirPair
    BY DEF AnswersAreTrue, RefundsAreTrue, CallsHoldTheirPair, Idle, RIdle
  <1>4. SentRefundsHaveRows /\ BooksMatchTheMoney
    BY DEF SentRefundsHaveRows, BooksMatchTheMoney, NoRefund, NoExec
  <1> QED
    BY <1>2, <1>3, <1>4 DEF IndInv

(* Rows of the two tables keep their type whatever the steps write.        *)
LEMMA ExecTyped ==
  ASSUME NEW r \in Exec, NEW st \in {"none", "processing"} \cup DueStatus \cup DoneStatus,
         NEW amb \in BOOLEAN, NEW ns \in BOOLEAN, NEW nf \in 0..MinNotFound
  PROVE  /\ [r EXCEPT !.st = st] \in Exec
         /\ [r EXCEPT !.st = st, !.ns = ns] \in Exec
         /\ [r EXCEPT !.st = st, !.amb = amb, !.ns = ns] \in Exec
         /\ [r EXCEPT !.st = st, !.amb = amb, !.nf = nf, !.ns = ns] \in Exec
         /\ [r EXCEPT !.st = st, !.ns = ns, !.amb = amb, !.nf = nf] \in Exec
  BY DEF Exec

LEMMA RefundTyped ==
  ASSUME NEW r \in Refund, NEW st \in {"none", "processing"} \cup RefundDue \cup RefundDone,
         NEW tx \in BOOLEAN
  PROVE  /\ [r EXCEPT !.st = st] \in Refund
         /\ [r EXCEPT !.st = st, !.tx = tx] \in Refund
  BY DEF Refund

LEMMA NotFoundTyped ==
  /\ 0 \in 0..MinNotFound
  /\ \A n \in 0..MinNotFound : Capped(n + 1) \in 0..MinNotFound
  BY MobilePayAssumption DEF Capped

(* What any transaction of the store may do to the three rows: it books    *)
(* only what happened, and takes no conclusion back.                       *)
ExecBooked ==
    /\ exec' \in [Payments -> Exec]
    /\ \A p \in Payments : /\ exec'[p].st = "completed" => efi[p] = "paid"
                           /\ exec[p].st = "completed" => exec'[p].st = "completed"
IntentBooked ==
    /\ intent' \in [Payments -> IntentStatus]
    /\ \A p \in Payments : /\ intent'[p] = "completed" => efi[p] = "paid"
                           /\ intent'[p] = "refunded" => signer[p] = "mined"
RefundBooked ==
    /\ refund' \in [Payments -> Refund]
    /\ \A p \in Payments : /\ refund'[p].st = "completed" => signer[p] = "mined"
                           /\ refund[p].st = "completed" => refund'[p].st = "completed"
                           /\ refund'[p].tx => refund'[p].st # "none"

LEMMA Unbooked ==
  ASSUME IndInv
  PROVE  /\ exec' = exec => ExecBooked
         /\ intent' = intent => IntentBooked
         /\ refund' = refund => RefundBooked
  BY DEF IndInv, TypeOK, BooksMatchTheMoney, SentRefundsHaveRows, ExecBooked, IntentBooked,
     RefundBooked

LEMMA BookExec ==
  ASSUME IndInv, NEW p \in Payments, NEW r \in Exec, exec' = [exec EXCEPT ![p] = r],
         r.st = "completed" => efi[p] = "paid",
         exec[p].st = "completed" => r.st = "completed"
  PROVE  ExecBooked
  BY DEF IndInv, TypeOK, BooksMatchTheMoney, ExecBooked

LEMMA BookStatus ==
  ASSUME IndInv, NEW p \in Payments, NEW st \in {"none", "processing"} \cup DueStatus \cup DoneStatus,
         SetExec(p, st), st # "completed", exec[p].st # "completed"
  PROVE  ExecBooked
  <1>1. [exec[p] EXCEPT !.st = st] \in Exec /\ [exec[p] EXCEPT !.st = st].st = st
    BY DEF IndInv, TypeOK, Exec
  <1> QED
    BY <1>1, BookExec DEF SetExec

LEMMA BookIntent ==
  ASSUME IndInv, NEW p \in Payments, NEW st \in IntentStatus, NEW unless,
         SetIntent(p, st, unless),
         st = "completed" => efi[p] = "paid", st = "refunded" => signer[p] = "mined"
  PROVE  IntentBooked
  BY DEF SetIntent, IndInv, TypeOK, BooksMatchTheMoney, IntentBooked

LEMMA BookRefund ==
  ASSUME IndInv, NEW p \in Payments, NEW r \in Refund, refund' = [refund EXCEPT ![p] = r],
         r.st # "none",
         r.st = "completed" => signer[p] = "mined",
         refund[p].st = "completed" => r.st = "completed"
  PROVE  RefundBooked
  BY DEF IndInv, TypeOK, BooksMatchTheMoney, SentRefundsHaveRows, RefundBooked

(* The transactions of the execution worker and of the webhooks.           *)
LEMMA CompleteBooks ==
  ASSUME IndInv, NEW p \in Payments, CompleteExecution(p), efi[p] = "paid"
  PROVE  ExecBooked /\ IntentBooked
  <1> DEFINE r == [exec[p] EXCEPT !.st = "completed", !.amb = FALSE, !.nf = 0, !.ns = FALSE]
  <1>1. r \in Exec /\ r.st = "completed"
    <2>1. exec[p] \in Exec /\ "completed" \in {"none", "processing"} \cup DueStatus \cup DoneStatus
      BY DEF IndInv, TypeOK, DoneStatus
    <2>2. r \in Exec
      BY <2>1, ExecTyped, NotFoundTyped
    <2> QED
      BY <2>1, <2>2 DEF Exec
  <1>2. exec' = exec \/ exec' = [exec EXCEPT ![p] = r]
    BY DEF CompleteExecution
  <1>3. SetIntent(p, "completed", {})
    BY DEF CompleteExecution
  <1> HIDE DEF r
  <1>4. ExecBooked
    BY <1>1, <1>2, BookExec, Unbooked
  <1> QED
    BY <1>3, <1>4, BookIntent DEF IntentStatus

LEMMA ReviewBooks ==
  ASSUME IndInv, NEW p \in Payments, MarkManualReview(p)
  PROVE  ExecBooked /\ IntentBooked
  <1>1. CASE exec[p].st = "completed"
    BY <1>1, BookIntent, Unbooked DEF MarkManualReview, IntentStatus
  <1>2. CASE exec[p].st # "completed"
    <2>1. SetExec(p, "manual_review") /\ SetIntent(p, "manual_review", {"completed"})
      BY <1>2 DEF MarkManualReview
    <2>2. ExecBooked
      <3>1. "manual_review" \in {"none", "processing"} \cup DueStatus \cup DoneStatus
        BY DEF DoneStatus
      <3>2. "manual_review" # "completed"
        OBVIOUS
      <3> QED
        BY <1>2, <2>1, <3>1, <3>2, BookStatus
    <2>3. IntentBooked
      BY <2>1, BookIntent DEF IntentStatus
    <2> QED
      BY <2>2, <2>3
  <1> QED
    BY <1>1, <1>2

LEMMA FailBooks ==
  ASSUME IndInv, NEW p \in Payments, NEW k, FailExecutionForRefund(p, k)
  PROVE  ExecBooked /\ IntentBooked /\ RefundBooked
  <1>1. CASE ~CanCreateRefund(k)
    BY <1>1, ReviewBooks, Unbooked DEF FailExecutionForRefund
  <1>2. CASE CanCreateRefund(k)
    <2> DEFINE r == [exec[p] EXCEPT !.st = "failed", !.amb = FALSE, !.ns = FALSE]
               f == [refund[p] EXCEPT !.st = "pending"]
    <2>1. r \in Exec /\ r.st = "failed"
      <3>1. exec[p] \in Exec
        BY DEF IndInv, TypeOK
      <3>2. "failed" \in {"none", "processing"} \cup DueStatus \cup DoneStatus
        BY DEF DoneStatus
      <3>3. r \in Exec
        BY <3>1, <3>2, ExecTyped, NotFoundTyped
      <3> QED
        BY <3>1, <3>3 DEF Exec
    <2>2. f \in Refund /\ f.st = "pending"
      BY DEF IndInv, TypeOK, Refund, RefundDue
    <2>3. exec' = exec \/ (exec[p].st # "completed" /\ exec' = [exec EXCEPT ![p] = r])
      BY <1>2 DEF FailExecutionForRefund
    <2>4. SetIntent(p, "refund_pending", {"completed", "refunded"})
      BY <1>2 DEF FailExecutionForRefund
    <2>5. refund' = refund \/ (refund[p].st = "none" /\ refund' = [refund EXCEPT ![p] = f])
      BY <1>2 DEF FailExecutionForRefund
    <2> HIDE DEF r, f
    <2>6. ExecBooked
      BY <2>1, <2>3, BookExec, Unbooked
    <2>7. IntentBooked
      BY <2>4, BookIntent DEF IntentStatus
    <2>8. RefundBooked
      BY <1>2, <2>2, <2>5, BookRefund, Unbooked
    <2> QED
      BY <2>6, <2>7, <2>8
  <1> QED
    BY <1>1, <1>2

LEMMA WaitingBooks ==
  ASSUME IndInv, NEW p \in Payments, NEW k \in Task, NEW st \in Waiting,
         MarkProviderWaiting(p, k, st)
  PROVE  ExecBooked /\ IntentBooked
  <1> DEFINE ns  == k.ns /\ st = "provider_unknown"
             nf  == IF ns THEN Capped(exec[p].nf + 1) ELSE 0
             amb == exec[p].amb \/ st = "provider_unknown"
             r   == [exec[p] EXCEPT !.st = st, !.ns = ns, !.amb = amb, !.nf = nf]
  <1>1. exec[p] \in Exec /\ exec[p].nf \in 0..MinNotFound /\ exec[p].amb \in BOOLEAN
    BY DEF IndInv, TypeOK, Exec
  <1>2. ns \in BOOLEAN /\ amb \in BOOLEAN
    BY <1>1 DEF Task
  <1>3. nf \in 0..MinNotFound
    BY <1>1, NotFoundTyped
  <1>4. exec' = exec \/ (exec[p].st = "processing" /\ exec' = [exec EXCEPT ![p] = r])
    BY DEF MarkProviderWaiting
  <1>5. SetIntent(p, "provider_pending", {"completed"})
    BY DEF MarkProviderWaiting
  <1> HIDE DEF ns, nf, amb
  <1>6. r \in Exec
    BY <1>1, <1>2, <1>3, ExecTyped DEF Waiting, DueStatus
  <1>7. r.st = st /\ st # "completed"
    BY <1>1 DEF Exec, Waiting
  <1> HIDE DEF r
  <1>8. ExecBooked
    BY <1>4, <1>6, <1>7, BookExec, Unbooked
  <1> QED
    BY <1>5, <1>8, BookIntent DEF IntentStatus

LEMMA NotFoundBooks ==
  ASSUME IndInv, NEW p \in Payments, NEW k, NEW aged, MarkReconcileNotFound(p, k, aged)
  PROVE  ExecBooked /\ IntentBooked
  <1>1. PICK manual \in BOOLEAN :
          /\ exec' = exec \/ /\ exec[p].st = "processing"
                             /\ exec' = [exec EXCEPT ![p] = [exec[p] EXCEPT
                                  !.st = IF manual THEN "manual_review" ELSE "provider_unknown",
                                  !.ns = TRUE, !.amb = TRUE, !.nf = Capped(exec[p].nf + 1)]]
          /\ SetIntent(p, IF manual THEN "manual_review" ELSE "provider_pending",
                       {"completed", "refunded"})
    <2>1. CASE k.nf + 1 >= MinNotFound /\ aged
      BY <2>1 DEF MarkReconcileNotFound
    <2>2. CASE ~(k.nf + 1 >= MinNotFound /\ aged)
      BY <2>2 DEF MarkReconcileNotFound
    <2> QED
      BY <2>1, <2>2
  <1> DEFINE st == IF manual THEN "manual_review" ELSE "provider_unknown"
             nf == Capped(exec[p].nf + 1)
             r  == [exec[p] EXCEPT !.st = st, !.ns = TRUE, !.amb = TRUE, !.nf = nf]
  <1>2. exec[p] \in Exec /\ nf \in 0..MinNotFound
    BY NotFoundTyped DEF IndInv, TypeOK, Exec
  <1>3. st \in {"none", "processing"} \cup DueStatus \cup DoneStatus /\ st # "completed"
    BY DEF Waiting, DueStatus, DoneStatus
  <1>4. exec' = exec \/ (exec[p].st = "processing" /\ exec' = [exec EXCEPT ![p] = r])
    BY <1>1
  <1> HIDE DEF st, nf
  <1>5. r \in Exec
    BY <1>2, <1>3, ExecTyped
  <1>6. r.st = st
    BY <1>2 DEF Exec
  <1> HIDE DEF r
  <1>7. ExecBooked
    BY <1>3, <1>4, <1>5, <1>6, BookExec, Unbooked
  <1>8. IntentBooked
    BY <1>1, BookIntent DEF IntentStatus
  <1> QED
    BY <1>7, <1>8

LEMMA RetryBooks ==
  ASSUME IndInv, NEW p \in Payments, RetryExecution(p)
  PROVE  ExecBooked /\ IntentBooked
  BY BookStatus, Unbooked DEF RetryExecution, DueStatus

LEMMA IncidentBooks ==
  ASSUME IndInv, NEW p \in Payments, FinancialIncident(p),
         refund[p].st # "none"
  PROVE  ExecBooked /\ IntentBooked /\ RefundBooked
  <1> DEFINE r == [refund[p] EXCEPT !.st = "manual_review"]
  <1>1. r \in Refund /\ r.st = "manual_review"
    BY DEF IndInv, TypeOK, Refund, RefundDone, SentRefundsHaveRows
  <1>2. refund' = refund \/ (refund[p].st # "completed" /\ refund' = [refund EXCEPT ![p] = r])
    BY DEF FinancialIncident
  <1> HIDE DEF r
  <1>3. RefundBooked
    BY <1>1, <1>2, BookRefund, Unbooked
  <1>4. IntentBooked
    BY BookIntent DEF FinancialIncident, IntentStatus
  <1> QED
    BY <1>3, <1>4, Unbooked DEF FinancialIncident

-----------------------------------------------------------------------------
(* The answers a worker can be given: whatever Efi held is kept, and what  *)
(* the answer says of the PIX is true of what Efi holds then.              *)
EfiStates == {"none", "accepted", "paid", "rejected"}

LEMMA ReportsAreTrue ==
  ASSUME NEW e \in EfiStates
  PROVE  Reported(e) \in Answers /\ (Reported(e) = "completed" => e = "paid")
  BY DEF Reported, Answers, Events, EfiStates

LEMMA OutcomesAreTrue ==
  ASSUME NEW p \in Payments, efi[p] \in EfiStates, NEW act, NEW o \in Outcomes(p, act)
  PROVE  /\ o[1] \in EfiStates /\ o[2] \in Answers
         /\ efi[p] = "none" \/ o[1] = efi[p]
         /\ o[2] = "completed" => o[1] = "paid"
  <1>1. CASE o \in {<<efi[p], "definitive">>}
    BY <1>1 DEF Answers
  <1>2. CASE o \in Unmoved(p)
    BY <1>2 DEF Unmoved, Errors, Answers
  <1>3. CASE o \in {<<efi[p], Reported(efi[p])>>}
    BY <1>3, ReportsAreTrue
  <1>4. CASE efi[p] = "none" /\ o \in {<<e, a>> : e \in Verdicts, a \in Unsure}
    BY <1>4 DEF Answers, EfiStates, Verdicts, Unsure
  <1>5. CASE efi[p] = "none" /\ o \in {<<e, Reported(e)>> : e \in Verdicts}
    BY <1>5, ReportsAreTrue DEF EfiStates, Verdicts
  <1> QED
    BY <1>1, <1>2, <1>3, <1>4, <1>5 DEF Outcomes, ExecuteOutcomes, ReconcileOutcomes

(* A transaction of the store by which no worker's answer becomes untrue.  *)
Transacts ==
    /\ ExecBooked /\ IntentBooked /\ RefundBooked
    /\ UNCHANGED <<entry, world, again>>
    /\ seen' \in [Payments -> SUBSET Events]

LEMMA TransactsIndInv ==
  ASSUME IndInv, Transacts,
         task' \in [Workers -> Task],
         \A w \in Workers : task'[w] = task[w] \/ task'[w] = Idle
                            \/ (task'[w].at = "call" /\ task'[w].p \in Payments),
         rtask' \in [RefundWorkers -> RTask],
         \A v \in RefundWorkers : rtask'[v] = rtask[v] \/ rtask'[v] = RIdle
                                  \/ (rtask'[v].at = "call" /\ rtask'[v].p \in Payments)
  PROVE  IndInv'
  <1>1. TypeOK'
    BY DEF Transacts, ExecBooked, IntentBooked, RefundBooked, entry, world, IndInv, TypeOK
  <1>2. AnswersAreTrue'
    BY DEF Transacts, world, IndInv, AnswersAreTrue, Idle
  <1>3. RefundsAreTrue'
    BY DEF Transacts, world, IndInv, RefundsAreTrue, RIdle
  <1>4. CallsHoldTheirPair'
    BY DEF Transacts, entry, IndInv, CallsHoldTheirPair
  <1>5. SentRefundsHaveRows' /\ BooksMatchTheMoney'
    BY DEF Transacts, ExecBooked, IntentBooked, RefundBooked, world, IndInv, SentRefundsHaveRows,
       BooksMatchTheMoney
  <1> QED
    BY <1>1, <1>2, <1>3, <1>4, <1>5 DEF IndInv

(* Conclusions that a step does not take back.                             *)
Kept == \A p \in Payments :
    /\ exec[p].st = "completed" => exec'[p].st = "completed"
    /\ refund[p].st = "completed" => refund'[p].st = "completed"

LEMMA TransactsKept == Transacts => Kept
  BY DEF Transacts, ExecBooked, RefundBooked, Kept

-----------------------------------------------------------------------------
(* The confirm handler and the time and chain around it.                   *)
Entered ==
    /\ ExecBooked /\ IntentBooked
    /\ UNCHANGED <<refund, seen, task, rtask, world, again>>
    /\ fundTx' \in [Payments -> Txs \cup {None}] /\ funding' \in [Txs -> Payments \cup {None}]
    /\ expired' \subseteq Payments /\ chain' \in [Txs -> {"pending", "final", "bad"}]
    /\ call' \in [Calls -> Call]
    /\ \A c \in Calls : call'[c].at \in {"verify", "insert"} =>
                            call'[c].p \in Payments /\ call'[c].t \in Txs

LEMMA EnteredIndInv ==
  ASSUME IndInv, Entered
  PROVE  IndInv' /\ Kept
  <1>1. TypeOK'
    BY DEF Entered, ExecBooked, IntentBooked, world, IndInv, TypeOK
  <1>2. AnswersAreTrue' /\ RefundsAreTrue'
    BY DEF Entered, world, IndInv, AnswersAreTrue, RefundsAreTrue
  <1>3. CallsHoldTheirPair'
    BY DEF Entered, CallsHoldTheirPair
  <1>4. SentRefundsHaveRows' /\ BooksMatchTheMoney' /\ Kept
    BY DEF Entered, ExecBooked, IntentBooked, world, IndInv, SentRefundsHaveRows,
       BooksMatchTheMoney, Kept
  <1> QED
    BY <1>1, <1>2, <1>3, <1>4 DEF IndInv

LEMMA IntentSet ==
  ASSUME IndInv, NEW p \in Payments, NEW st \in IntentStatus \ {"completed", "refunded"},
         intent' = [intent EXCEPT ![p] = st]
  PROVE  IntentBooked
  BY DEF IndInv, TypeOK, BooksMatchTheMoney, IntentBooked

(* The calls that remain after one of them moved.                          *)
LEMMA CallMoves ==
  ASSUME IndInv, NEW c \in Calls, NEW r \in Call, call' = [call EXCEPT ![c] = r],
         r.at \in {"verify", "insert"} => r.p \in Payments /\ r.t \in Txs
  PROVE  /\ call' \in [Calls -> Call]
         /\ \A d \in Calls : call'[d].at \in {"verify", "insert"} =>
                                 call'[d].p \in Payments /\ call'[d].t \in Txs
  BY DEF IndInv, TypeOK, CallsHoldTheirPair

LEMMA CallEnds ==
  ASSUME IndInv, NEW c \in Calls, call' = Ended(c)
  PROVE  /\ call' \in [Calls -> Call]
         /\ \A d \in Calls : call'[d].at \in {"verify", "insert"} =>
                                 call'[d].p \in Payments /\ call'[d].t \in Txs
  <1> DEFINE r == [call[c] EXCEPT !.at = "done"]
  <1>1. r \in Call /\ r.at = "done"
    BY DEF IndInv, TypeOK, Call
  <1>2. call' = [call EXCEPT ![c] = r]
    BY DEF Ended
  <1> HIDE DEF r
  <1> QED
    BY <1>1, <1>2, CallMoves

LEMMA ConfirmEntered ==
  ASSUME IndInv, NEW c \in Calls, ConfirmStep(c)
  PROVE  Entered
  <1> DEFINE p == call[c].p
             t == call[c].t
  <1> USE DEF entry
  <1>0. /\ fundTx \in [Payments -> Txs \cup {None}] /\ funding \in [Txs -> Payments \cup {None}]
        /\ expired \subseteq Payments /\ chain \in [Txs -> {"pending", "final", "bad"}]
        /\ call[c].at \in {"verify", "insert"} => p \in Payments /\ t \in Txs
        /\ call[c] \in Call
    BY DEF IndInv, TypeOK, CallsHoldTheirPair
  <1>1. CASE BeginConfirm(c)
    <2>1. PICK q \in Payments, u \in Txs :
            /\ call[c].at = "new" /\ intent[q] # "none"
            /\ \/ intent' = [intent EXCEPT ![q] = "manual_review"] /\ call' = Ended(c)
               \/ /\ call' = [call EXCEPT ![c] = [at |-> "verify", p |-> q, t |-> u]]
                  /\ UNCHANGED intent
      BY <1>1 DEF BeginConfirm
    <2>2. ExecBooked /\ UNCHANGED <<refund, fundTx, expired, funding, chain, seen, task, rtask, world, again>>
      BY <1>1, Unbooked DEF BeginConfirm
    <2>3. CASE intent' = [intent EXCEPT ![q] = "manual_review"] /\ call' = Ended(c)
      BY <1>0, <2>2, <2>3, IntentSet, CallEnds DEF Entered, IntentStatus
    <2>4. CASE /\ call' = [call EXCEPT ![c] = [at |-> "verify", p |-> q, t |-> u]]
               /\ UNCHANGED intent
      <3>1. [at |-> "verify", p |-> q, t |-> u] \in Call
        BY DEF Call
      <3> QED
        BY <1>0, <2>2, <2>4, <3>1, CallMoves, Unbooked DEF Entered
    <2> QED
      BY <2>1, <2>3, <2>4
  <1>2. CASE FundingUnproved(c)
    <2>1. PICK s \in {"awaiting_funding", "manual_review"} : intent' = [intent EXCEPT ![p] = s]
      BY <1>2 DEF FundingUnproved
    <2>2. p \in Payments /\ t \in Txs
      BY <1>0, <1>2 DEF FundingUnproved
    <2>3. IntentBooked
      BY <2>1, <2>2, IntentSet DEF IntentStatus
    <2>4. fundTx' \in [Payments -> Txs \cup {None}]
      BY <1>0, <1>2, <2>2 DEF FundingUnproved
    <2>5. ExecBooked /\ UNCHANGED <<refund, expired, funding, chain, seen, task, rtask, world, again>>
      BY <1>2, Unbooked DEF FundingUnproved
    <2>6. call' = Ended(c)
      BY <1>2 DEF FundingUnproved
    <2> QED
      BY <1>0, <2>3, <2>4, <2>5, <2>6, CallEnds DEF Entered
  <1>3. CASE RegisterFunding(c)
    <2>1. p \in Payments /\ t \in Txs /\ call[c].at = "verify"
      BY <1>0, <1>3 DEF RegisterFunding
    <2>2. ExecBooked /\ UNCHANGED <<refund, expired, chain, seen, task, rtask, world, again>>
      BY <1>3, Unbooked DEF RegisterFunding
    <2>3. IntentBooked
      <3>1. intent' = intent \/ intent' = [intent EXCEPT ![p] = "funding_confirmed"]
        BY <1>3 DEF RegisterFunding
      <3> QED
        BY <2>1, <3>1, IntentSet, Unbooked DEF IntentStatus
    <2>4. /\ fundTx' \in [Payments -> Txs \cup {None}]
          /\ funding' \in [Txs -> Payments \cup {None}]
      BY <1>0, <1>3, <2>1 DEF RegisterFunding
    <2>5. CASE call' = Ended(c)
      BY <1>0, <2>2, <2>3, <2>4, <2>5, CallEnds DEF Entered
    <2>6. CASE call' = [call EXCEPT ![c].at = "insert"]
      <3> DEFINE r == [call[c] EXCEPT !.at = "insert"]
      <3>1. r \in Call /\ r.p = p /\ r.t = t /\ call' = [call EXCEPT ![c] = r]
        BY <1>0, <2>6 DEF Call
      <3> HIDE DEF r
      <3> QED
        BY <1>0, <2>1, <2>2, <2>3, <2>4, <3>1, CallMoves DEF Entered
    <2> QED
      BY <1>3, <2>5, <2>6 DEF RegisterFunding
  <1>4. CASE InsertExecution(c)
    <2>1. p \in Payments
      BY <1>0, <1>4 DEF InsertExecution
    <2>2. exec' = exec \/ (exec[p].st = "none" /\ SetExec(p, "pending"))
      BY <1>4 DEF InsertExecution, SetExec
    <2>3. "pending" \in {"none", "processing"} \cup DueStatus \cup DoneStatus
      BY DEF DueStatus
    <2>4. ExecBooked
      BY <2>1, <2>2, <2>3, BookStatus, Unbooked
    <2> QED
      BY <1>0, <1>4, <2>4, CallEnds, Unbooked DEF InsertExecution, Entered
  <1>5. CASE HandlerStops(c)
    BY <1>0, <1>5, CallEnds, Unbooked DEF HandlerStops, Entered, books
  <1> QED
    BY <1>1, <1>2, <1>3, <1>4, <1>5 DEF ConfirmStep

LEMMA AroundEntered ==
  ASSUME IndInv, \/ \E p \in Payments : CreateIntent(p) \/ QuoteExpires(p)
                 \/ \E t \in Txs : ChainMoves(t)
  PROVE  Entered
  <1> USE DEF Entered, entry, books
  <1>0. /\ fundTx \in [Payments -> Txs \cup {None}] /\ funding \in [Txs -> Payments \cup {None}]
        /\ expired \subseteq Payments /\ chain \in [Txs -> {"pending", "final", "bad"}]
        /\ call \in [Calls -> Call] /\ CallsHoldTheirPair
    BY DEF IndInv, TypeOK
  <1>1. ASSUME NEW p \in Payments, CreateIntent(p) PROVE Entered
    <2>1. IntentBooked
      BY <1>1, IntentSet DEF CreateIntent, IntentStatus
    <2> QED
      BY <1>0, <1>1, <2>1, Unbooked DEF CreateIntent, CallsHoldTheirPair
  <1>2. ASSUME NEW p \in Payments, QuoteExpires(p) PROVE Entered
    BY <1>0, <1>2, Unbooked DEF QuoteExpires, CallsHoldTheirPair
  <1>3. ASSUME NEW t \in Txs, ChainMoves(t) PROVE Entered
    BY <1>0, <1>3, Unbooked DEF ChainMoves, CallsHoldTheirPair
  <1> QED
    BY <1>1, <1>2, <1>3

-----------------------------------------------------------------------------
(* The execution worker.                                                   *)
LEMMA CloseTransacts ==
  ASSUME IndInv, NEW w \in Workers, NEW p \in Payments, CloseUnclaimed(w, p)
  PROVE  Transacts
  <1>1. exec[p].st # "completed"
    BY DEF CloseUnclaimed, DueStatus, Waiting
  <1>2. \/ SetExec(p, "failed") /\ UNCHANGED intent
        \/ SetExec(p, "manual_review") /\ SetIntent(p, "manual_review", {"completed"})
    BY DEF CloseUnclaimed
  <1>3. {"failed", "manual_review"} \subseteq {"none", "processing"} \cup DueStatus \cup DoneStatus
    BY DEF DoneStatus
  <1>4. ExecBooked
    BY <1>1, <1>2, <1>3, BookStatus
  <1>5. IntentBooked
    BY <1>2, BookIntent, Unbooked DEF IntentStatus
  <1>6. RefundBooked /\ UNCHANGED <<entry, world, again, seen>>
    BY Unbooked DEF CloseUnclaimed
  <1> QED
    BY <1>4, <1>5, <1>6 DEF Transacts, IndInv, TypeOK

LEMMA ApplyTransacts ==
  ASSUME IndInv, NEW w \in Workers, ProviderApply(w)
  PROVE  Transacts
  <1> DEFINE p == task[w].p
             k == task[w]
  <1>1. /\ k \in Task /\ p \in Payments
        /\ k.ans = "completed" => efi[p] = "paid"
    BY DEF ProviderApply, IndInv, TypeOK, AnswersAreTrue
  <1>2. UNCHANGED <<entry, world, again, seen>>
    BY DEF ProviderApply
  <1>4. ApplyAnswer(p, k)
    BY DEF ProviderApply
  <1> HIDE DEF k, p
  <1>5. ExecBooked /\ IntentBooked /\ RefundBooked
    <2>1. CASE k.ans = "completed" /\ CompleteExecution(p) /\ UNCHANGED refund
      BY <1>1, <1>2, <2>1, CompleteBooks, Unbooked
    <2>2. CASE FailExecutionForRefund(p, k)
      BY <1>1, <2>2, FailBooks
    <2>3. CASE /\ UNCHANGED refund
               /\ \E aged \in BOOLEAN : MarkReconcileNotFound(p, k, aged)
      BY <1>1, <1>2, <2>3, NotFoundBooks, Unbooked
    <2>4. CASE MarkManualReview(p) /\ UNCHANGED refund
      BY <1>1, <1>2, <2>4, ReviewBooks, Unbooked
    <2>5. CASE /\ \E st \in Waiting : MarkProviderWaiting(p, k, st)
               /\ UNCHANGED refund
      BY <1>1, <1>2, <2>5, WaitingBooks, Unbooked
    <2>6. CASE RetryExecution(p) /\ UNCHANGED refund
      BY <1>1, <1>2, <2>6, RetryBooks, Unbooked
    <2> QED
      BY <1>4, <2>1, <2>2, <2>3, <2>4, <2>5, <2>6 DEF ApplyAnswer, Waiting
  <1> QED
    BY <1>2, <1>5 DEF Transacts, IndInv, TypeOK

LEMMA ClaimTyped ==
  ASSUME IndInv, NEW p \in Payments, exec[p].st \in DueStatus, exec[p].att < MaxAttempts
  PROVE  /\ [at |-> "call", p |-> p, act |-> ActionFor(exec[p].st), before |-> exec[p].st,
             att |-> exec[p].att + 1, sender |-> HasSender(p), nf |-> exec[p].nf,
             ns |-> exec[p].ns, ans |-> "none"] \in Task
         /\ [exec[p] EXCEPT !.st = "processing", !.att = @ + 1] \in Exec
         /\ [exec[p] EXCEPT !.st = "processing", !.att = @ + 1].st = "processing"
  <1>1. exec[p] \in Exec
    BY DEF IndInv, TypeOK
  <1>2. exec[p].att + 1 \in 0..MaxAttempts
    BY <1>1, MobilePayAssumption DEF Exec
  <1>3. ActionFor(exec[p].st) \in {"execute", "reconcile"} /\ HasSender(p) \in BOOLEAN
    BY DEF ActionFor, HasSender
  <1> QED
    BY <1>1, <1>2, <1>3 DEF Exec, Task, Answers

LEMMA RunsIndInv ==
  ASSUME IndInv, NEW w \in Workers, Runs(w)
  PROVE  IndInv' /\ Kept
  <1>0. task \in [Workers -> Task] /\ rtask \in [RefundWorkers -> RTask] /\ Idle \in Task
    BY MobilePayAssumption DEF IndInv, TypeOK, Idle, Task, Answers
  <1>1. ASSUME NEW p \in Payments, CloseUnclaimed(w, p) PROVE IndInv' /\ Kept
    <2>1. Transacts
      BY <1>1, CloseTransacts
    <2> QED
      BY <1>0, <1>1, <2>1, TransactsIndInv, TransactsKept DEF CloseUnclaimed
  <1>2. ASSUME NEW p \in Payments, ClaimNext(w, p) PROVE IndInv' /\ Kept
    <2> DEFINE r == [exec[p] EXCEPT !.st = "processing", !.att = @ + 1]
               k == [at |-> "call", p |-> p, act |-> ActionFor(exec[p].st),
                     before |-> exec[p].st, att |-> exec[p].att + 1, sender |-> HasSender(p),
                     nf |-> exec[p].nf, ns |-> exec[p].ns, ans |-> "none"]
    <2>1. exec[p].st \in DueStatus /\ exec[p].att < MaxAttempts
      BY <1>2 DEF ClaimNext
    <2>2. r \in Exec /\ r.st = "processing" /\ k \in Task /\ k.at = "call" /\ k.p = p
      BY <2>1, ClaimTyped
    <2>3. /\ exec' = [exec EXCEPT ![p] = r] /\ task' = [task EXCEPT ![w] = k]
          /\ intent' = [intent EXCEPT ![p] = "processing"]
          /\ UNCHANGED <<refund, entry, seen, rtask, world, again>>
      BY <1>2 DEF ClaimNext
    <2> HIDE DEF r, k
    <2>4. ExecBooked
      BY <2>1, <2>2, <2>3, BookExec DEF DueStatus, Waiting
    <2>5. IntentBooked
      BY <2>3, IntentSet DEF IntentStatus
    <2>6. Transacts
      BY <2>3, <2>4, <2>5, Unbooked DEF Transacts, IndInv, TypeOK
    <2> QED
      BY <1>0, <2>2, <2>3, <2>6, TransactsIndInv, TransactsKept
  <1>3. CASE ProviderApply(w)
    <2>1. Transacts
      BY <1>3, ApplyTransacts
    <2>2. UNCHANGED rtask /\ task' = [task EXCEPT ![w] = Idle]
      BY <1>3 DEF ProviderApply
    <2> QED
      BY <1>0, <2>1, <2>2, TransactsIndInv, TransactsKept
  <1>4. CASE ProviderCall(w)
    <2> DEFINE p == task[w].p
    <2>1. p \in Payments /\ task[w] \in Task
      BY <1>4 DEF ProviderCall, IndInv, TypeOK, AnswersAreTrue
    <2>2. PICK o \in Outcomes(p, task[w].act) :
            /\ efi' = [efi EXCEPT ![p] = o[1]]
            /\ UNCHANGED wire \/ wire' = wire \cup {p}
            /\ task' = [task EXCEPT ![w].at = "apply", ![w].ans = o[2]]
      BY <1>4 DEF ProviderCall
    <2>3. UNCHANGED <<books, entry, seen, rtask, signer>>
      BY <1>4 DEF ProviderCall
    <2>11. again' \subseteq Payments
      BY <1>4, <2>1 DEF ProviderCall, IndInv, TypeOK
    <2>4. efi[p] \in EfiStates
      BY <2>1 DEF IndInv, TypeOK, EfiStates
    <2>5. /\ o[1] \in EfiStates /\ o[2] \in Answers
          /\ efi[p] = "none" \/ o[1] = efi[p]
          /\ o[2] = "completed" => o[1] = "paid"
      BY <2>1, <2>4, OutcomesAreTrue
    <2> DEFINE a == o[2]
               e == o[1]
               k == [task[w] EXCEPT !.at = "apply", !.ans = a]
    <2>6. k \in Task /\ k.at = "apply" /\ k.ans = a /\ k.p = p /\ k.act = task[w].act
      BY <2>1, <2>5 DEF Task
    <2>7. /\ efi' = [efi EXCEPT ![p] = e] /\ task' = [task EXCEPT ![w] = k]
          /\ UNCHANGED wire \/ wire' = wire \cup {p}
      BY <2>2
    <2>8. e \in EfiStates /\ (efi[p] = "none" \/ e = efi[p]) /\ (a = "completed" => e = "paid")
      BY <2>5
    <2> HIDE DEF k, a, e
    <2>9. TypeOK'
      BY <2>1, <2>3, <2>6, <2>7, <2>8, <2>11 DEF IndInv, TypeOK, books, entry, EfiStates
    <2>10. \A q \in Payments : efi[q] = "paid" => efi'[q] = "paid"
      BY <2>7, <2>8 DEF IndInv, TypeOK
    <2>12. AnswersAreTrue'
      <3> SUFFICES ASSUME NEW x \in Workers
                   PROVE  /\ task'[x].at # "idle" => task'[x].p \in Payments
                          /\ task'[x].at = "apply" /\ task'[x].ans = "completed" =>
                               efi'[task'[x].p] = "paid"
        BY DEF AnswersAreTrue
      <3>1. CASE x = w
        <4>1. task'[x] = k
          BY <1>0, <2>7, <3>1
        <4>2. k.ans = "completed" => efi'[p] = "paid"
          BY <2>1, <2>6, <2>7, <2>8 DEF IndInv, TypeOK
        <4> QED
          BY <2>1, <2>6, <4>1, <4>2
      <3>2. CASE x # w
        <4>1. task'[x] = task[x]
          BY <1>0, <2>7, <3>2
        <4>2. /\ task[x].at # "idle" => task[x].p \in Payments
              /\ task[x].at = "apply" /\ task[x].ans = "completed" =>
                   efi[task[x].p] = "paid"
          BY DEF IndInv, AnswersAreTrue
        <4> QED
          BY <2>10, <4>1, <4>2
      <3> QED
        BY <3>1, <3>2
    <2>13. RefundsAreTrue' /\ CallsHoldTheirPair' /\ SentRefundsHaveRows'
      BY <2>3 DEF IndInv, RefundsAreTrue, CallsHoldTheirPair, SentRefundsHaveRows, books, entry
    <2>14. BooksMatchTheMoney' /\ Kept
      BY <2>3, <2>10 DEF IndInv, BooksMatchTheMoney, Kept, books
    <2> QED
      BY <2>9, <2>12, <2>13, <2>14 DEF IndInv
  <1> QED
    BY <1>1, <1>2, <1>3, <1>4 DEF Runs

-----------------------------------------------------------------------------
(* A worker that stops forgets its answer; a stale row is unlocked.        *)
LEMMA StopsIndInv ==
  ASSUME IndInv, \/ \E w \in Workers : WorkerStops(w)
                 \/ \E v \in RefundWorkers : RefundWorkerStops(v)
                 \/ \E p \in Payments : Recovers(p)
  PROVE  IndInv' /\ Kept
  <1>0. /\ task \in [Workers -> Task] /\ rtask \in [RefundWorkers -> RTask]
        /\ Idle \in Task /\ RIdle \in RTask /\ seen \in [Payments -> SUBSET Events]
    BY MobilePayAssumption DEF IndInv, TypeOK, Idle, Task, Answers, RIdle, RTask
  <1>1. ASSUME NEW w \in Workers, WorkerStops(w) PROVE IndInv' /\ Kept
    <2>1. Transacts
      BY <1>0, <1>1, Unbooked DEF WorkerStops, Transacts, books
    <2> QED
      BY <1>0, <1>1, <2>1, TransactsIndInv, TransactsKept DEF WorkerStops
  <1>2. ASSUME NEW v \in RefundWorkers, RefundWorkerStops(v) PROVE IndInv' /\ Kept
    <2>1. Transacts
      BY <1>0, <1>2, Unbooked DEF RefundWorkerStops, Transacts, books
    <2> QED
      BY <1>0, <1>2, <2>1, TransactsIndInv, TransactsKept DEF RefundWorkerStops
  <1>3. ASSUME NEW p \in Payments, RecoverStaleProcessing(p) PROVE IndInv' /\ Kept
    <2>1. ExecBooked
      <3>1. "provider_unknown" \in {"none", "processing"} \cup DueStatus \cup DoneStatus
        BY DEF DueStatus, Waiting
      <3>2. "provider_unknown" # "completed" /\ exec[p].st # "completed"
        BY <1>3 DEF RecoverStaleProcessing
      <3>3. SetExec(p, "provider_unknown")
        BY <1>3 DEF RecoverStaleProcessing
      <3> QED
        BY <3>1, <3>2, <3>3, BookStatus
    <2>2. Transacts
      BY <1>0, <1>3, <2>1, Unbooked DEF RecoverStaleProcessing, Transacts
    <2> QED
      BY <1>0, <1>3, <2>2, TransactsIndInv, TransactsKept DEF RecoverStaleProcessing
  <1>4. ASSUME NEW p \in Payments, RecoverStaleRefunds(p) PROVE IndInv' /\ Kept
    <2> DEFINE r == [refund[p] EXCEPT !.st = "provider_unknown"]
    <2>1. r \in Refund /\ r.st = "provider_unknown"
      BY DEF IndInv, TypeOK, Refund, RefundDue
    <2>2. refund[p].st = "processing" /\ refund' = [refund EXCEPT ![p] = r]
      BY <1>4 DEF RecoverStaleRefunds, SetRefund
    <2> HIDE DEF r
    <2>5. RefundBooked
      BY <2>1, <2>2, BookRefund
    <2>6. Transacts
      BY <1>0, <1>4, <2>5, Unbooked DEF RecoverStaleRefunds, Transacts
    <2> QED
      BY <1>0, <1>4, <2>6, TransactsIndInv, TransactsKept DEF RecoverStaleRefunds
  <1> QED
    BY <1>1, <1>2, <1>3, <1>4 DEF Recovers

-----------------------------------------------------------------------------
(* Efi's webhooks, which race with the workers.                            *)
LEMMA WebhookCompletedBooks ==
  ASSUME IndInv, NEW p \in Payments, efi[p] = "paid", WebhookCompleted(p)
  PROVE  ExecBooked /\ IntentBooked /\ RefundBooked
  <1>1. CASE refund[p].tx \/ refund[p].st \in {"confirming", "completed"}
    <2>1. FinancialIncident(p) /\ refund[p].st # "none"
      BY <1>1 DEF WebhookCompleted, IndInv, SentRefundsHaveRows
    <2> QED
      BY <2>1, IncidentBooks
  <1>2. CASE ~(refund[p].tx \/ refund[p].st \in {"confirming", "completed"})
    <2> DEFINE r == [refund[p] EXCEPT !.st = "cancelled"]
    <2>1. r \in Refund /\ r.st = "cancelled"
      BY DEF IndInv, TypeOK, Refund, RefundDone
    <2>2. \/ refund' = refund
          \/ /\ refund[p].st \in {"pending", "retry_wait", "provider_unknown", "manual_review"}
             /\ refund' = [refund EXCEPT ![p] = r]
      BY <1>2 DEF WebhookCompleted
    <2>3. CompleteExecution(p)
      BY <1>2 DEF WebhookCompleted
    <2> HIDE DEF r
    <2>5. RefundBooked
      BY <2>1, <2>2, BookRefund, Unbooked
    <2> QED
      BY <2>3, <2>5, CompleteBooks
  <1> QED
    BY <1>1, <1>2

LEMMA WebhookPendingBooks ==
  ASSUME IndInv, NEW p \in Payments, ~Settled(p), WebhookPending(p)
  PROVE  ExecBooked /\ IntentBooked
  <1> DEFINE r == [exec[p] EXCEPT !.st = "provider_pending", !.ns = FALSE]
  <1>1. exec[p] \in Exec
    BY DEF IndInv, TypeOK
  <1>2. "provider_pending" \in {"none", "processing"} \cup DueStatus \cup DoneStatus
    BY DEF DueStatus, Waiting
  <1>3. r \in Exec
    BY <1>1, <1>2, ExecTyped, NotFoundTyped
  <1>4. r.st = "provider_pending" /\ exec[p].st # "completed"
    BY <1>1 DEF Exec, Settled
  <1>5. exec' = exec \/ exec' = [exec EXCEPT ![p] = r]
    BY DEF WebhookPending
  <1>6. SetIntent(p, "provider_pending", {"refund_pending", "refunded"})
    BY DEF WebhookPending
  <1> HIDE DEF r
  <1>7. ExecBooked
    BY <1>3, <1>4, <1>5, BookExec, Unbooked
  <1> QED
    BY <1>6, <1>7, BookIntent DEF IntentStatus

LEMMA WebhookIndInv ==
  ASSUME IndInv, NEW p \in Payments, NEW s \in Events,
         WebhookUnmatched(p, s) \/ ApplyEfiMobileWebhook(p, s)
  PROVE  IndInv' /\ Kept
  <1>0. /\ task \in [Workers -> Task] /\ rtask \in [RefundWorkers -> RTask]
        /\ seen \in [Payments -> SUBSET Events]
    BY DEF IndInv, TypeOK
  <1>1. CASE WebhookUnmatched(p, s)
    <2>1. Transacts
      BY <1>0, <1>1, Unbooked DEF WebhookUnmatched, Transacts, books
    <2> QED
      BY <1>0, <1>1, <2>1, TransactsIndInv, TransactsKept DEF WebhookUnmatched
  <1>2. CASE ApplyEfiMobileWebhook(p, s)
    <2>2. s = "completed" => efi[p] = "paid"
      BY <1>2 DEF ApplyEfiMobileWebhook, Existing
    <2>3. ExecBooked /\ IntentBooked /\ RefundBooked
      <3>1. CASE UNCHANGED books
        BY <3>1, Unbooked DEF books
      <3>2. CASE s = "completed" /\ WebhookCompleted(p)
        BY <2>2, <3>2, WebhookCompletedBooks
      <3>3. CASE s = "failed" /\ WebhookFailed(p)
        BY <3>3, FailBooks DEF WebhookFailed
      <3>4. CASE s = "pending" /\ ~Settled(p) /\ WebhookPending(p)
        <4>1. UNCHANGED refund
          BY <3>4 DEF WebhookPending
        <4> QED
          BY <3>4, <4>1, WebhookPendingBooks, Unbooked
      <3> QED
        BY <1>2, <3>1, <3>2, <3>3, <3>4 DEF ApplyEfiMobileWebhook, Events
    <2>4. seen' \in [Payments -> SUBSET Events]
      BY <1>0, <1>2 DEF ApplyEfiMobileWebhook
    <2>5. UNCHANGED <<entry, task, rtask, world, again>>
      BY <1>2 DEF ApplyEfiMobileWebhook
    <2>6. Transacts
      BY <2>3, <2>4, <2>5 DEF Transacts
    <2> QED
      BY <1>0, <2>5, <2>6, TransactsIndInv, TransactsKept
  <1> QED
    BY <1>1, <1>2

-----------------------------------------------------------------------------
(* The refund worker and the signer.                                       *)
SignerStates == {"none", "failed", "sent", "mined", "reverted"}
RefundAnswers == {"none", "tx", "txconfirmed", "ambiguous", "transient", "definitive",
                  "pending", "confirmed", "reverted", "error"}

(* A mined refund stays mined, and is confirmed only when it is.           *)
LEMMA RefundOutcomesAreTrue ==
  ASSUME NEW s \in SignerStates, NEW act \in {"broadcast", "reconcile", "confirm"},
         NEW o \in RefundOutcomes(act, s)
  PROVE  /\ o[1] \in SignerStates /\ o[2] \in RefundAnswers
         /\ s = "mined" => o[1] = "mined"
         /\ o[2] = "confirmed" => o[1] = "mined"
         /\ act = "confirm" => o[2] \in {"error", "pending", "confirmed", "reverted"}
  <1>1. CASE act = "broadcast" /\ o \in BroadcastOutcomes(s)
    BY <1>1 DEF BroadcastOutcomes, Broadcast, SignerStates, RefundAnswers, Errors
  <1>2. CASE act = "reconcile" /\ o \in LookupOutcomes(s)
    BY <1>2 DEF LookupOutcomes, SignerStates, RefundAnswers, Errors
  <1>3. CASE o \in ReceiptOutcomes(s)
    <2> DEFINE a == CASE s = "mined" -> "confirmed" [] s = "reverted" -> "reverted"
                      [] OTHER -> "pending"
    <2>1. /\ a \in RefundAnswers /\ (a = "confirmed" => s = "mined")
          /\ a \in {"pending", "confirmed", "reverted"}
      BY DEF RefundAnswers
    <2>2. o = <<s, "error">> \/ o = <<s, a>>
      BY <1>3 DEF ReceiptOutcomes
    <2> HIDE DEF a
    <2>3. "error" \in RefundAnswers
      BY DEF RefundAnswers
    <2> QED
      BY <2>1, <2>2, <2>3
  <1> QED
    BY <1>1, <1>2, <1>3 DEF RefundOutcomes

(* A refund row that gets another status.                                  *)
LEMMA RefundStatusBooks ==
  ASSUME IndInv, NEW p \in Payments, NEW st \in ({"processing"} \cup RefundDue \cup RefundDone) \ {"completed"},
         NEW tx \in BOOLEAN, refund[p].st # "completed",
         \/ refund' = [refund EXCEPT ![p] = [refund[p] EXCEPT !.st = st]]
         \/ refund' = [refund EXCEPT ![p] = [refund[p] EXCEPT !.st = st, !.tx = tx]]
  PROVE  RefundBooked
  <1> DEFINE q == [refund[p] EXCEPT !.st = st]
             r == [refund[p] EXCEPT !.st = st, !.tx = tx]
  <1>0. p \in Payments /\ refund[p] \in Refund
    BY DEF IndInv, TypeOK
  <1>1. q \in Refund /\ r \in Refund
    BY <1>0, RefundTyped
  <1>2. q.st = st /\ r.st = st /\ st # "none"
    BY <1>0 DEF Refund, RefundDue, RefundDone
  <1>3. refund' = [refund EXCEPT ![p] = q] \/ refund' = [refund EXCEPT ![p] = r]
    OBVIOUS
  <1> HIDE DEF q, r
  <1> QED
    BY <1>0, <1>1, <1>2, <1>3, BookRefund

LEMMA CloseRefundTransacts ==
  ASSUME IndInv, NEW v \in RefundWorkers, NEW p \in Payments, CloseRefund(v, p)
  PROVE  Transacts
  <1>1. UNCHANGED <<entry, seen, task, rtask, world, again>> /\ refund[p].st \in RefundDue
    BY DEF CloseRefund
  <1>2. p \in Payments /\ refund[p].st # "completed" /\ refund[p].st # "none"
    BY <1>1 DEF IndInv, SentRefundsHaveRows, RefundDue
  <1>3. ExecBooked /\ IntentBooked /\ RefundBooked
    <2>1. CASE FinancialIncident(p)
      BY <1>1, <1>2, <2>1, IncidentBooks
    <2>2. CASE /\ UNCHANGED <<intent, exec>>
               /\ SetRefund(p, "cancelled") \/ SetRefund(p, "manual_review")
      <3>1. {"cancelled", "manual_review"} \subseteq
              ({"processing"} \cup RefundDue \cup RefundDone) \ {"completed"}
        BY DEF RefundDone
      <3>2. RefundBooked
        BY <1>1, <1>2, <2>2, <3>1, RefundStatusBooks DEF SetRefund
      <3> QED
        BY <2>2, <3>2, Unbooked
    <2> QED
      BY <2>1, <2>2 DEF CloseRefund
  <1> QED
    BY <1>1, <1>3 DEF Transacts, IndInv, TypeOK

LEMMA ProcessingBooks ==
  ASSUME IndInv, NEW p \in Payments, NEW st \in {"provider_unknown", "retry_wait"},
         IfProcessing(p, Marked(p, st))
  PROVE  RefundBooked
  <1>1. st \in ({"processing"} \cup RefundDue \cup RefundDone) \ {"completed"}
    BY DEF RefundDue
  <1>2. CASE refund[p].st = "processing"
    BY <1>1, <1>2, RefundStatusBooks DEF IfProcessing, Marked
  <1>3. CASE refund[p].st # "processing"
    BY <1>3, Unbooked DEF IfProcessing
  <1> QED
    BY <1>2, <1>3

LEMMA BroadcastBooks ==
  ASSUME IndInv, NEW p \in Payments, MarkRefundBroadcast(p)
  PROVE  RefundBooked
  <1>1. "confirming" \in ({"processing"} \cup RefundDue \cup RefundDone) \ {"completed"}
    BY DEF RefundDue
  <1>2. CASE refund[p].st = "processing"
    <2>1. refund' = [refund EXCEPT ![p] = [refund[p] EXCEPT !.st = "confirming", !.tx = TRUE]]
      BY <1>2 DEF MarkRefundBroadcast, IfProcessing, Marked
    <2> QED
      BY <1>1, <1>2, <2>1, RefundStatusBooks
  <1>3. CASE refund[p].st # "processing"
    BY <1>3, Unbooked DEF MarkRefundBroadcast, IfProcessing
  <1> QED
    BY <1>2, <1>3

LEMMA RefundReviewBooks ==
  ASSUME IndInv, NEW p \in Payments, MarkRefundManualReview(p)
  PROVE  RefundBooked
  <1>1. "manual_review" \in ({"processing"} \cup RefundDue \cup RefundDone) \ {"completed"}
    BY DEF RefundDone
  <1>2. CASE refund[p].st = "completed"
    BY <1>2, Unbooked DEF MarkRefundManualReview
  <1>3. CASE refund[p].st # "completed"
    <2>1. refund' = [refund EXCEPT ![p] = [refund[p] EXCEPT !.st = "manual_review"]]
      BY <1>3 DEF MarkRefundManualReview, SetRefund
    <2> QED
      BY <1>1, <1>3, <2>1, RefundStatusBooks
  <1> QED
    BY <1>2, <1>3

LEMMA CompleteRefundBooks ==
  ASSUME IndInv, NEW p \in Payments, signer[p] = "mined", CompleteRefund(p)
  PROVE  IntentBooked /\ RefundBooked
  <1> DEFINE r == [refund[p] EXCEPT !.st = "completed", !.tx = TRUE]
  <1>1. r \in Refund /\ r.st = "completed" /\ p \in Payments
    <2>1. refund[p] \in Refund /\ p \in Payments
      BY DEF IndInv, TypeOK
    <2>2. r \in Refund
      BY <2>1, RefundTyped DEF RefundDone
    <2>3. r.st = "completed"
      BY <2>1 DEF Refund
    <2> QED
      BY <2>1, <2>2, <2>3
  <1>2. refund' = [refund EXCEPT ![p] = r] /\ SetIntent(p, "refunded", {"completed", "refunded"})
    BY DEF CompleteRefund
  <1> HIDE DEF r
  <1> QED
    BY <1>1, <1>2, BookRefund, BookIntent DEF IntentStatus

(* The ways in which an answer is booked.                                  *)
LEMMA RefundAnswerCases ==
  ASSUME NEW p, NEW k \in RTask, ApplyRefundAnswer(p, k),
         k.act = "confirm" => k.ans \in {"error", "pending", "confirmed", "reverted"}
  PROVE  \/ k.ans = "confirmed" /\ CompleteRefund(p)
         \/ /\ UNCHANGED intent
            /\ \/ MarkRefundBroadcast(p) \/ MarkRefundManualReview(p)
               \/ \E st \in {"provider_unknown", "retry_wait"} : IfProcessing(p, Marked(p, st))
  <1>1. k.act \in {"broadcast", "reconcile", "confirm"} /\ k.ans \in RefundAnswers
    BY DEF RTask, RefundAnswers
  <1>2. CASE k.ans = "confirmed"
    BY <1>2 DEF ApplyRefundAnswer
  <1>3. CASE k.ans \in {"tx", "txconfirmed", "pending"}
    BY <1>3 DEF ApplyRefundAnswer
  <1>4. CASE k.ans = "reverted"
    BY <1>4 DEF ApplyRefundAnswer
  <1>5. CASE k.ans = "error"
    BY <1>5 DEF ApplyRefundAnswer
  <1>6. CASE k.act = "broadcast" /\ k.ans \in {"none", "ambiguous", "transient", "definitive"}
    BY <1>6 DEF ApplyRefundAnswer
  <1>7. CASE k.act = "reconcile" /\ k.ans \in {"none", "ambiguous", "transient", "definitive"}
    BY <1>7 DEF ApplyRefundAnswer
  <1> QED
    BY <1>1, <1>2, <1>3, <1>4, <1>5, <1>6, <1>7 DEF RefundAnswers

LEMMA RefundApplyTransacts ==
  ASSUME IndInv, NEW v \in RefundWorkers, RefundApply(v)
  PROVE  Transacts
  <1> DEFINE p == rtask[v].p
             k == rtask[v]
  <1>1. /\ p \in Payments
        /\ k.ans = "confirmed" => signer[p] = "mined"
        /\ k.act = "confirm" => k.ans \in {"error", "pending", "confirmed", "reverted"}
    BY DEF RefundApply, IndInv, RefundsAreTrue
  <1>2. UNCHANGED <<exec, entry, seen, task, world, again>> /\ ApplyRefundAnswer(p, k)
    BY DEF RefundApply
  <1>3. \/ k.ans = "confirmed" /\ CompleteRefund(p)
        \/ /\ UNCHANGED intent
           /\ \/ MarkRefundBroadcast(p) \/ MarkRefundManualReview(p)
              \/ \E st \in {"provider_unknown", "retry_wait"} : IfProcessing(p, Marked(p, st))
    BY <1>1, <1>2, RefundAnswerCases DEF IndInv, TypeOK
  <1> HIDE DEF k, p
  <1>4. IntentBooked /\ RefundBooked
    BY <1>1, <1>2, <1>3, CompleteRefundBooks, BroadcastBooks, RefundReviewBooks, ProcessingBooks,
       Unbooked
  <1> QED
    BY <1>2, <1>4, Unbooked DEF Transacts, IndInv, TypeOK

LEMMA RefundsIndInv ==
  ASSUME IndInv, NEW v \in RefundWorkers, Refunds(v)
  PROVE  IndInv' /\ Kept
  <1>0. /\ task \in [Workers -> Task] /\ rtask \in [RefundWorkers -> RTask]
        /\ seen \in [Payments -> SUBSET Events] /\ RIdle \in RTask
    BY MobilePayAssumption DEF IndInv, TypeOK, RIdle, RTask
  <1>1. ASSUME NEW p \in Payments, CloseRefund(v, p) PROVE IndInv' /\ Kept
    <2>1. Transacts
      BY <1>1, CloseRefundTransacts
    <2> QED
      BY <1>0, <1>1, <2>1, TransactsIndInv, TransactsKept DEF CloseRefund
  <1>2. ASSUME NEW p \in Payments, ClaimNextRefund(v, p) PROVE IndInv' /\ Kept
    <2> DEFINE r == [refund[p] EXCEPT !.st = "processing", !.att = @ + 1]
               k == [at |-> "call", p |-> p, act |-> RefundAction(refund[p]),
                     att |-> refund[p].att + 1, ans |-> "none"]
    <2>1. /\ refund' = [refund EXCEPT ![p] = r] /\ rtask' = [rtask EXCEPT ![v] = k]
          /\ UNCHANGED <<intent, exec, entry, seen, task, world, again>>
      BY <1>2 DEF ClaimNextRefund
    <2>2. refund[p].st \in RefundDue /\ refund[p].att < MaxRefundAttempts /\ refund[p] \in Refund
      BY <1>2 DEF ClaimNextRefund, IndInv, TypeOK
    <2>3. refund[p].att + 1 \in 0..MaxRefundAttempts
      BY <2>2, MobilePayAssumption DEF Refund
    <2>4. r \in Refund /\ r.st = "processing"
      BY <2>2, <2>3 DEF Refund
    <2>5. RefundAction(refund[p]) \in {"broadcast", "reconcile", "confirm"}
      BY <2>2 DEF RefundAction, Refund
    <2>6. k \in RTask /\ k.at = "call" /\ k.p = p
      BY <2>3, <2>5 DEF RTask
    <2>7. p \in Payments /\ refund[p].st # "completed"
      BY <2>2 DEF IndInv, SentRefundsHaveRows, RefundDue
    <2> HIDE DEF r, k
    <2>8. RefundBooked
      BY <2>1, <2>4, <2>7, BookRefund
    <2>9. Transacts
      BY <1>0, <2>1, <2>8, Unbooked DEF Transacts
    <2> QED
      BY <1>0, <2>1, <2>6, <2>7, <2>9, TransactsIndInv, TransactsKept
  <1>3. CASE RefundApply(v)
    <2> DEFINE k == [rtask[v] EXCEPT !.at = "call", !.act = "confirm", !.ans = "none"]
    <2>1. Transacts
      BY <1>3, RefundApplyTransacts
    <2>2. UNCHANGED task /\ (rtask' = [rtask EXCEPT ![v] = RIdle] \/ rtask' = [rtask EXCEPT ![v] = k])
      BY <1>3 DEF RefundApply
    <2>3. k \in RTask /\ k.at = "call" /\ k.p = rtask[v].p
      BY <1>0 DEF RTask
    <2>4. rtask[v].p \in Payments
      BY <1>3 DEF RefundApply, IndInv, RefundsAreTrue
    <2> HIDE DEF k
    <2> QED
      BY <1>0, <2>1, <2>2, <2>3, <2>4, TransactsIndInv, TransactsKept
  <1>4. CASE SignerCall(v)
    <2> DEFINE p == rtask[v].p
    <2>1. p \in Payments /\ rtask[v] \in RTask
      BY <1>0, <1>4 DEF SignerCall, IndInv, RefundsAreTrue
    <2>2. PICK o \in RefundOutcomes(rtask[v].act, signer[p]) :
            /\ signer' = [signer EXCEPT ![p] = o[1]]
            /\ rtask' = [rtask EXCEPT ![v].at = "apply", ![v].ans = o[2]]
      BY <1>4 DEF SignerCall
    <2>3. UNCHANGED <<books, entry, seen, task, efi, wire, again>>
      BY <1>4 DEF SignerCall
    <2>4. signer[p] \in SignerStates /\ rtask[v].act \in {"broadcast", "reconcile", "confirm"}
      BY <2>1 DEF IndInv, TypeOK, SignerStates, RTask
    <2> DEFINE a == o[2]
               s == o[1]
               k == [rtask[v] EXCEPT !.at = "apply", !.ans = a]
    <2>5. /\ s \in SignerStates /\ a \in RefundAnswers
          /\ signer[p] = "mined" => s = "mined"
          /\ a = "confirmed" => s = "mined"
          /\ rtask[v].act = "confirm" => a \in {"error", "pending", "confirmed", "reverted"}
      BY <2>4, RefundOutcomesAreTrue
    <2>6. k \in RTask /\ k.at = "apply" /\ k.ans = a /\ k.p = p /\ k.act = rtask[v].act
      BY <2>1, <2>5 DEF RTask, RefundAnswers
    <2>7. signer' = [signer EXCEPT ![p] = s] /\ rtask' = [rtask EXCEPT ![v] = k]
      BY <2>2
    <2> HIDE DEF k, a, s
    <2>8. TypeOK'
      BY <2>1, <2>3, <2>5, <2>6, <2>7 DEF IndInv, TypeOK, books, entry, SignerStates
    <2>9. \A q \in Payments : signer[q] = "mined" => signer'[q] = "mined"
      BY <2>5, <2>7 DEF IndInv, TypeOK
    <2>10. RefundsAreTrue'
      <3> SUFFICES ASSUME NEW x \in RefundWorkers
                   PROVE  /\ rtask'[x].at # "idle" => rtask'[x].p \in Payments
                          /\ rtask'[x].at = "apply" =>
                               /\ rtask'[x].ans = "confirmed" => signer'[rtask'[x].p] = "mined"
                               /\ rtask'[x].act = "confirm" =>
                                    rtask'[x].ans \in {"error", "pending", "confirmed", "reverted"}
        BY <2>3 DEF RefundsAreTrue
      <3>1. CASE x = v
        <4>1. rtask'[x] = k
          BY <1>0, <2>7, <3>1
        <4>2. signer'[p] = s
          BY <2>1, <2>7 DEF IndInv, TypeOK
        <4> QED
          BY <2>1, <2>5, <2>6, <4>1, <4>2
      <3>2. CASE x # v
        <4>1. rtask'[x] = rtask[x]
          BY <1>0, <2>7, <3>2
        <4>2. /\ rtask[x].at # "idle" => rtask[x].p \in Payments
              /\ rtask[x].at = "apply" =>
                   /\ rtask[x].ans = "confirmed" => signer[rtask[x].p] = "mined"
                   /\ rtask[x].act = "confirm" =>
                        rtask[x].ans \in {"error", "pending", "confirmed", "reverted"}
          BY DEF IndInv, RefundsAreTrue
        <4> QED
          BY <1>0, <2>9, <4>1, <4>2
      <3> QED
        BY <3>1, <3>2
    <2>11. AnswersAreTrue' /\ CallsHoldTheirPair' /\ SentRefundsHaveRows'
      BY <2>3 DEF IndInv, AnswersAreTrue, CallsHoldTheirPair, SentRefundsHaveRows, books, entry
    <2>12. BooksMatchTheMoney' /\ Kept
      BY <2>3, <2>9 DEF IndInv, BooksMatchTheMoney, Kept, books
    <2> QED
      BY <2>8, <2>10, <2>11, <2>12 DEF IndInv
  <1> QED
    BY <1>1, <1>2, <1>3, <1>4 DEF Refunds

-----------------------------------------------------------------------------
(* What Efi and the chain do by themselves.                                *)
LEMMA WorldIndInv ==
  ASSUME IndInv, NEW p \in Payments, World(p)
  PROVE  IndInv' /\ Kept
  <1>1. UNCHANGED <<books, entry, seen, task, rtask, again>>
    BY DEF World, WireArrives, EfiSettles, RefundMined
  <1>2. /\ efi' \in [Payments -> EfiStates] /\ wire' \subseteq Payments
        /\ \A q \in Payments : efi[q] = "paid" => efi'[q] = "paid"
    BY DEF World, WireArrives, EfiSettles, RefundMined, IndInv, TypeOK, EfiStates
  <1>3. /\ signer' \in [Payments -> SignerStates]
        /\ \A q \in Payments : /\ signer[q] = "mined" => signer'[q] = "mined"
                               /\ signer'[q] # "none" => signer[q] # "none"
    BY DEF World, WireArrives, EfiSettles, RefundMined, IndInv, TypeOK, SignerStates
  <1>4. TypeOK'
    BY <1>1, <1>2, <1>3 DEF IndInv, TypeOK, books, entry, EfiStates, SignerStates
  <1>5. AnswersAreTrue'
    BY <1>1, <1>2 DEF IndInv, AnswersAreTrue
  <1>6. RefundsAreTrue'
    <2>1. \A v \in RefundWorkers : rtask[v].at = "apply" => rtask[v].p \in Payments
      BY DEF IndInv, TypeOK, RefundsAreTrue
    <2> QED
      BY <1>1, <1>3, <2>1 DEF IndInv, RefundsAreTrue
  <1>7. CallsHoldTheirPair' /\ SentRefundsHaveRows'
    BY <1>1 DEF IndInv, CallsHoldTheirPair, SentRefundsHaveRows, books, entry
  <1>8. BooksMatchTheMoney' /\ Kept
    BY <1>1, <1>2, <1>3 DEF IndInv, BooksMatchTheMoney, Kept, books
  <1> QED
    BY <1>4, <1>5, <1>6, <1>7, <1>8 DEF IndInv

LEMMA StutterIndInv == IndInv /\ UNCHANGED vars => IndInv' /\ Kept
  BY DEF vars, IndInv, TypeOK, AnswersAreTrue, RefundsAreTrue, CallsHoldTheirPair,
     SentRefundsHaveRows, BooksMatchTheMoney, Kept

LEMMA NextIndInv == IndInv /\ [Next]_vars => IndInv' /\ Kept
  <1> SUFFICES ASSUME IndInv, [Next]_vars PROVE IndInv' /\ Kept
    OBVIOUS
  <1>1. ASSUME NEW p \in Payments, CreateIntent(p) \/ QuoteExpires(p) PROVE IndInv' /\ Kept
    BY <1>1, AroundEntered, EnteredIndInv
  <1>2. ASSUME NEW t \in Txs, ChainMoves(t) PROVE IndInv' /\ Kept
    BY <1>2, AroundEntered, EnteredIndInv
  <1>3. ASSUME NEW c \in Calls, ConfirmStep(c) PROVE IndInv' /\ Kept
    BY <1>3, ConfirmEntered, EnteredIndInv
  <1>4. ASSUME NEW p \in Payments, Recovers(p) PROVE IndInv' /\ Kept
    BY <1>4, StopsIndInv
  <1>5. ASSUME NEW p \in Payments, World(p) PROVE IndInv' /\ Kept
    BY <1>5, WorldIndInv
  <1>6. ASSUME NEW p \in Payments, NEW s \in Events,
               WebhookUnmatched(p, s) \/ ApplyEfiMobileWebhook(p, s)
        PROVE  IndInv' /\ Kept
    BY <1>6, WebhookIndInv
  <1>7. ASSUME NEW w \in Workers, Runs(w) \/ WorkerStops(w) PROVE IndInv' /\ Kept
    BY <1>7, RunsIndInv, StopsIndInv
  <1>8. ASSUME NEW v \in RefundWorkers, Refunds(v) \/ RefundWorkerStops(v)
        PROVE  IndInv' /\ Kept
    BY <1>8, RefundsIndInv, StopsIndInv
  <1> QED
    BY <1>1, <1>2, <1>3, <1>4, <1>5, <1>6, <1>7, <1>8, StutterIndInv DEF Next

-----------------------------------------------------------------------------
(* What a refund rests on.  While Efi has no PIX of a payment, only the    *)
(* worker whose claim its row shows can send it; an answer by which it may *)
(* be refunded is then still true when it is applied.                      *)
Holds(w, p) == task[w].at # "idle" /\ task[w].p = p

OneSender == \A p \in Payments : \A w \in Workers :
    efi[p] = "none" /\ Holds(w, p) =>
        exec[p].st = "processing" /\ \A x \in Workers : Holds(x, p) => x = w

Untaken(p) == efi[p] = "none" /\ p \notin wire

RefusalsAreTrue == \A w \in Workers : task[w].at = "apply" =>
    /\ task[w].ans = "failed" => efi[task[w].p] = "rejected"
    /\ task[w].ans = "definitive" /\ task[w].act = "execute" =>
         task[w].p \in again \/ Untaken(task[w].p)

Refused(p) == p \in again \/ efi[p] = "rejected" \/ (Untaken(p) /\ exec[p].st = "failed")

RefundsAreOwed ==
    /\ \A p \in Payments : refund[p].st # "none" \/ signer[p] # "none" => Refused(p)
    /\ \A v \in RefundWorkers : rtask[v].at # "idle" => Refused(rtask[v].p)

SentInv == OneSender /\ RefusalsAreTrue /\ RefundsAreOwed

LEMMA InitSentInv == Init => SentInv
  BY DEF Init, SentInv, OneSender, RefusalsAreTrue, RefundsAreOwed, Holds, Idle, RIdle, NoRefund

(* The steps of the refund worker, of the signer and of the user.          *)
LEMMA RefundSide ==
  ASSUME SentInv, UNCHANGED <<exec, task, efi, wire, again>>,
         \A p \in Payments : refund'[p].st # "none" \/ signer'[p] # "none" =>
                                 refund[p].st # "none" \/ signer[p] # "none" \/ Refused(p),
         \A v \in RefundWorkers : rtask'[v].at # "idle" => Refused(rtask'[v].p)
  PROVE  SentInv'
  <1>1. OneSender' /\ RefusalsAreTrue'
    BY DEF SentInv, OneSender, RefusalsAreTrue, Holds, Untaken
  <1>2. RefundsAreOwed'
    BY DEF SentInv, RefundsAreOwed, Refused, Untaken
  <1> QED
    BY <1>1, <1>2 DEF SentInv

(* The steps that write the row of one payment: either Efi has its PIX, or *)
(* no worker holds the row after the step and it was not closed before.    *)
LEMMA ExecSide ==
  ASSUME IndInv, SentInv, UNCHANGED <<rtask, efi, wire, signer, again>>, NEW p \in Payments,
         \A q \in Payments \ {p} : exec'[q] = exec[q] /\ refund'[q] = refund[q],
         refund'[p].st # "none" => refund[p].st # "none" \/ Refused(p)',
         \A w \in Workers : task'[w] = task[w] \/ task'[w].at = "idle",
         efi[p] = "none" => exec[p].st # "failed" /\ \A w \in Workers : ~Holds(w, p)'
  PROVE  SentInv'
  <1>1. \A q \in Payments : Refused(q) => Refused(q)'
    BY DEF Refused, Untaken
  <1>2. OneSender'
    BY DEF SentInv, OneSender, Holds
  <1>3. RefusalsAreTrue'
    BY DEF SentInv, RefusalsAreTrue, Untaken
  <1>4. \A v \in RefundWorkers : rtask[v].at # "idle" => rtask[v].p \in Payments
    BY DEF IndInv, RefundsAreTrue
  <1>5. \A q \in Payments : refund'[q].st # "none" \/ signer[q] # "none" => Refused(q)'
    BY <1>1 DEF SentInv, RefundsAreOwed
  <1>6. RefundsAreOwed'
    BY <1>1, <1>4, <1>5 DEF SentInv, RefundsAreOwed
  <1> QED
    BY <1>2, <1>3, <1>6 DEF SentInv

(* No worker holds a row that is not processing, while Efi has no PIX.     *)
LEMMA Unheld ==
  ASSUME SentInv, NEW p \in Payments, exec[p].st # "processing", efi[p] = "none",
         NEW w \in Workers
  PROVE  ~Holds(w, p)
  BY DEF SentInv, OneSender

LEMMA ConfirmSent ==
  ASSUME IndInv, SentInv, NEW c \in Calls, ConfirmStep(c)
  PROVE  SentInv'
  <1>1. CASE InsertExecution(c)
    <2>1. PICK p \in Payments : p = call[c].p
      BY <1>1 DEF InsertExecution, IndInv, CallsHoldTheirPair
    <2>2. UNCHANGED <<refund, task, rtask, efi, wire, signer, again>>
      BY <1>1 DEF InsertExecution, world
    <2>3. CASE exec' = exec
      BY <2>2, <2>3, RefundSide DEF SentInv, RefundsAreOwed
    <2>4. CASE exec[p].st = "none" /\ exec' = [exec EXCEPT ![p].st = "pending"]
      <3>1. \A q \in Payments \ {p} : exec'[q] = exec[q]
        BY <2>4 DEF IndInv, TypeOK
      <3>2. efi[p] = "none" => exec[p].st # "failed" /\ \A w \in Workers : ~Holds(w, p)'
        BY <2>1, <2>2, <2>4, Unheld DEF Holds
      <3> QED
        BY <2>1, <2>2, <2>4, <3>1, <3>2, ExecSide
    <2> QED
      BY <1>1, <2>1, <2>3, <2>4 DEF InsertExecution
  <1>2. CASE ~InsertExecution(c)
    <2>1. UNCHANGED <<exec, refund, task, rtask, efi, wire, signer, again>>
      BY <1>2 DEF ConfirmStep, BeginConfirm, FundingUnproved, RegisterFunding, HandlerStops,
         world, books
    <2> QED
      BY <2>1, RefundSide DEF SentInv, RefundsAreOwed
  <1> QED
    BY <1>1, <1>2

LEMMA AroundSent ==
  ASSUME SentInv, \/ \E p \in Payments : CreateIntent(p) \/ QuoteExpires(p)
                  \/ \E t \in Txs : ChainMoves(t)
  PROVE  SentInv'
  <1>1. UNCHANGED <<exec, refund, task, rtask, efi, wire, signer, again>>
    BY DEF CreateIntent, QuoteExpires, ChainMoves, world, books
  <1> QED
    BY <1>1, RefundSide DEF SentInv, RefundsAreOwed

(* What a worker's answer does to the row it claimed.                      *)
LEMMA AnswerRows ==
  ASSUME IndInv, NEW p \in Payments, NEW k, ApplyAnswer(p, k)
  PROVE  /\ \A q \in Payments \ {p} : exec'[q] = exec[q] /\ refund'[q] = refund[q]
         /\ refund'[p].st # "none" =>
              \/ refund[p].st # "none"
              \/ /\ CanCreateRefund(k)
                 /\ exec[p].st # "completed" => exec'[p].st = "failed"
  <1>0. exec \in [Payments -> Exec] /\ refund \in [Payments -> Refund]
    BY DEF IndInv, TypeOK
  <1> DEFINE Alone == \A q \in Payments \ {p} : exec'[q] = exec[q]
  <1>1. CASE /\ UNCHANGED refund
             /\ \/ CompleteExecution(p) \/ MarkManualReview(p) \/ RetryExecution(p)
                \/ \E st \in Waiting : MarkProviderWaiting(p, k, st)
                \/ \E aged \in BOOLEAN : MarkReconcileNotFound(p, k, aged)
    <2>1. CASE CompleteExecution(p)
      BY <1>0, <1>1, <2>1 DEF CompleteExecution
    <2>2. CASE MarkManualReview(p) \/ RetryExecution(p)
      BY <1>0, <1>1, <2>2 DEF MarkManualReview, RetryExecution, SetExec
    <2>3. ASSUME NEW st \in Waiting, MarkProviderWaiting(p, k, st) PROVE Alone
      BY <1>0, <2>3 DEF MarkProviderWaiting
    <2>4. ASSUME NEW aged \in BOOLEAN, MarkReconcileNotFound(p, k, aged) PROVE Alone
      BY <1>0, <2>4 DEF MarkReconcileNotFound
    <2> QED
      BY <1>1, <2>1, <2>2, <2>3, <2>4
  <1>2. CASE FailExecutionForRefund(p, k)
    <2>1. CASE ~CanCreateRefund(k)
      BY <1>0, <1>2, <2>1 DEF FailExecutionForRefund, MarkManualReview, SetExec
    <2>2. CASE CanCreateRefund(k)
      BY <1>0, <1>2, <2>2 DEF FailExecutionForRefund, Exec
    <2> QED
      BY <2>1, <2>2
  <1> QED
    BY <1>1, <1>2 DEF ApplyAnswer, Waiting

LEMMA ApplySent ==
  ASSUME IndInv, SentInv, NEW w \in Workers, ProviderApply(w)
  PROVE  SentInv'
  <1> DEFINE k == task[w]
  <1>0. PICK p \in Payments : p = task[w].p
    BY DEF ProviderApply, IndInv, AnswersAreTrue
  <1>1. Holds(w, p) /\ k.at = "apply"
    BY <1>0 DEF ProviderApply, Holds
  <1>2. UNCHANGED <<rtask, efi, wire, signer, again>>
    BY DEF ProviderApply, world
  <1>3. task' = [task EXCEPT ![w] = Idle] /\ task \in [Workers -> Task]
    BY DEF ProviderApply, IndInv, TypeOK
  <1>4. /\ \A q \in Payments \ {p} : exec'[q] = exec[q] /\ refund'[q] = refund[q]
        /\ refund'[p].st # "none" =>
             \/ refund[p].st # "none"
             \/ /\ CanCreateRefund(k)
                /\ exec[p].st # "completed" => exec'[p].st = "failed"
    BY <1>0, <1>1, AnswerRows DEF ProviderApply
  <1>5. efi[p] = "none" =>
          exec[p].st = "processing" /\ \A x \in Workers : Holds(x, p) => x = w
    BY <1>1 DEF SentInv, OneSender
  <1>6. \A x \in Workers : task'[x] = task[x] \/ task'[x].at = "idle"
    BY <1>3 DEF Idle
  <1>7. efi[p] = "none" => \A x \in Workers : ~Holds(x, p)'
    BY <1>3, <1>5 DEF Holds, Idle
  <1>8. CanCreateRefund(k) =>
          \/ p \in again \/ efi[p] = "rejected"
          \/ Untaken(p)
    BY <1>0, <1>1 DEF SentInv, RefusalsAreTrue, CanCreateRefund
  <1> HIDE DEF k
  <1>9. refund'[p].st # "none" => refund[p].st # "none" \/ Refused(p)'
    BY <1>2, <1>4, <1>5, <1>8 DEF Refused, Untaken
  <1> QED
    BY <1>1, <1>2, <1>4, <1>5, <1>6, <1>7, <1>9, ExecSide

LEMMA ClaimSent ==
  ASSUME IndInv, SentInv, NEW w \in Workers, NEW p \in Payments, ClaimNext(w, p)
  PROVE  SentInv'
  <1>0. exec \in [Payments -> Exec] /\ task \in [Workers -> Task]
    BY DEF IndInv, TypeOK
  <1>1. /\ UNCHANGED <<refund, rtask, efi, wire, signer, again>>
        /\ exec[p].st \in DueStatus /\ task[w] = Idle
    BY DEF ClaimNext, world
  <1>2. /\ exec'[p].st = "processing"
        /\ \A q \in Payments \ {p} : exec'[q] = exec[q]
    BY <1>0 DEF ClaimNext, Exec
  <1>3. /\ task'[w].at = "call" /\ task'[w].p = p
        /\ \A x \in Workers \ {w} : task'[x] = task[x]
    BY <1>0 DEF ClaimNext
  <1>4. exec[p].st # "processing" /\ exec[p].st # "failed"
    BY <1>1 DEF DueStatus, Waiting
  <1>5. OneSender'
    <2> SUFFICES ASSUME NEW q \in Payments, NEW x \in Workers, efi'[q] = "none", Holds(x, q)'
                 PROVE  exec'[q].st = "processing" /\ \A y \in Workers : Holds(y, q)' => y = x
      BY DEF OneSender
    <2>1. CASE q = p
      <3>1. \A y \in Workers : ~Holds(y, p)
        BY <1>1, <1>4, <2>1, Unheld
      <3>2. \A y \in Workers : Holds(y, q)' => y = w
        BY <1>3, <2>1, <3>1 DEF Holds
      <3> QED
        BY <1>2, <2>1, <3>2
    <2>2. CASE q # p
      <3>1. \A y \in Workers : Holds(y, q)' => Holds(y, q)
        BY <1>3, <2>2 DEF Holds
      <3> QED
        BY <1>1, <1>2, <2>2, <3>1 DEF SentInv, OneSender
    <2> QED
      BY <2>1, <2>2
  <1>6. RefusalsAreTrue'
    BY <1>1, <1>3 DEF SentInv, RefusalsAreTrue, Untaken
  <1>7. \A q \in Payments : Refused(q) => Refused(q)'
    BY <1>1, <1>2, <1>4 DEF Refused, Untaken
  <1>8. RefundsAreOwed'
    BY <1>1, <1>7 DEF SentInv, RefundsAreOwed, IndInv, RefundsAreTrue
  <1> QED
    BY <1>5, <1>6, <1>8 DEF SentInv

(* What the answers of a PUT or of a lookup are worth to a refund.         *)
LEMMA RefusalOutcomes ==
  ASSUME NEW p \in Payments, efi[p] \in EfiStates, NEW act, NEW o \in Outcomes(p, act)
  PROVE  /\ efi[p] = "rejected" => o[1] = "rejected"
         /\ o[2] = "failed" => o[1] = "rejected"
         /\ o[2] = "definitive" => o[1] = efi[p] /\ ~MayStillArrive(act, o)
  <1>1. \A e \in EfiStates : Reported(e) \notin Errors /\ (Reported(e) = "failed" => e = "rejected")
    BY DEF Reported, EfiStates, Errors
  <1>2. o[2] = "definitive" => ~MayStillArrive(act, o)
    BY DEF MayStillArrive, Unsure
  <1>3. CASE o \in Unmoved(p) \cup {<<efi[p], "definitive">>} \cup {<<efi[p], Reported(efi[p])>>}
    BY <1>1, <1>2, <1>3 DEF Unmoved, Errors
  <1>4. CASE efi[p] = "none" /\ o \in {<<e, a>> : e \in Verdicts, a \in Unsure}
    BY <1>4 DEF Verdicts, Unsure
  <1>5. CASE efi[p] = "none" /\ o \in {<<e, Reported(e)>> : e \in Verdicts}
    BY <1>1, <1>5 DEF Verdicts, EfiStates, Errors
  <1> QED
    BY <1>3, <1>4, <1>5 DEF Outcomes, ExecuteOutcomes, ReconcileOutcomes

LEMMA CallSent ==
  ASSUME IndInv, SentInv, NEW w \in Workers, ProviderCall(w)
  PROVE  SentInv'
  <1> DEFINE act == task[w].act
  <1>0. /\ task \in [Workers -> Task] /\ efi \in [Payments -> EfiStates]
        /\ wire \subseteq Payments
    BY DEF IndInv, TypeOK, EfiStates
  <1>1. PICK p \in Payments : p = task[w].p
    BY DEF ProviderCall, IndInv, AnswersAreTrue
  <1>2. /\ UNCHANGED <<exec, refund, rtask, signer>> /\ task[w].at = "call"
        /\ again' = IF act = "execute" /\ (efi[p] # "none" \/ p \in wire)
                    THEN again \cup {p} ELSE again
    BY <1>1 DEF ProviderCall, books
  <1>3. PICK o \in Outcomes(p, act) :
          /\ efi' = [efi EXCEPT ![p] = o[1]]
          /\ UNCHANGED wire \/ (MayStillArrive(act, o) /\ wire' = wire \cup {p})
          /\ task' = [task EXCEPT ![w].at = "apply", ![w].ans = o[2]]
    BY <1>1 DEF ProviderCall
  <1>4. /\ efi[p] = "rejected" => o[1] = "rejected"
        /\ o[2] = "failed" => o[1] = "rejected"
        /\ o[2] = "definitive" => o[1] = efi[p] /\ ~MayStillArrive(act, o)
        /\ efi[p] = "none" \/ o[1] = efi[p]
    BY <1>0, RefusalOutcomes, OutcomesAreTrue
  <1>5. /\ task'[w].at = "apply" /\ task'[w].ans = o[2] /\ task'[w].p = p /\ task'[w].act = act
        /\ \A x \in Workers \ {w} : task'[x] = task[x]
    BY <1>0, <1>1, <1>3 DEF Task
  <1>6. efi[p] = "none" =>
          exec[p].st = "processing" /\ \A x \in Workers : Holds(x, p) => x = w
    BY <1>1, <1>2 DEF SentInv, OneSender, Holds
  <1>7. /\ efi'[p] = o[1] /\ again \subseteq again'
        /\ \A q \in Payments \ {p} : efi'[q] = efi[q] /\ (q \in wire' <=> q \in wire)
    BY <1>0, <1>2, <1>3
  <1> HIDE DEF act
  <1>8. OneSender'
    <2>1. \A q \in Payments : efi'[q] = "none" => efi[q] = "none"
      BY <1>4, <1>7
    <2>2. \A q \in Payments, x \in Workers : Holds(x, q)' <=> Holds(x, q)
      BY <1>1, <1>2, <1>5 DEF Holds
    <2> QED
      BY <1>2, <2>1, <2>2 DEF SentInv, OneSender
  <1>9. RefusalsAreTrue'
    <2> SUFFICES ASSUME NEW x \in Workers, task'[x].at = "apply"
                 PROVE  /\ task'[x].ans = "failed" => efi'[task'[x].p] = "rejected"
                        /\ task'[x].ans = "definitive" /\ task'[x].act = "execute" =>
                             \/ task'[x].p \in again'
                             \/ efi'[task'[x].p] = "none" /\ task'[x].p \notin wire'
      BY DEF RefusalsAreTrue, Untaken
    <2>1. CASE x = w
      <3>1. o[2] = "definitive" /\ act = "execute" =>
              p \in again' \/ (efi'[p] = "none" /\ p \notin wire')
        BY <1>2, <1>3, <1>4, <1>7
      <3> QED
        BY <1>4, <1>5, <1>7, <2>1, <3>1
    <2>2. CASE x # w
      <3>1. task'[x] = task[x] /\ task[x].at = "apply"
        BY <1>5, <2>2
      <3>2. PICK q \in Payments : q = task[x].p
        BY <3>1 DEF IndInv, AnswersAreTrue
      <3>3. /\ task[x].ans = "failed" => efi[q] = "rejected"
            /\ task[x].ans = "definitive" /\ task[x].act = "execute" =>
                 q \in again \/ (efi[q] = "none" /\ q \notin wire)
        BY <3>1, <3>2 DEF SentInv, RefusalsAreTrue, Untaken
      <3>4. CASE q = p
        <4>1. efi[p] # "none"
          BY <1>6, <2>2, <3>1, <3>2, <3>4 DEF Holds
        <4> QED
          BY <1>4, <1>7, <3>1, <3>2, <3>3, <3>4, <4>1
      <3>5. CASE q # p
        BY <1>7, <3>1, <3>2, <3>3, <3>5
      <3> QED
        BY <3>4, <3>5
    <2> QED
      BY <2>1, <2>2
  <1>10. \A q \in Payments : Refused(q) => Refused(q)'
    <2> SUFFICES ASSUME NEW q \in Payments, Refused(q) PROVE Refused(q)'
      OBVIOUS
    <2>1. CASE q = p
      BY <1>4, <1>6, <1>7, <2>1 DEF Refused, Untaken
    <2>2. CASE q # p
      BY <1>2, <1>7, <2>2 DEF Refused, Untaken
    <2> QED
      BY <2>1, <2>2
  <1>11. RefundsAreOwed'
    BY <1>2, <1>10 DEF SentInv, RefundsAreOwed, IndInv, RefundsAreTrue
  <1> QED
    BY <1>8, <1>9, <1>11 DEF SentInv

LEMMA CloseSent ==
  ASSUME IndInv, SentInv, NEW p \in Payments,
         (\E w \in Workers : CloseUnclaimed(w, p)) \/ RecoverStaleProcessing(p)
  PROVE  SentInv'
  <1>1. UNCHANGED <<refund, task, rtask, efi, wire, signer, again>>
    BY DEF CloseUnclaimed, RecoverStaleProcessing, world
  <1>2. \A q \in Payments \ {p} : exec'[q] = exec[q]
    BY DEF CloseUnclaimed, RecoverStaleProcessing, SetExec, IndInv, TypeOK
  <1>3. exec[p].st # "failed"
    BY DEF CloseUnclaimed, RecoverStaleProcessing, DueStatus, Waiting
  <1>4. efi[p] = "none" => \A w \in Workers : ~Holds(w, p)
    <2>1. CASE \E w \in Workers : CloseUnclaimed(w, p)
      BY <2>1, Unheld DEF CloseUnclaimed, DueStatus, Waiting
    <2>2. CASE RecoverStaleProcessing(p)
      BY <2>2 DEF RecoverStaleProcessing, Holds
    <2> QED
      BY <2>1, <2>2
  <1>5. efi[p] = "none" => \A w \in Workers : ~Holds(w, p)'
    BY <1>1, <1>4 DEF Holds
  <1> QED
    BY <1>1, <1>2, <1>3, <1>5, ExecSide

LEMMA StopSent ==
  ASSUME SentInv, NEW w \in Workers, WorkerStops(w)
  PROVE  SentInv'
  <1>1. /\ UNCHANGED <<exec, refund, rtask, efi, wire, signer, again>>
        /\ \A x \in Workers : task'[x] = task[x] \/ task'[x].at = "idle"
    BY DEF WorkerStops, books, world, Idle
  <1>2. OneSender' /\ RefusalsAreTrue'
    BY <1>1 DEF SentInv, OneSender, RefusalsAreTrue, Holds, Untaken
  <1>3. RefundsAreOwed'
    BY <1>1 DEF SentInv, RefundsAreOwed, Refused, Untaken
  <1> QED
    BY <1>2, <1>3 DEF SentInv

LEMMA WebhookSent ==
  ASSUME IndInv, SentInv, NEW p \in Payments, NEW s \in Events,
         WebhookUnmatched(p, s) \/ ApplyEfiMobileWebhook(p, s)
  PROVE  SentInv'
  <1>0. exec \in [Payments -> Exec] /\ refund \in [Payments -> Refund]
    BY DEF IndInv, TypeOK
  <1>1. /\ UNCHANGED <<task, rtask, efi, wire, signer, again>> /\ s \in Existing(p)
    BY DEF WebhookUnmatched, ApplyEfiMobileWebhook, world
  <1>2. efi[p] # "none" /\ (s = "failed" => efi[p] = "rejected")
    BY <1>1 DEF Existing
  <1>3. CASE UNCHANGED books
    BY <1>1, <1>3, RefundSide DEF books, SentInv, RefundsAreOwed
  <1>4. ASSUME \/ WebhookCompleted(p)
               \/ WebhookFailed(p) /\ s = "failed"
               \/ WebhookPending(p)
        PROVE  SentInv'
    <2> DEFINE Rows == /\ \A q \in Payments \ {p} : exec'[q] = exec[q] /\ refund'[q] = refund[q]
                       /\ refund'[p].st # "none" => refund[p].st # "none" \/ s = "failed"
    <2>1. ASSUME WebhookCompleted(p) PROVE Rows
      <3>1. ASSUME FinancialIncident(p), refund[p].st # "none" PROVE Rows
        BY <1>0, <3>1 DEF FinancialIncident
      <3>2. ASSUME CompleteExecution(p),
                   \/ refund' = refund
                   \/ refund[p].st # "none" /\ refund' = [refund EXCEPT ![p].st = "cancelled"]
            PROVE  Rows
        BY <1>0, <3>2 DEF CompleteExecution
      <3> QED
        BY <2>1, <3>1, <3>2 DEF WebhookCompleted, IndInv, SentRefundsHaveRows
    <2>2. ASSUME WebhookFailed(p), s = "failed" PROVE Rows
      BY <1>0, <2>2 DEF WebhookFailed, FailExecutionForRefund, MarkManualReview, SetExec
    <2>3. ASSUME WebhookPending(p) PROVE Rows
      BY <1>0, <2>3 DEF WebhookPending
    <2>4. Rows
      BY <1>4, <2>1, <2>2, <2>3
    <2>5. s = "failed" => Refused(p)'
      BY <1>1, <1>2 DEF Refused
    <2>6. efi[p] = "none" => exec[p].st # "failed" /\ \A w \in Workers : ~Holds(w, p)'
      BY <1>2
    <2> QED
      BY <1>1, <2>4, <2>5, <2>6, ExecSide
  <1>5. CASE ~UNCHANGED books
    <2>1. ApplyEfiMobileWebhook(p, s)
      BY <1>5 DEF WebhookUnmatched
    <2>2. CASE s = "completed"
      <3>1. WebhookCompleted(p)
        BY <1>5, <2>1, <2>2 DEF ApplyEfiMobileWebhook
      <3> QED
        BY <1>4, <3>1
    <2>3. CASE s = "failed"
      <3>1. WebhookFailed(p)
        BY <1>5, <2>1, <2>3 DEF ApplyEfiMobileWebhook
      <3> QED
        BY <1>4, <2>3, <3>1
    <2>4. CASE s = "pending"
      <3>1. WebhookPending(p)
        BY <1>5, <2>1, <2>4 DEF ApplyEfiMobileWebhook
      <3> QED
        BY <1>4, <3>1
    <2> QED
      BY <2>2, <2>3, <2>4 DEF Events
  <1> QED
    BY <1>3, <1>5

LEMMA RefundsSent ==
  ASSUME IndInv, SentInv, \/ \E v \in RefundWorkers : Refunds(v) \/ RefundWorkerStops(v)
                          \/ \E p \in Payments : RecoverStaleRefunds(p)
  PROVE  SentInv'
  <1>0. /\ rtask \in [RefundWorkers -> RTask] /\ refund \in [Payments -> Refund]
        /\ signer \in [Payments -> SignerStates]
        /\ \A v \in RefundWorkers : rtask[v].at # "idle" => rtask[v].p \in Payments
    BY DEF IndInv, TypeOK, SignerStates, RefundsAreTrue
  <1>1. /\ \A p \in Payments : refund[p].st # "none" \/ signer[p] # "none" => Refused(p)
        /\ \A v \in RefundWorkers : rtask[v].at # "idle" => Refused(rtask[v].p)
    BY DEF SentInv, RefundsAreOwed
  <1>2. ASSUME NEW v \in RefundWorkers, NEW p \in Payments, CloseRefund(v, p) PROVE SentInv'
    <2>1. UNCHANGED <<exec, task, rtask, efi, wire, signer, again>> /\ refund[p].st \in RefundDue
      BY <1>2 DEF CloseRefund, world, FinancialIncident
    <2>2. \A q \in Payments \ {p} : refund'[q] = refund[q]
      BY <1>0, <1>2 DEF CloseRefund, FinancialIncident, SetRefund
    <2>3. \A q \in Payments : refund'[q].st # "none" => refund[q].st # "none"
      BY <2>1, <2>2 DEF RefundDue
    <2> QED
      BY <1>1, <2>1, <2>3, RefundSide
  <1>3. ASSUME NEW v \in RefundWorkers, NEW p \in Payments, ClaimNextRefund(v, p) PROVE SentInv'
    <2>1. UNCHANGED <<exec, task, efi, wire, signer, again>> /\ refund[p].st \in RefundDue
      BY <1>3 DEF ClaimNextRefund, world
    <2>2. \A q \in Payments \ {p} : refund'[q] = refund[q]
      BY <1>0, <1>3 DEF ClaimNextRefund
    <2>3. \A q \in Payments : refund'[q].st # "none" => refund[q].st # "none"
      BY <2>1, <2>2 DEF RefundDue
    <2>4. \A x \in RefundWorkers : rtask'[x].p = p \/ rtask'[x] = rtask[x]
      BY <1>0, <1>3 DEF ClaimNextRefund
    <2>5. Refused(p)
      BY <1>1, <2>1 DEF RefundDue
    <2> QED
      BY <1>1, <2>1, <2>3, <2>4, <2>5, RefundSide
  <1>4. ASSUME NEW v \in RefundWorkers, SignerCall(v) PROVE SentInv'
    <2>1. /\ UNCHANGED <<exec, refund, task, efi, wire, again>>
          /\ rtask[v].at = "call"
      BY <1>4 DEF SignerCall, books
    <2>2. \A q \in Payments : q = rtask[v].p \/ signer'[q] = signer[q]
      BY <1>0, <1>4 DEF SignerCall
    <2>3. \A x \in RefundWorkers : rtask'[x].at # "idle" =>
                                       rtask[x].at # "idle" /\ rtask'[x].p = rtask[x].p
      BY <1>0, <1>4 DEF SignerCall, RTask
    <2> QED
      BY <1>1, <2>1, <2>2, <2>3, RefundSide
  <1>5. ASSUME NEW v \in RefundWorkers, RefundApply(v) PROVE SentInv'
    <2>1. /\ UNCHANGED <<exec, task, efi, wire, signer, again>> /\ rtask[v].at = "apply"
      BY <1>5 DEF RefundApply, world
    <2>2. PICK p \in Payments : p = rtask[v].p
      BY <1>0, <2>1
    <2>3. \A q \in Payments : q = p \/ refund'[q] = refund[q]
      <3>1. refund' = refund \/ \E r : refund' = [refund EXCEPT ![p] = r]
        <4>1. /\ \A t : IfProcessing(p, t) =>
                          refund' = refund \/ \E r : refund' = [refund EXCEPT ![p] = r]
              /\ MarkRefundManualReview(p) =>
                          refund' = refund \/ \E r : refund' = [refund EXCEPT ![p] = r]
              /\ CompleteRefund(p) => \E r : refund' = [refund EXCEPT ![p] = r]
          BY DEF IfProcessing, MarkRefundManualReview, SetRefund, CompleteRefund
        <4>2. \/ CompleteRefund(p) \/ MarkRefundManualReview(p)
              \/ \E t : IfProcessing(p, t)
          <5>1. rtask[v] \in RTask /\ ApplyRefundAnswer(p, rtask[v])
            BY <1>0, <1>5, <2>2 DEF RefundApply
          <5>2. rtask[v].act = "confirm" =>
                  rtask[v].ans \in {"error", "pending", "confirmed", "reverted"}
            BY <2>1 DEF IndInv, RefundsAreTrue
          <5> QED
            BY <5>1, <5>2, RefundAnswerCases DEF MarkRefundBroadcast
        <4> QED
          BY <4>1, <4>2
      <3> QED
        BY <1>0, <3>1
    <2>4. Refused(p)
      BY <1>1, <2>1, <2>2
    <2>5. \A x \in RefundWorkers : rtask'[x].at # "idle" =>
                                       rtask[x].at # "idle" /\ rtask'[x].p = rtask[x].p
      BY <1>0, <1>5 DEF RefundApply, RTask, RIdle
    <2> QED
      BY <1>1, <2>1, <2>3, <2>4, <2>5, RefundSide
  <1>6. ASSUME NEW v \in RefundWorkers, RefundWorkerStops(v) PROVE SentInv'
    <2>1. UNCHANGED <<exec, refund, task, efi, wire, signer, again>>
      BY <1>6 DEF RefundWorkerStops, books, world
    <2>2. \A x \in RefundWorkers : rtask'[x].at # "idle" => rtask'[x] = rtask[x]
      BY <1>0, <1>6 DEF RefundWorkerStops, RIdle
    <2> QED
      BY <1>1, <2>1, <2>2, RefundSide
  <1>7. ASSUME NEW p \in Payments, RecoverStaleRefunds(p) PROVE SentInv'
    <2>1. UNCHANGED <<exec, task, rtask, efi, wire, signer, again>> /\ refund[p].st = "processing"
      BY <1>7 DEF RecoverStaleRefunds, world
    <2>2. \A q \in Payments : q = p \/ refund'[q] = refund[q]
      BY <1>0, <1>7 DEF RecoverStaleRefunds, SetRefund
    <2> QED
      BY <1>1, <2>1, <2>2, RefundSide
  <1> QED
    BY <1>2, <1>3, <1>4, <1>5, <1>6, <1>7 DEF Refunds

LEMMA WorldSent ==
  ASSUME IndInv, SentInv, NEW p \in Payments, World(p)
  PROVE  SentInv'
  <1>0. /\ efi \in [Payments -> EfiStates] /\ signer \in [Payments -> SignerStates]
        /\ \A w \in Workers : task[w].at # "idle" => task[w].p \in Payments
        /\ \A v \in RefundWorkers : rtask[v].at # "idle" => rtask[v].p \in Payments
    BY DEF IndInv, TypeOK, EfiStates, SignerStates, AnswersAreTrue, RefundsAreTrue
  <1>1. UNCHANGED <<exec, refund, task, rtask, again>>
    BY DEF World, WireArrives, EfiSettles, RefundMined, books
  <1>2. /\ \A q \in Payments : Untaken(q) => Untaken(q)'
        /\ \A q \in Payments : efi[q] = "rejected" => efi'[q] = "rejected"
        /\ \A q \in Payments : efi'[q] = "none" => efi[q] = "none"
        /\ \A q \in Payments : signer'[q] # "none" => signer[q] # "none"
    BY <1>0 DEF World, WireArrives, EfiSettles, RefundMined, Untaken
  <1>3. OneSender'
    BY <1>1, <1>2 DEF SentInv, OneSender, Holds
  <1>4. RefusalsAreTrue'
    BY <1>0, <1>1, <1>2 DEF SentInv, RefusalsAreTrue
  <1>5. \A q \in Payments : Refused(q) => Refused(q)'
    BY <1>1, <1>2 DEF Refused
  <1>6. RefundsAreOwed'
    BY <1>0, <1>1, <1>2, <1>5 DEF SentInv, RefundsAreOwed
  <1> QED
    BY <1>3, <1>4, <1>6 DEF SentInv

LEMMA NextSentInv == IndInv /\ SentInv /\ [Next]_vars => SentInv'
  <1> SUFFICES ASSUME IndInv, SentInv, [Next]_vars PROVE SentInv'
    OBVIOUS
  <1>1. ASSUME NEW p \in Payments, Recovers(p) PROVE SentInv'
    BY <1>1, CloseSent, RefundsSent DEF Recovers
  <1>2. ASSUME NEW w \in Workers, Runs(w) \/ WorkerStops(w) PROVE SentInv'
    BY <1>2, CloseSent, ClaimSent, CallSent, ApplySent, StopSent DEF Runs
  <1>3. CASE UNCHANGED vars
    BY <1>3, RefundSide DEF vars, SentInv, RefundsAreOwed
  <1> QED
    BY <1>1, <1>2, <1>3, AroundSent, ConfirmSent, WebhookSent, RefundsSent, WorldSent DEF Next

-----------------------------------------------------------------------------
(* The books never say more than what Efi paid and what the signer's       *)
(* transfer moved, and USDT goes back only for a PIX that Efi rejected or  *)
(* will never get, unless the execution was sent a second time on top of   *)
(* it, whatever crashes, is lost, late or delivered twice.                 *)
THEOREM BooksAreTrue == Spec => []PaymentBooksAreTrue
  <1>1. IndInv /\ SentInv => PaymentBooksAreTrue
    BY DEF IndInv, SentInv, RefundsAreOwed, Refused, Untaken, RefundedIsUnpaid,
       PaymentBooksAreTrue
  <1> QED
    BY <1>1, InitIndInv, InitSentInv, NextIndInv, NextSentInv, PTL DEF Spec

(* A completed execution and a completed refund stay so: no late webhook,  *)
(* stale claim or second worker writes over them.                          *)
THEOREM ConclusionsStay == Spec => CompletedIsFinal
  <1>1. IndInv /\ [Next]_vars =>
          [\A p \in Payments :
             /\ exec[p].st = "completed" => exec'[p].st = "completed"
             /\ refund[p].st = "completed" => refund'[p].st = "completed"]_vars
    BY NextIndInv DEF Kept
  <1> QED
    BY <1>1, InitIndInv, NextIndInv, PTL DEF Spec, CompletedIsFinal
=============================================================================
