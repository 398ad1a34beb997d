--------------------------- MODULE M2MSettlement ---------------------------
(***************************************************************************)
(* Machine-to-machine payments: an agent creates an intent, deposits USDT  *)
(* on a treasury address that intents may share, and the settlement worker *)
(* of any replica pays the PIX key or queues the card bill for an operator.*)
(* Amounts within the tolerance count as equal, every intent pays one unit *)
(* and all intents use one address.  External: Efi, one PIX per intent id. *)
(***************************************************************************)
EXTENDS Naturals, FiniteSets

CONSTANTS Intents,
          Cards,       \* those that pay a card bill; the others pay by PIX
          RequiredOf,  \* USDT each intent asks for
          Deposits,    \* confirmed transfers to the treasury address
          AmountOf,    \* USDT each of them carries
          Settlers,    \* settlement goroutines of all replicas
          MaxAttempts, \* attempts bound of GetPaidCryptoIntents
          DailyCap,    \* M2M_MAX_DAILY_OUTFLOW_BRL in intents
          None

ASSUME M2MAssumption ==
    /\ Cards \subseteq Intents /\ None \notin Intents \cup Deposits
    /\ RequiredOf \in [Intents -> Nat] /\ AmountOf \in [Deposits -> Nat]
    /\ MaxAttempts \in Nat

VARIABLES st, tx, n, \* agent_payment_intents: status, deposit_tx, attempts
          lapsed,    \* intents whose expires_at has passed
          found,     \* matchM2MDeposit calls between their lookup and their update
          told,      \* m2m.deposit.confirmed events on the bus
          task,      \* what each settlement goroutine is doing
          due,       \* m2m.card_payment.due events published
          efi, wire  \* external: Efi's PIX; requests whose caller gave up

m2mvars == <<st, tx, n, lapsed, found, told, task, due, efi, wire>>

IntentStatus == {"none", "pending_deposit", "paid_crypto", "settling", "settled", "failed",
                 "expired"}
Settlement == [at : {"idle", "cap", "efi", "write"}, i : Intents \cup {None},
         res : {"settled", "paid_crypto", "failed", "none"}]
NotSettling == [at |-> "idle", i |-> None, res |-> "none"]

M2MInit ==
    /\ st = [i \in Intents |-> "none"] /\ tx = [i \in Intents |-> None]
    /\ n = [i \in Intents |-> 0] /\ lapsed = {} /\ found = {} /\ told = {}
    /\ task = [w \in Settlers |-> NotSettling] /\ due = {}
    /\ efi = [i \in Intents |-> "none"] /\ wire = {}

(* CreateAgentPaymentIntent: a repeated idempotency key returns the row.   *)
CreateAgentPaymentIntent(i) ==
    /\ st[i] = "none" /\ st' = [st EXCEPT ![i] = "pending_deposit"]
    /\ UNCHANGED <<tx, n, lapsed, found, told, task, due, efi, wire>>

IntentLapses(i) ==
    /\ st[i] = "pending_deposit" /\ i \notin lapsed /\ lapsed' = lapsed \cup {i}
    /\ UNCHANGED <<st, tx, n, found, told, task, due, efi, wire>>

(* GetAgentPaymentIntent expires a lapsed intent that it reads.            *)
GetAgentPaymentIntent(i) ==
    /\ i \in lapsed /\ st[i] = "pending_deposit"
    /\ st' = [st EXCEPT ![i] = "expired"]
    /\ UNCHANGED <<tx, n, lapsed, found, told, task, due, efi, wire>>

-----------------------------------------------------------------------------
(* chooseM2MDepositCandidate: alone, an intent takes any sufficient        *)
(* deposit; among several, exactly one must ask for the amount deposited.  *)
OpenIntents == {i \in Intents : st[i] = "pending_deposit" /\ i \notin lapsed}
Chosen(t) ==
    IF Cardinality(OpenIntents) = 1 THEN {i \in OpenIntents : AmountOf[t] >= RequiredOf[i]}
    ELSE LET exact == {i \in OpenIntents : AmountOf[t] = RequiredOf[i]}
         IN  IF Cardinality(exact) = 1 THEN exact ELSE {}

(* matchM2MDeposit runs in a goroutine of its own for every log scanned; a *)
(* log is scanned again when the cursor did not advance.                   *)
MatchM2MDeposit(t) ==
    /\ \E i \in Chosen(t) : found' = found \cup {<<t, i>>}
    /\ UNCHANGED <<st, tx, n, lapsed, told, task, due, efi, wire>>

(* The unique index uq_m2m_deposit_tx refuses a second intent.             *)
Unused(t) == \A i \in Intents : tx[i] # t
Claim(t, i, allowed) ==
    /\ <<t, i>> \in found /\ found' = found \ {<<t, i>>}
    /\ IF st[i] = "pending_deposit" /\ tx[i] = None /\ allowed
       THEN /\ st' = [st EXCEPT ![i] = "paid_crypto"] /\ tx' = [tx EXCEPT ![i] = t]
            /\ told' = told \cup {i}
       ELSE UNCHANGED <<st, tx, told>>
    /\ UNCHANGED <<n, lapsed, task, due, efi, wire>>
(* Mutant: the database does not have the unique index on deposit_tx.      *)
ConfirmAnyDeposit(t, i) == Claim(t, i, TRUE)
ConfirmM2MDeposit(t, i) == Claim(t, i, Unused(t))

-----------------------------------------------------------------------------
(* MarkM2MSettling under the advisory lock, which its commit releases.     *)
Settleable(i) == st[i] = "paid_crypto"
MarkM2MSettling(w, i) ==
    /\ task[w].at = "idle" /\ Settleable(i)
    /\ st' = [st EXCEPT ![i] = "settling"] /\ n' = [n EXCEPT ![i] = @ + 1]
    /\ task' = [task EXCEPT ![w] = [NotSettling EXCEPT !.at = "cap", !.i = i]]
    /\ UNCHANGED <<tx, lapsed, found, due, efi, wire>>

HandleEvent(w, i) == i \in told /\ told' = told \ {i} /\ MarkM2MSettling(w, i)
SweepPaidCrypto(w, i) == n[i] < MaxAttempts /\ told' = told /\ MarkM2MSettling(w, i)

(* An event is dropped by a full bus, a restart or an intent taken before. *)
EventLost(i) ==
    /\ i \in told /\ told' = told \ {i}
    /\ UNCHANGED <<st, tx, n, lapsed, found, task, due, efi, wire>>

Ends(w, res) == task' = [task EXCEPT ![w].at = "write", ![w].res = res]

(* checkDailyOutflow counts what is settled already; runSettlement then    *)
(* queues a card bill and leaves its intent settling.                      *)
CheckDailyOutflow(w) ==
    LET i == task[w].i
        used == Cardinality({j \in Intents : st[j] = "settled"})
    IN  /\ task[w].at = "cap"
        /\ \/ Ends(w, "paid_crypto") /\ UNCHANGED due  \* over the cap, or unreadable
           \/ /\ used + 1 <= DailyCap
              /\ IF i \in Cards
                 THEN due' = due \cup {i} /\ task' = [task EXCEPT ![w] = NotSettling]
                 ELSE task' = [task EXCEPT ![w].at = "efi"] /\ UNCHANGED due
        /\ UNCHANGED <<st, tx, n, lapsed, found, told, efi, wire>>

(* callEfiPix: Efi accepts (any answer with an endToEndId counts as paid,  *)
(* its status is not read), refuses the key for good, or refuses an id it  *)
(* has already accepted with an HTTP 4xx, which is not retried.            *)
Answer(i) == CASE efi[i] = "none" -> {"accepted", "refused"} [] OTHER -> {efi[i]}
ErrorResult(i, ans) == IF ans = "refused" THEN "failed"
                       ELSE IF efi[i] = "accepted" THEN "paid_crypto" ELSE "settled"
(* Transient errors are retried, then the intent goes back to paid_crypto. *)
CallEfiPix(w) ==
    LET i == task[w].i
    IN  /\ task[w].at = "efi"
        /\ \/ \E ans \in Answer(i) :
                /\ efi' = [efi EXCEPT ![i] = ans] /\ Ends(w, ErrorResult(i, ans))
                /\ UNCHANGED wire
           \/ /\ wire' \in {wire, wire \cup {i}} /\ UNCHANGED efi
              /\ task' = task \/ Ends(w, "paid_crypto")
        /\ UNCHANGED <<st, tx, n, lapsed, found, told, due>>

(* MarkM2MSettled and MarkM2MFailed filter by id; nothing is written when  *)
(* the lock is not obtained or the transaction fails.                      *)
WriteResult(w) ==
    LET i == task[w].i
    IN  /\ task[w].at = "write"
        /\ st' \in {st, [st EXCEPT ![i] = task[w].res]}
        /\ task' = [task EXCEPT ![w] = NotSettling]
        /\ UNCHANGED <<tx, n, lapsed, found, told, due, efi, wire>>

SettlerStops(w) ==
    /\ task[w].at # "idle" /\ task' = [task EXCEPT ![w] = NotSettling]
    /\ UNCHANGED <<st, tx, n, lapsed, found, told, due, efi, wire>>

(* The operator reports a card bill as paid: handleInternalM2MSettled.     *)
InternalM2MSettled(i) ==
    /\ i \in due /\ st' = [st EXCEPT ![i] = "settled"]
    /\ UNCHANGED <<tx, n, lapsed, found, told, task, due, efi, wire>>

(* External: a request whose caller gave up arrives.                       *)
PixArrives(i) ==
    /\ i \in wire /\ wire' = wire \ {i}
    /\ \E ans \in Answer(i) : efi' = [efi EXCEPT ![i] = ans]
    /\ UNCHANGED <<st, tx, n, lapsed, found, told, task, due>>

M2MNext ==
    \/ \E i \in Intents : \/ CreateAgentPaymentIntent(i) \/ IntentLapses(i)
                          \/ GetAgentPaymentIntent(i) \/ EventLost(i)
                          \/ InternalM2MSettled(i) \/ PixArrives(i)
    \/ \E t \in Deposits : MatchM2MDeposit(t) \/ \E i \in Intents : ConfirmM2MDeposit(t, i)
    \/ \E w \in Settlers : \/ CheckDailyOutflow(w) \/ CallEfiPix(w) \/ WriteResult(w)
                           \/ SettlerStops(w)
                           \/ \E i \in Intents : HandleEvent(w, i) \/ SweepPaidCrypto(w, i)

M2MSpec == M2MInit /\ [][M2MNext]_m2mvars

-----------------------------------------------------------------------------
M2MTypeOK ==
    /\ st \in [Intents -> IntentStatus] /\ tx \in [Intents -> Deposits \cup {None}]
    /\ n \in [Intents -> 0..MaxAttempts + 1] /\ lapsed \subseteq Intents
    /\ found \subseteq Deposits \X Intents
    /\ told \subseteq Intents /\ due \subseteq Cards
    /\ task \in [Settlers -> Settlement]
    /\ efi \in [Intents -> {"none", "accepted", "refused"}] /\ wire \subseteq Intents

(* One transfer funds at most one payment, however often its log is        *)
(* scanned, and nothing is paid without a transfer (uq_m2m_deposit_tx,     *)
(* ConfirmM2MDeposit and the status guard of MarkM2MSettling together).    *)
DepositPaysOne ==
    \A i, j \in Intents :
        (efi[i] = "accepted" \/ i \in due) =>
            /\ tx[i] # None /\ AmountOf[tx[i]] >= RequiredOf[i]
            /\ i # j => tx[i] # tx[j]

(* The event, the sweep and other replicas never work on one intent        *)
(* together: updates that filter by id alone depend on it.                 *)
OneSettler ==
    \A v, w \in Settlers :
        task[w].i # None => /\ st[task[w].i] = "settling"
                            /\ task[v].i = task[w].i => v = w

(* A PIX recorded as settled was accepted by Efi, and one recorded as      *)
(* failed was not, whatever request was still on its way.                  *)
RecordedAsAccepted ==
    \A i \in Intents \ Cards : /\ st[i] = "settled" => efi[i] = "accepted"
                               /\ st[i] = "failed" => efi[i] # "accepted"

(* The three together, for the runs.                                       *)
M2MPaysOnce == M2MTypeOK /\ DepositPaysOne /\ OneSettler /\ RecordedAsAccepted

=============================================================================
