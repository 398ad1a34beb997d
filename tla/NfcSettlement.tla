--------------------------- MODULE NfcSettlement ---------------------------
(***************************************************************************)
(* ChainFX Tap: an authorization holds USDT of a wallet, a capture takes   *)
(* the hold and creates, in the same transaction, the settlement that pays *)
(* the merchant by PIX; a reversal, the expiry worker and a late capture   *)
(* give the hold back.  The settlement workers of several replicas claim   *)
(* settlements, submit and look up, while Efi's webhook applies events.    *)
(* One wallet, every authorization of one unit.  External: Efi, which      *)
(* keeps one PIX per idEnvio, the settlement's own key.                    *)
(***************************************************************************)
EXTENDS Naturals, FiniteSets

CONSTANTS Auths,       \* authorizations, each with at most one settlement
          HeldBefore,  \* those approved before the fee columns were added
          TokenOf,     \* the tap token each authorize request carries
          Funds,       \* available balance of the wallet
          Goroutines,  \* those that settle, of every replica
          AutoWorkers, \* those of a replica in an automatic mode
          NoPixKey,    \* authorizations whose merchant has no PIX key
          MaxRuns,     \* nfcSettlementMaxRuns
          NotFoundMin, \* NotFoundMinReconciliations
          NoAuth

(* A hold approved by an earlier release has its row, and NoAuth is none.  *)
ASSUME TapAssumption ==
    /\ IsFiniteSet(Auths) /\ HeldBefore \subseteq Auths /\ NoAuth \notin Auths
    /\ Funds \in Nat /\ MaxRuns \in Nat /\ NotFoundMin \in Nat

VARIABLES auth,      \* nfc_authorizations.status
          answer,    \* response code of the authorize request
          used,      \* tokens revoked
          late,      \* authorizations whose hold_expires_at has passed
          avail, locked, \* nfc_wallet_balances
          settle,    \* merchant_settlements
          announced, \* nfc.capture.completed events on the bus
          job,       \* what each goroutine is doing
          pixAt,     \* external: Efi's PIX of the settlement
          onWire,    \* external: PUTs whose caller gave up
          puts       \* history: PUTs sent for each settlement

hold == <<auth, answer, used, late, avail, locked>>
pix == <<pixAt, onWire, puts>>
tapvars == <<auth, answer, used, late, avail, locked, settle, announced, job, pixAt, onWire, puts>>

AuthStatus == {"none", "approved", "declined", "requires_funding", "captured", "reversed",
               "expired"}
Open == {"PROCESSING", "SUBMITTED", "SUBMISSION_UNKNOWN", "RETRYABLE"}
Final == {"CONFIRMED", "REJECTED"}
SettlementStatus == {"none", "PENDING", "MANUAL_REQUIRED", "MANUAL_REVIEW"} \cup Open \cup Final
SubmissionStates == {"not_submitted", "started", "ambiguous", "confirmed", "rejected"}
SettlementRow == [st : SettlementStatus, out : SubmissionStates, runs : 0..MaxRuns + 1,
                  recon : 0..NotFoundMin]
NoSettlement == [st |-> "none", out |-> "not_submitted", runs |-> 0, recon |-> 0]
Seen == {"pending", "paid", "rejected"}
EfiErrors == {"ambiguous", "permanent", "transient"}
Job == [at : {"idle", "review", "mark", "put", "get", "apply", "event"},
        a : Auths \cup {NoAuth}, ans : Seen \cup EfiErrors \cup {"none", "notfound"}]
Free == [at |-> "idle", a |-> NoAuth, ans |-> "none"]

TapInit ==
    /\ auth = [a \in Auths |-> IF a \in HeldBefore THEN "approved" ELSE "none"]
    /\ answer = [a \in Auths |-> IF a \in HeldBefore THEN "00" ELSE ""]
    /\ used = {TokenOf[a] : a \in HeldBefore} /\ late = {}
    /\ avail = Funds /\ locked = Cardinality(HeldBefore)
    /\ settle = [a \in Auths |-> NoSettlement] /\ announced = {}
    /\ job = [w \in Goroutines |-> Free]
    /\ pixAt = [a \in Auths |-> "none"] /\ onWire = {} /\ puts = [a \in Auths |-> 0]

-----------------------------------------------------------------------------
(* The INSERT of txInsertNFCAuthorizationRow names 19 columns and lists 20 *)
(* values, so PostgreSQL refuses it and the transaction is rolled back.    *)
Columns == 19
Values == 20

(* AuthorizeNFCPayment; the liquidity policy is optional and off by default*)
AuthorizeNFCPayment(a) ==
    IF Columns # Values
    THEN answer' = [answer EXCEPT ![a] = "error"] /\ UNCHANGED <<auth, used, avail, locked>>
    ELSE LET valid == TokenOf[a] \notin used
             funded == avail >= 1
         IN  /\ answer' = [answer EXCEPT ![a] =
                  IF ~valid THEN "05" ELSE IF ~funded THEN "51" ELSE "00"]
             /\ auth' = [auth EXCEPT ![a] = IF ~valid THEN "declined"
                  ELSE IF ~funded THEN "requires_funding" ELSE "approved"]
             /\ used' = used \cup {TokenOf[a]}
             /\ IF valid /\ funded THEN avail' = avail - 1 /\ locked' = locked + 1
                ELSE UNCHANGED <<avail, locked>>

(* The request of a terminal, priced and within its limits; the others are *)
(* refused before anything is written.                                     *)
Authorize(a) ==
    /\ auth[a] = "none" /\ answer[a] = ""
    /\ AuthorizeNFCPayment(a)
    /\ UNCHANGED <<late, settle, announced, job, pix>>

HoldEnds(a) ==
    /\ auth[a] = "approved" /\ a \notin late
    /\ late' = late \cup {a}
    /\ UNCHANGED <<auth, answer, used, avail, locked, settle, announced, job, pix>>

(* The UPDATE of the balance is guarded by locked_usdt_micro >= amount.    *)
Unlock(n) == locked >= n /\ locked' = locked - n
GiveBack(n) == Unlock(n) /\ avail' = avail + n

(* ExpireNFCHolds: one transaction for the batch it could lock.            *)
ExpireNFCHolds(as) ==
    /\ as # {} /\ \A a \in as : auth[a] = "approved" /\ a \in late
    /\ GiveBack(Cardinality(as))
    /\ auth' = [a \in Auths |-> IF a \in as THEN "expired" ELSE auth[a]]
    /\ UNCHANGED <<answer, used, late, settle, announced, job, pix>>

FinishNFCAuthorization(a) ==
    auth[a] = "approved" /\ GiveBack(1) /\ auth' = [auth EXCEPT ![a] = "reversed"]

(* The reversal a terminal asks for.                                       *)
Reverse(a) ==
    /\ FinishNFCAuthorization(a)
    /\ UNCHANGED <<answer, used, late, settle, announced, job, pix>>

(* txCreateMerchantSettlementForCapture; ON CONFLICT keeps the row.        *)
Create(a) == settle' = IF settle[a].st = "none" THEN [settle EXCEPT ![a].st = "PENDING"] ELSE settle

(* captureNFCAuthorization: a late hold is expired instead; a repeated     *)
(* capture answers with its settlement.                                    *)
CaptureNFCAuthorization(a) ==
    IF auth[a] = "captured" THEN Create(a) /\ UNCHANGED <<auth, avail, locked>>
    ELSE IF a \in late
    THEN GiveBack(1) /\ auth' = [auth EXCEPT ![a] = "expired"] /\ UNCHANGED settle
    ELSE Unlock(1) /\ auth' = [auth EXCEPT ![a] = "captured"] /\ Create(a) /\ UNCHANGED avail

(* The handler publishes nfc.capture.completed after the commit.           *)
Capture(a) ==
    /\ auth[a] \in {"approved", "captured"}
    /\ CaptureNFCAuthorization(a)
    /\ announced' = IF auth[a] = "approved" /\ a \in late THEN announced ELSE announced \cup {a}
    /\ UNCHANGED <<answer, used, late, job, pix>>

-----------------------------------------------------------------------------
(* The statements on merchant_settlements.                                 *)
Put(a, s) == settle' = [settle EXCEPT ![a] = s]
MarkIf(a, from, s) == Put(a, IF settle[a].st \in from THEN s ELSE settle[a])
Next1(n, max) == IF n < max THEN n + 1 ELSE max

SubmitStarted(a) ==
    MarkIf(a, IF settle[a].out \in {"not_submitted", "started"} THEN {"PROCESSING"} ELSE {},
           [settle[a] EXCEPT !.out = "started"])
Submitted(a) == MarkIf(a, {"PROCESSING"},
    [settle[a] EXCEPT !.st = "SUBMITTED", !.runs = @ + 1, !.out = "confirmed"])
SubmissionUnknown(a) == MarkIf(a, {"PROCESSING"},
    [settle[a] EXCEPT !.st = "SUBMISSION_UNKNOWN", !.runs = @ + 1, !.out = "ambiguous"])
Retryable(a) == MarkIf(a, Open,
    [settle[a] EXCEPT !.st = IF settle[a].runs >= MaxRuns THEN "MANUAL_REVIEW" ELSE "RETRYABLE",
                      !.runs = @ + 1])
ManualReview(a) == MarkIf(a, Open \cup {"PENDING", "MANUAL_REQUIRED"},
    [settle[a] EXCEPT !.st = "MANUAL_REVIEW"])
ReconcileNotFound(a) == \E aged \in BOOLEAN : MarkIf(a, Open,
    [settle[a] EXCEPT !.st = IF aged /\ settle[a].recon + 1 >= NotFoundMin
                             THEN "MANUAL_REVIEW" ELSE @,
                      !.recon = Next1(@, NotFoundMin)])

(* ApplyMerchantSettlementProviderEvent; duplicates are applied again.     *)
ApplyProviderEvent(a, s) ==
    LET counted == [settle[a] EXCEPT !.recon = Next1(@, NotFoundMin)] IN
    IF s = "pending" THEN Put(a, counted)
    ELSE MarkIf(a, Open, [counted EXCEPT !.st = IF s = "paid" THEN "CONFIRMED" ELSE "REJECTED",
                                         !.out = IF s = "paid" THEN "confirmed" ELSE "rejected"])

-----------------------------------------------------------------------------
(* handleCaptureEvent of a replica in manual mode.                         *)
ManualRequired(w, a) ==
    /\ a \in announced /\ w \notin AutoWorkers
    /\ announced' = announced \ {a}
    /\ MarkIf(a, {"PENDING", "RETRYABLE"}, [settle[a] EXCEPT !.st = "MANUAL_REQUIRED"])
    /\ UNCHANGED <<hold, job, pix>>

(* Mutant: what the last run did is forgotten by the claim.                *)
MustReconcileStatus(s) == s.st \in {"SUBMISSION_UNKNOWN", "SUBMITTED"}

(* mustReconcileNFCSettlement                                              *)
MustReconcile(s) == \/ s.st \in {"SUBMISSION_UNKNOWN", "SUBMITTED"}
                    \/ s.st = "PROCESSING" /\ s.out \in {"started", "ambiguous", "confirmed"}

(* A claim blocks the others only while it is PROCESSING, and for two      *)
(* minutes, longer than the four HTTP exchanges of 20 s of one goroutine.  *)
Claimable(a) ==
    \/ settle[a].st \in {"PENDING"} \cup (Open \ {"PROCESSING"})
    \/ settle[a].st = "PROCESSING" /\ \A w \in Goroutines : job[w].a # a

(* ClaimMerchantSettlement and the choice of processOne, from a tick or    *)
(* from the event.                                                         *)
ProcessOne(w, a) ==
    LET s == [settle[a] EXCEPT !.st = IF @ \in {"PENDING", "RETRYABLE"} THEN "PROCESSING" ELSE @] IN
    /\ w \in AutoWorkers /\ job[w] = Free /\ Claimable(a)
    /\ Put(a, s) /\ announced' = announced \ {a}
    /\ job' = [job EXCEPT ![w] = [Free EXCEPT !.a = a,
         !.at = IF a \in NoPixKey THEN "review" ELSE IF MustReconcile(s) THEN "get"
                ELSE IF s.runs >= MaxRuns THEN "review" ELSE "mark"]]
    /\ UNCHANGED <<hold, pix>>

Goes(w, at) == job' = [job EXCEPT ![w].at = at]
JobEnds(w) == job' = [job EXCEPT ![w] = Free]

Review(w) ==
    /\ job[w].at = "review"
    /\ ManualReview(job[w].a) /\ JobEnds(w)
    /\ UNCHANGED <<hold, announced, pix>>

(* The rows MarkMerchantSettlementSubmitStarted changed are not counted.   *)
MarkSubmitStarted(w) ==
    /\ job[w].at = "mark"
    /\ SubmitStarted(job[w].a) /\ Goes(w, "put")
    /\ UNCHANGED <<hold, announced, pix>>

ReportedAs(e) == CASE e = "accepted" -> "pending" [] e = "paid" -> "paid"
                 [] e = "rejected" -> "rejected" [] OTHER -> "notfound"

(* <<the PIX, the request, the answer>>.  A 5xx, a reset, a timeout or a   *)
(* body that cannot be read says nothing of the request.                   *)
PutOutcomes(e) ==
    {<<e, "ended", x>> : x \in EfiErrors}
    \cup {<<e, IF e = "none" THEN "travels" ELSE "ended", x>> : x \in {"ambiguous", "transient"}}
    \cup LET held == IF e = "none" THEN {"accepted", "paid", "rejected"} ELSE {e} IN
         {<<h, "ended", x>> : h \in held, x \in {"ambiguous", "transient"}}
         \cup {<<h, "ended", ReportedAs(h)>> : h \in held}
GetOutcomes(e) == {<<e, "ended", x>> : x \in {"permanent", "transient", ReportedAs(e)}}

CallEfi(w) == LET a == job[w].a IN
    /\ job[w].at \in {"put", "get"}
    /\ \E o \in IF job[w].at = "put" THEN PutOutcomes(pixAt[a]) ELSE GetOutcomes(pixAt[a]) :
         /\ pixAt' = [pixAt EXCEPT ![a] = o[1]]
         /\ onWire' = IF o[2] = "travels" THEN onWire \cup {a} ELSE onWire
         /\ job' = [job EXCEPT ![w].at = IF job[w].at = "get" /\ o[3] \in Seen THEN "event"
                                           ELSE "apply", ![w].ans = o[3]]
    /\ puts' = IF job[w].at = "put" THEN [puts EXCEPT ![a] = @ + 1] ELSE puts
    /\ UNCHANGED <<hold, settle, announced>>

(* submitOne and reconcileOne after the call; the errors of these writes   *)
(* are ignored, so a write that is lost is a worker that stopped.          *)
ApplyEfiAnswer(w) == LET a == job[w].a  x == job[w].ans IN
    /\ job[w].at = "apply"
    /\ CASE x \in Seen        -> Submitted(a)
         [] x = "ambiguous"   -> SubmissionUnknown(a)
         [] x = "permanent"   -> ManualReview(a)
         [] x = "transient"   -> Retryable(a)
         [] x = "notfound"    -> ReconcileNotFound(a)
    /\ IF x \in Seen THEN Goes(w, "event") ELSE JobEnds(w)
    /\ UNCHANGED <<hold, announced, pix>>

ApplyReported(w) ==
    /\ job[w].at = "event"
    /\ ApplyProviderEvent(job[w].a, job[w].ans) /\ JobEnds(w)
    /\ UNCHANGED <<hold, announced, pix>>

GoroutineStops(w) ==
    /\ job[w] # Free
    /\ JobEnds(w)
    /\ UNCHANGED <<hold, settle, announced, pix>>

(* The webhook tells a state the PIX has passed through, in any order.     *)
Webhook(a, s) ==
    /\ settle[a].st # "none"
    /\ s \in CASE pixAt[a] = "accepted" -> {"pending"} [] pixAt[a] = "paid" -> {"pending", "paid"}
               [] pixAt[a] = "rejected" -> {"pending", "rejected"} [] OTHER -> {}
    /\ ApplyProviderEvent(a, s)
    /\ UNCHANGED <<hold, announced, job, pix>>

(* External.                                                               *)
PutArrives(a) ==
    /\ a \in onWire /\ onWire' = onWire \ {a}
    /\ pixAt' = IF pixAt[a] = "none" THEN [pixAt EXCEPT ![a] = "accepted"] ELSE pixAt
    /\ UNCHANGED <<hold, settle, announced, job, puts>>
PixSettles(a) ==
    /\ pixAt[a] = "accepted"
    /\ \E s \in {"paid", "rejected"} : pixAt' = [pixAt EXCEPT ![a] = s]
    /\ UNCHANGED <<hold, settle, announced, job, onWire, puts>>

TapNext ==
    \/ \E a \in Auths : \/ Authorize(a) \/ HoldEnds(a) \/ Reverse(a) \/ Capture(a)
                        \/ PutArrives(a) \/ PixSettles(a) \/ \E s \in Seen : Webhook(a, s)
    \/ \E as \in SUBSET Auths : ExpireNFCHolds(as)
    \/ \E w \in Goroutines : \/ \E a \in Auths : ManualRequired(w, a) \/ ProcessOne(w, a)
                          \/ Review(w) \/ MarkSubmitStarted(w) \/ CallEfi(w) \/ ApplyEfiAnswer(w)
                          \/ ApplyReported(w) \/ GoroutineStops(w)

TapSpec == TapInit /\ [][TapNext]_tapvars

-----------------------------------------------------------------------------
TapTypeOK ==
    /\ auth \in [Auths -> AuthStatus] /\ answer \in [Auths -> {"", "00", "05", "51", "error"}]
    /\ avail \in Nat /\ locked \in Nat
    /\ late \subseteq Auths /\ announced \subseteq Auths /\ onWire \subseteq Auths
    /\ settle \in [Auths -> SettlementRow] /\ job \in [Goroutines -> Job]
    /\ pixAt \in [Auths -> {"none", "accepted", "paid", "rejected"}] /\ puts \in [Auths -> Nat]

(* The critical ones that detectNFCSettlementIssues looks for every half   *)
(* minute, as far as a merchant and an amount do not matter to them.       *)
Issues ==
    {a \in Auths : auth[a] = "captured" /\ settle[a].st = "none"}
    \cup {a \in Auths : auth[a] # "captured" /\ settle[a].st # "none"}

(* Capture, reversal, expiry and the late capture move a hold once: what   *)
(* the wallet has, what is locked and what was captured add up, and money  *)
(* goes to a merchant for captured authorizations only.                    *)
In(s) == {a \in Auths : auth[a] = s}
HoldsAddUp ==
    /\ locked = Cardinality(In("approved"))
    /\ avail + locked + Cardinality(In("captured")) = Funds + Cardinality(HeldBefore)
    /\ Issues = {}

(* A merchant is paid once and the books say how it ended: one PUT per     *)
(* settlement, whatever times out, stops or is claimed again, and what is  *)
(* confirmed or rejected is what Efi did.                                  *)
OnePutPerSettlement == \A a \in Auths : puts[a] <= 1
SettledAsEfiDid == \A a \in Auths :
    /\ settle[a].st = "CONFIRMED" => pixAt[a] = "paid"
    /\ settle[a].st = "REJECTED" => pixAt[a] = "rejected"
SettlesOnce == OnePutPerSettlement /\ SettledAsEfiDid

(* ChainFX Tap: the wallet holds what is neither captured nor given back,  *)
(* and a capture is paid out once.                                         *)
TapBooksAreTrue == TapTypeOK /\ HoldsAddUp /\ SettlesOnce

=============================================================================
