-------------------------- MODULE CapabilityRoute --------------------------
(***************************************************************************)
(* One capability at its providers (server/marketplace_handlers.go from    *)
(* promoteRealCapabilityExecution on, database/marketplace.go): an         *)
(* execution, paid for and recorded with a made-up output, is run by the   *)
(* provider it was routed to or by the next active one.  Each statement    *)
(* after the first may fail unseen.  Latency is left out.                  *)
(***************************************************************************)
EXTENDS Naturals, Sequences, FiniteSets

CONSTANTS Events, Providers,
          Active,      \* providers with status active, the others are planned
          Adapter,     \* those with a real adapter
          Priority, Cost, Quality, Seed,   \* of each provider
          None

VARIABLES row,        \* marketplace_execution_events: provider, status
          rate,       \* marketplace_provider_policies.success_rate_bps
          job,        \* event -> what its request does
          answer,     \* event -> what the request was told
          repeats,    \* event -> what repeated requests were told
          ran,        \* external: <<event, provider>> that gave an output
          tried,      \* <<event, provider>> called
          samples,    \* <<event, provider, success>> recorded
          lost,       \* events a write of which failed or was never made
          unlisted    \* events whose list of candidates failed

vars == <<row, rate, job, answer, repeats, ran, tried, samples, lost, unlisted>>

Modes == {"best_available", "cheapest", "highest_quality"}
Idle == [at |-> "idle", first |-> None, mode |-> "best_available", left |-> <<>>, by |-> None]
NoRow == [provider |-> None, status |-> "none"]

Seeds == [p \in Providers |-> Seed[p]]

TypeOK ==
    /\ row \in [Events -> [provider : Providers \cup {None},
                           status : {"none", "completed", "real_completed", "mock_fallback"}]]
    /\ rate \in [Providers -> 0..10000]
    /\ \A e \in Events :
          /\ job[e].at \in {"idle", "call", "list", "try", "reassign", "complete", "metric", "end"}
          /\ \A i \in DOMAIN job[e].left : job[e].left[i] \in Active
    /\ ran \subseteq tried /\ tried \subseteq Events \X Providers
    /\ samples \subseteq Events \X Providers \X BOOLEAN

Init ==
    /\ row = [e \in Events |-> NoRow] /\ rate = Seeds
    /\ job = [e \in Events |-> Idle] /\ answer = [e \in Events |-> NoRow]
    /\ repeats = [e \in Events |-> {}]
    /\ ran = {} /\ tried = {} /\ samples = {} /\ lost = {} /\ unlisted = {}

-----------------------------------------------------------------------------
(* SortMarketplaceRouteCandidates: the keys of a mode, the active first.   *)
Rank(p) == IF p \in Active THEN 0 ELSE 1
Keys(p, mode) ==
    CASE mode = "cheapest" -> <<Rank(p), Cost[p], Priority[p]>>
      [] mode = "highest_quality" -> <<Rank(p), 100 - Quality[p], 10000 - rate[p], Priority[p]>>
      [] OTHER -> <<Rank(p), Priority[p], 10000 - rate[p]>>
Before(s, t) == \E i \in DOMAIN s : s[i] < t[i] /\ \A j \in 1..(i - 1) : s[j] = t[j]
Sorted(s, mode) == \A i, j \in DOMAIN s : i < j => ~Before(Keys(s[j], mode), Keys(s[i], mode))

(* The active candidates in order (RequireReal).                           *)
Candidates(mode) ==
    LET n == Cardinality(Active) IN
    {s \in [1..n -> Active] : (\A p \in Active : \E i \in 1..n : s[i] = p) /\ Sorted(s, mode)}

(* selectMarketplaceRouteTx: the first among those the request allows.     *)
Routed(p, wanted, real, mode) ==
    LET allowed == {q \in Providers : wanted \in {q, None} /\ (real => q \in Active)} IN
    p \in allowed /\ \A q \in allowed : ~Before(Keys(q, mode), Keys(p, mode))

-----------------------------------------------------------------------------
(* The execution is recorded, as completed, with what the mock says.       *)
Execute(e, p) ==
    /\ row[e] = NoRow
    /\ \E wanted \in Providers \cup {None}, real \in BOOLEAN, mode \in Modes :
          /\ Routed(p, wanted, real, mode)
          /\ job' = [job EXCEPT ![e] = [Idle EXCEPT !.at = "call", !.first = p, !.mode = mode]]
    /\ row' = [row EXCEPT ![e] = [provider |-> p, status |-> "completed"]]
    /\ UNCHANGED <<rate, answer, repeats, ran, tried, samples, lost, unlisted>>

(* A repeat is told what the row has, at any time.                         *)
Repeat(e) ==
    /\ row[e] # NoRow
    /\ repeats' = [repeats EXCEPT ![e] = @ \cup {row[e]}]
    /\ UNCHANGED <<row, rate, job, answer, ran, tried, samples, lost, unlisted>>

Goto(e, at, by) == job' = [job EXCEPT ![e] = [@ EXCEPT !.at = at, !.by = by]]

(* executeCapabilityProvider: only a provider with an adapter can answer.  *)
Called(e, p, ok) ==
    /\ ok => p \in Adapter
    /\ tried' = tried \cup {<<e, p>>}
    /\ ran' = IF ok THEN ran \cup {<<e, p>>} ELSE ran

Call(e) ==
    LET p == job[e].first IN
    /\ job[e].at = "call"
    /\ \E ok \in BOOLEAN :
          /\ Called(e, p, ok)
          /\ IF ok THEN Goto(e, "complete", p) ELSE Goto(e, "list", None)
    /\ UNCHANGED <<row, rate, answer, repeats, samples, lost, unlisted>>

(* Of the request only its mode is kept.                                   *)
List(e) ==
    /\ job[e].at = "list"
    /\ \E s \in Candidates(job[e].mode), fails \in BOOLEAN :
          /\ job' = [job EXCEPT ![e] = [@ EXCEPT !.at = "try", !.left = IF fails THEN <<>> ELSE s]]
          /\ unlisted' = IF fails THEN unlisted \cup {e} ELSE unlisted
    /\ UNCHANGED <<row, rate, answer, repeats, ran, tried, samples, lost>>

(* RecordMarketplaceProviderMetric                                         *)
SuccessAfter(r, ok) == (r * 9 + (IF ok THEN 10000 ELSE 0)) \div 10
Sample(e, p, ok) ==
    \/ /\ rate' = [rate EXCEPT ![p] = SuccessAfter(@, ok)]
       /\ samples' = samples \cup {<<e, p, ok>>} /\ UNCHANGED lost
    \/ lost' = lost \cup {e} /\ UNCHANGED <<rate, samples>>

Try(e) ==
    LET left == job[e].left
        Drop == job' = [job EXCEPT ![e] = [@ EXCEPT !.left = Tail(left)]]
    IN
    /\ job[e].at = "try"
    /\ \/ left = <<>> /\ Goto(e, "complete", None) /\ UNCHANGED <<rate, ran, tried, samples, lost>>
       \/ /\ left # <<>> /\ Head(left) = job[e].first
          /\ Drop /\ UNCHANGED <<rate, ran, tried, samples, lost>>
       \/ /\ left # <<>> /\ Head(left) # job[e].first
          /\ \/ /\ Called(e, Head(left), TRUE) /\ Goto(e, "reassign", Head(left))
                /\ UNCHANGED <<rate, samples, lost>>
             \/ Called(e, Head(left), FALSE) /\ Drop /\ Sample(e, Head(left), FALSE)
    /\ UNCHANGED <<row, answer, repeats, unlisted>>

\* Mutant: the row keeps the provider the execution was routed to.
FirstRouted(e) == job[e].first
Reassigned(e) == job[e].by

Write(e, written) ==
    \/ row' = [row EXCEPT ![e] = written] /\ UNCHANGED lost
    \/ lost' = lost \cup {e} /\ UNCHANGED row

Reassign(e) ==
    /\ job[e].at = "reassign"
    /\ Write(e, [row[e] EXCEPT !.provider = Reassigned(e)])
    /\ Goto(e, "complete", job[e].by)
    /\ UNCHANGED <<rate, answer, repeats, ran, tried, samples, unlisted>>

Status(e) == IF job[e].by = None THEN "mock_fallback" ELSE "real_completed"
Complete(e) ==
    /\ job[e].at = "complete"
    /\ Write(e, [row[e] EXCEPT !.status = Status(e)])
    /\ Goto(e, "metric", job[e].by)
    /\ UNCHANGED <<rate, answer, repeats, ran, tried, samples, unlisted>>

Metric(e) ==
    /\ job[e].at = "metric"
    /\ Sample(e, IF job[e].by = None THEN job[e].first ELSE job[e].by, job[e].by # None)
    /\ Goto(e, "end", job[e].by)
    /\ UNCHANGED <<row, answer, repeats, ran, tried, unlisted>>

Answer(e) ==
    /\ job[e].at = "end"
    /\ answer' = [answer EXCEPT ![e] = [status |-> Status(e),
                     provider |-> IF job[e].by = None THEN job[e].first ELSE job[e].by]]
    /\ job' = [job EXCEPT ![e] = Idle]
    /\ UNCHANGED <<row, rate, repeats, ran, tried, samples, lost, unlisted>>

(* The replica stops, or starts and writes the seeds over the policies.    *)
Stops(e) ==
    /\ job[e] # Idle
    /\ job' = [job EXCEPT ![e] = Idle] /\ lost' = lost \cup {e}
    /\ UNCHANGED <<row, rate, answer, repeats, ran, tried, samples, unlisted>>
Starts ==
    /\ rate # Seeds /\ rate' = Seeds
    /\ UNCHANGED <<row, job, answer, repeats, ran, tried, samples, lost, unlisted>>

Next ==
    \/ \E e \in Events :
          \/ \E p \in Providers : Execute(e, p)
          \/ Repeat(e) \/ Call(e) \/ List(e) \/ Try(e) \/ Reassign(e) \/ Complete(e)
          \/ Metric(e) \/ Answer(e) \/ Stops(e)
    \/ Starts

Spec == Init /\ [][Next]_vars

-----------------------------------------------------------------------------
(* An answer that names a provider as having really run an execution is    *)
(* true; so is what a repeat is told, unless a write of it was lost        *)
(* (marketplace_handlers.go:660-732).                                      *)
AnswersTellWhoRan ==
    \A e \in Events :
        /\ answer[e].status = "real_completed" => <<e, answer[e].provider>> \in ran
        /\ \A t \in repeats[e] : t.status = "real_completed" => e \in lost \/ <<e, t.provider>> \in ran

(* A made-up answer is given only when no active provider was left to ask. *)
MockMeansExhausted ==
    \A e \in Events :
        answer[e].status = "mock_fallback" =>
            e \in unlisted \/ \A p \in Active : <<e, p>> \in tried \ ran

(* An execution counts once for a provider, as a success only if it was    *)
(* one (marketplace.go:938-961).                                           *)
SamplesAreTrue ==
    \A s \in samples :
        /\ s[3] <=> <<s[1], s[2]>> \in ran
        /\ \A t \in samples : s[1] = t[1] /\ s[2] = t[2] => s = t
=============================================================================
