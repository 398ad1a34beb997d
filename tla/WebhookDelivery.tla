-------------------------- MODULE WebhookDelivery --------------------------
(***************************************************************************)
(* The automation webhooks (internal/webhooks, database/webhooks.go): the  *)
(* dispatcher turns an event of the bus into one or two triggers and puts  *)
(* a job per subscription into a bounded queue in memory, from which the   *)
(* workers deliver with retries.                                           *)
(***************************************************************************)
EXTENDS Naturals, Sequences, FiniteSets

CONSTANTS Events,      \* events of the bus, each handled by a goroutine of its own
          Triggers,    \* event -> the canonical names it is published under
          Subs,        \* subscriptions
          Listens,     \* subscription -> the names it asked for
          QueueSize, Workers, MaxRetries,
          None

VARIABLES row,         \* subscription -> its row in webhook_subscriptions
          emit,        \* event -> how far the dispatcher is with it
          said,        \* event -> the "event" entry of its payload, one map for all its jobs
          jobs,        \* the queue
          worker,      \* worker -> the job it has
          attempts,    \* job -> rows in webhook_deliveries
          ended,       \* job -> how it ended, or None
          got          \* what receivers got: the job, and the name in the body

vars == <<row, emit, said, jobs, worker, attempts, ended, got>>

\* the delivery of the n-th trigger of an event to a subscription
Jobs == {j \in [event : Events, n : 1..2, sub : Subs] : j.n <= Len(Triggers[j.event])}
Name(j) == Triggers[j.event][j.n]
Names == UNION {{Triggers[e][n] : n \in DOMAIN Triggers[e]} : e \in Events}
Free == [at |-> "idle", job |-> None, attempt |-> 0, ok |-> FALSE]

TypeOK ==
    /\ row \in [Subs -> [state : {"active", "inactive", "deleted"}, failures : Nat]]
    /\ emit \in [Events -> [at : {"new", "emit", "done"}, n : 0..2, todo : SUBSET Subs]]
    /\ said \in [Events -> Names \cup {None}]
    /\ jobs \in Seq(Jobs) /\ Len(jobs) <= QueueSize
    /\ worker \in [Workers -> [at : {"idle", "deliver", "record", "sleep"},
           job : Jobs \cup {None}, attempt : 0..MaxRetries, ok : BOOLEAN]]
    /\ attempts \in [Jobs -> 0..MaxRetries]
    /\ ended \in [Jobs -> {None, "ok", "failed", "dropped", "lost"}]
    /\ got \subseteq Jobs \X Names

Init ==
    /\ row = [s \in Subs |-> [state |-> "active", failures |-> 0]]
    /\ emit = [e \in Events |-> [at |-> "new", n |-> 0, todo |-> {}]]
    /\ said = [e \in Events |-> None]
    /\ jobs = <<>> /\ worker = [w \in Workers |-> Free]
    /\ attempts = [j \in Jobs |-> 0] /\ ended = [j \in Jobs |-> None] /\ got = {}

-----------------------------------------------------------------------------
Listening(name) == {s \in Subs : row[s].state = "active" /\ name \in Listens[s]}

(* handle goes to the next trigger when Emit is through with one: the      *)
(* subscriptions are listed, or not when the database fails, and the name  *)
(* is written into the payload that the jobs of the trigger before hold.   *)
Emit(e) ==
    LET n == emit[e].n + 1 IN
    /\ emit[e].at # "done" /\ emit[e].todo = {}
    /\ \/ /\ n <= Len(Triggers[e])
          /\ \/ /\ emit' = [emit EXCEPT ![e] = [at |-> "emit", n |-> n,
                                               todo |-> Listening(Triggers[e][n])]]
                /\ said' = [said EXCEPT ![e] = Triggers[e][n]]
             \/ /\ emit' = [emit EXCEPT ![e] = [at |-> "emit", n |-> n, todo |-> {}]]
                /\ UNCHANGED said
       \/ /\ n > Len(Triggers[e])
          /\ emit' = [emit EXCEPT ![e].at = "done"]
          /\ UNCHANGED said
    /\ UNCHANGED <<row, jobs, worker, attempts, ended, got>>

Enqueue(e, s) ==
    LET j == [event |-> e, n |-> emit[e].n, sub |-> s] IN
    /\ s \in emit[e].todo
    /\ emit' = [emit EXCEPT ![e].todo = @ \ {s}]
    /\ IF Len(jobs) < QueueSize
       THEN jobs' = Append(jobs, j) /\ UNCHANGED ended
       ELSE ended' = [ended EXCEPT ![j] = "dropped"] /\ UNCHANGED jobs
    /\ UNCHANGED <<row, said, worker, attempts, got>>

Take(w) ==
    /\ worker[w].at = "idle" /\ jobs # <<>>
    /\ worker' = [worker EXCEPT ![w] = [at |-> "deliver", job |-> Head(jobs),
                                        attempt |-> 1, ok |-> FALSE]]
    /\ jobs' = Tail(jobs)
    /\ UNCHANGED <<row, emit, said, attempts, ended, got>>

Body(j) == {said[j.event]}

(* deliverOnce: not sent when the address is refused or unreachable; what  *)
(* the receiver answers may be lost.  The row of the subscription is not   *)
(* read again.                                                             *)
DeliverOnce(w) ==
    LET j == worker[w].job IN
    /\ worker[w].at = "deliver"
    /\ \E ok \in BOOLEAN, sent \in BOOLEAN, body \in Body(j) :
          /\ ok => sent
          /\ got' = IF sent THEN got \cup {<<j, body>>} ELSE got
          /\ worker' = [worker EXCEPT ![w] = [@ EXCEPT !.at = "record", !.ok = ok]]
    /\ UNCHANGED <<row, emit, said, jobs, attempts, ended>>

(* RecordWebhookDelivery, which can only fail once the subscription is     *)
(* deleted, and the end of the loop of process.                            *)
Record(w) ==
    LET j == worker[w].job  ok == worker[w].ok IN
    /\ worker[w].at = "record"
    /\ IF row[j.sub].state = "deleted" THEN UNCHANGED <<row, attempts>>
       ELSE /\ attempts' = [attempts EXCEPT ![j] = @ + 1]
            /\ row' = [row EXCEPT ![j.sub].failures = IF ok THEN 0 ELSE @ + 1]
    /\ IF ok \/ worker[w].attempt = MaxRetries
       THEN /\ ended' = [ended EXCEPT ![j] = IF ok THEN "ok" ELSE "failed"]
            /\ worker' = [worker EXCEPT ![w] = Free]
       ELSE /\ worker' = [worker EXCEPT ![w].at = "sleep"]
            /\ UNCHANGED ended
    /\ UNCHANGED <<emit, said, jobs, got>>

Awake(w) ==
    /\ worker[w].at = "sleep"
    /\ worker' = [worker EXCEPT ![w].at = "deliver", ![w].attempt = @ + 1]
    /\ UNCHANGED <<row, emit, said, jobs, attempts, ended, got>>

(* SetWebhookSubscriptionActive and DeleteWebhookSubscription              *)
Change(s, state) ==
    /\ row[s].state \notin {state, "deleted"}
    /\ row' = [row EXCEPT ![s].state = state]
    /\ UNCHANGED <<emit, said, jobs, worker, attempts, ended, got>>

(* Where a job is before it has ended.                                     *)
Places(j) ==
    {<<"queue", i>> : i \in {i \in DOMAIN jobs : jobs[i] = j}} \cup
    {<<"worker", w>> : w \in {w \in Workers : worker[w].job = j}} \cup
    {<<"emit", n>> : n \in {n \in {emit[j.event].n} : n = j.n /\ j.sub \in emit[j.event].todo}}

(* The process stops: queue and payloads are gone, no event comes again.   *)
Crash ==
    /\ \E j \in Jobs : Places(j) # {}
    /\ ended' = [j \in Jobs |-> IF Places(j) # {} THEN "lost" ELSE ended[j]]
    /\ emit' = [e \in Events |-> IF emit[e].at = "emit"
                                 THEN [emit[e] EXCEPT !.at = "done", !.todo = {}] ELSE emit[e]]
    /\ jobs' = <<>> /\ worker' = [w \in Workers |-> Free]
    /\ UNCHANGED <<row, said, attempts, got>>

Next ==
    \/ \E e \in Events : Emit(e) \/ \E s \in Subs : Enqueue(e, s)
    \/ \E w \in Workers : Take(w) \/ DeliverOnce(w) \/ Record(w) \/ Awake(w)
    \/ \E s \in Subs, state \in {"active", "inactive", "deleted"} : Change(s, state)
    \/ Crash

Spec == Init /\ [][Next]_vars

-----------------------------------------------------------------------------
(* A receiver is told the name it subscribed to, in the header, and the    *)
(* body names the same trigger unless the event has two of them, whose     *)
(* jobs share one payload (webhooks.go:267-300).                           *)
TellsItsName ==
    \A g \in got : /\ Name(g[1]) \in Listens[g[1].sub]
                   /\ Len(Triggers[g[1].event]) = 1 => g[2] = Name(g[1])

(* A job is in one place or has ended; it is tried again only after a      *)
(* failure, and given up after as many tries as are allowed                *)
(* (retry_queue.go:70-133).                                                *)
EndsOnce ==
    /\ \A j \in Jobs :
          /\ Cardinality(Places(j)) <= IF ended[j] = None THEN 1 ELSE 0
          /\ ended[j] = "failed" /\ row[j.sub].state # "deleted" => attempts[j] = MaxRetries
    /\ \A w \in Workers : worker[w].at = "sleep" => ~worker[w].ok
=============================================================================
