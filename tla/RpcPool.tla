------------------------------ MODULE RpcPool ------------------------------
(***************************************************************************)
(* The pool of chain nodes (internal/rpc/pool.go): calls go round robin to *)
(* a healthy node, behind the circuit breaker of the node                  *)
(* (internal/resilience/circuit_breaker.go), and are repeated on another   *)
(* one (internal/resilience/retry.go).  The breaker's fields are under its *)
(* mutex, except the probe flag, which is atomic and taken after the lock. *)
(***************************************************************************)
EXTENDS Integers, FiniteSets

CONSTANTS NodeCount,        \* the nodes are 1..NodeCount, in the order of the URLs
          Calls,            \* goroutines inside Pool.Do
          MaxFailures,      \* consecutive failures that open a breaker
          HalfOpenSuccess,  \* successes that close it again
          MaxAttempts       \* of one call (2 * NodeCount + 1 in the code)

ASSUME PoolAssumption ==
    /\ {NodeCount, MaxFailures, HalfOpenSuccess, MaxAttempts} \subseteq Nat \ {0}

Nodes == 1..NodeCount

VARIABLES circuit,   \* node -> "closed", "open" or "half-open"
          failures, successes, probeInFlight,
          elapsed,   \* node -> ResetTimeout has passed since lastTrip
          healthy, disabled,
          idx,       \* the last position of the round robin
          call       \* goroutine -> where it is

vars == <<circuit, failures, successes, probeInFlight, elapsed, healthy, disabled, idx, call>>
breakers == <<circuit, failures, successes, probeInFlight, elapsed>>

NoNode == 0
Idle == [at |-> "idle", node |-> NoNode, last |-> NoNode, left |-> 0, attempt |-> 1,
         err |-> "none"]

TypeOK ==
    /\ circuit \in [Nodes -> {"closed", "open", "half-open"}]
    /\ failures \in [Nodes -> 0..MaxFailures] /\ successes \in [Nodes -> 0..HalfOpenSuccess]
    /\ {probeInFlight, elapsed, healthy, disabled} \subseteq [Nodes -> BOOLEAN]
    /\ idx \in Nodes
    /\ call \in [Calls -> [at : {"idle", "look", "allow", "cas", "run", "record",
                                 "after"},
                           node : Nodes \cup {NoNode}, last : Nodes \cup {NoNode},
                           left : 0..NodeCount, attempt : 1..MaxAttempts,
                           err : {"none", "retryable", "definite"}]]
    \* a call that reached a node's breaker knows the node
    /\ \A c \in Calls : call[c].at \in {"allow", "cas", "run", "record", "after"}
                            => call[c].node \in Nodes

Init ==
    /\ circuit = [n \in Nodes |-> "closed"]
    /\ failures = [n \in Nodes |-> 0] /\ successes = [n \in Nodes |-> 0]
    /\ probeInFlight = [n \in Nodes |-> FALSE] /\ elapsed = [n \in Nodes |-> FALSE]
    /\ healthy = [n \in Nodes |-> TRUE] /\ disabled = [n \in Nodes |-> FALSE]
    /\ idx = 1
    /\ call = [c \in Calls |-> Idle]

\* an attempt begins
Looking(last, attempt) == [at |-> "look", node |-> NoNode, last |-> last, left |-> NodeCount,
                           attempt |-> attempt, err |-> "none"]

Goto(c, at) == call' = [call EXCEPT ![c] = [@ EXCEPT !.at = at]]
Fails(c, at, err) == call' = [call EXCEPT ![c] = [@ EXCEPT !.at = at, !.err = err]]

-----------------------------------------------------------------------------
(* The breaker                                                             *)

(* The flag is cleared on each change of a half-open breaker.  Mutant: it  *)
(* is only ever set.                                                       *)
ProbeIsKept(n) == UNCHANGED probeInFlight
ReleaseProbe(n) == probeInFlight' = [probeInFlight EXCEPT ![n] = FALSE]

MayProbe(n) == circuit[n] = "open" /\ elapsed[n]

(* maybeTransitionToHalfOpen, with the lock held; GetState and allow.      *)
MaybeTransitionToHalfOpen(n) ==
    IF MayProbe(n)
    THEN /\ circuit' = [circuit EXCEPT ![n] = "half-open"]
         /\ successes' = [successes EXCEPT ![n] = 0]
         /\ ReleaseProbe(n)
         /\ UNCHANGED <<failures, elapsed>>
    ELSE UNCHANGED breakers

StateAfter(n) == IF MayProbe(n) THEN "half-open" ELSE circuit[n]

(* allow: the state is read under the lock and acted on after it.          *)
Allow(c) ==
    LET n == call[c].node IN
    /\ call[c].at = "allow"
    /\ MaybeTransitionToHalfOpen(n)
    /\ \/ StateAfter(n) = "closed" /\ Goto(c, "run")
       \/ StateAfter(n) = "open" /\ Fails(c, "after", "retryable")
       \/ StateAfter(n) = "half-open" /\ Goto(c, "cas")
    /\ UNCHANGED <<healthy, disabled, idx>>

TakeProbe(c) ==
    LET n == call[c].node IN
    /\ call[c].at = "cas"
    /\ IF probeInFlight[n] THEN Fails(c, "after", "retryable") ELSE Goto(c, "run")
    /\ probeInFlight' = [probeInFlight EXCEPT ![n] = TRUE]
    /\ UNCHANGED <<circuit, failures, successes, elapsed, healthy, disabled, idx>>

Trip(n) == /\ circuit' = [circuit EXCEPT ![n] = "open"]
           /\ elapsed' = [elapsed EXCEPT ![n] = FALSE]

OnSuccess(n) ==
    /\ failures' = [failures EXCEPT ![n] = 0]
    /\ UNCHANGED elapsed
    /\ IF circuit[n] = "half-open"
       THEN LET closes == successes[n] + 1 >= HalfOpenSuccess IN
            /\ ReleaseProbe(n)
            /\ successes' = [successes EXCEPT ![n] = IF closes THEN 0 ELSE @ + 1]
            /\ circuit' = [circuit EXCEPT ![n] = IF closes THEN "closed" ELSE @]
       ELSE UNCHANGED <<probeInFlight, successes, circuit>>

\* the count is only compared with MaxFailures, and stops there
OnFailure(n) ==
    IF circuit[n] = "half-open"
    THEN /\ ReleaseProbe(n)
         /\ Trip(n)
         /\ successes' = [successes EXCEPT ![n] = 0]
         /\ UNCHANGED failures
    ELSE /\ failures' = [failures EXCEPT ![n] = IF @ < MaxFailures THEN @ + 1 ELSE @]
         /\ UNCHANGED <<probeInFlight, successes>>
         /\ IF failures[n] + 1 >= MaxFailures /\ circuit[n] # "open"
            THEN Trip(n) ELSE UNCHANGED <<circuit, elapsed>>

(* record; the pool's IgnoreError is not kept by NewCircuitBreaker, so     *)
(* every error counts.                                                     *)
Record(c) ==
    LET n == call[c].node IN
    /\ call[c].at = "record"
    /\ \/ call[c].err = "none" /\ OnSuccess(n)
       \/ call[c].err # "none" /\ OnFailure(n)
    /\ Goto(c, "after")
    /\ UNCHANGED <<healthy, disabled, idx>>

ResetTimeoutPasses(n) ==
    /\ circuit[n] = "open" /\ ~elapsed[n]
    /\ elapsed' = [elapsed EXCEPT ![n] = TRUE]
    /\ UNCHANGED <<circuit, failures, successes, probeInFlight, healthy, disabled, idx, call>>

-----------------------------------------------------------------------------
(* Pool.Do                                                                 *)

Begin(c) ==
    /\ call[c].at = "idle"
    /\ call' = [call EXCEPT ![c] = Looking(NoNode, 1)]
    /\ UNCHANGED <<breakers, healthy, disabled, idx>>

\* Mutant: the node of the last attempt is not left out.
NothingExcluded(c, n) == FALSE
Excluded(c, n) == n = call[c].last /\ NodeCount > 1
Usable(c, n) == ~Excluded(c, n) /\ ~disabled[n] /\ healthy[n]
Passed(c) == [call[c] EXCEPT !.left = @ - 1]
Chosen(c, n) == [call[c] EXCEPT !.at = "allow", !.node = n, !.left = 0]

(* One turn of the first loop of pickExcluding; GetState may move the      *)
(* breaker of a node that is then not chosen.                              *)
Look(c) ==
    LET n == (idx % NodeCount) + 1 IN
    /\ call[c].at = "look" /\ call[c].left > 0
    /\ idx' = n
    /\ IF Usable(c, n) THEN MaybeTransitionToHalfOpen(n) ELSE UNCHANGED breakers
    /\ call' = [call EXCEPT ![c] = IF Usable(c, n) /\ StateAfter(n) # "open"
                                   THEN Chosen(c, n) ELSE Passed(c)]
    /\ UNCHANGED <<healthy, disabled>>

(* The second loop, in the order of the URLs, and the first node when it   *)
(* finds none.                                                             *)
Fallback(c) ==
    LET found == {n \in Nodes : ~disabled[n] /\ n # call[c].last}
        First(n) == IF found = {} THEN n = 1 ELSE n \in found /\ \A m \in found : n <= m
    IN /\ call[c].at = "look" /\ call[c].left = 0
       /\ \E n \in Nodes : First(n) /\ call' = [call EXCEPT ![c] = Chosen(c, n)]
       /\ UNCHANGED <<breakers, healthy, disabled, idx>>

(* The request itself: a dial that fails makes the node unhealthy, an      *)
(* answer makes it healthy, and an exhausted plan takes it out for ever.   *)
Run(c) ==
    LET n == call[c].node IN
    /\ call[c].at = "run"
    /\ \/ \* no connection
          /\ healthy' = [healthy EXCEPT ![n] = FALSE]
          /\ Fails(c, "record", "retryable") /\ UNCHANGED disabled
       \/ \* an answer
          /\ healthy' = [healthy EXCEPT ![n] = TRUE]
          /\ Fails(c, "record", "none") /\ UNCHANGED disabled
       \/ \* rpcCapacityExhausted
          /\ disabled' = [disabled EXCEPT ![n] = TRUE]
          /\ healthy' = [healthy EXCEPT ![n] = disabled[n] /\ @]
          /\ Fails(c, "record", "retryable")
       \/ \* any other error
          /\ \E e \in {"retryable", "definite"} : Fails(c, "record", e)
          /\ UNCHANGED <<healthy, disabled>>
    /\ UNCHANGED <<breakers, idx>>

(* DoWithContext: the call ends, or waits and begins an attempt that       *)
(* leaves out the node it has just used; the caller's context may end it.  *)
After(c) ==
    LET again == call[c].err = "retryable" /\ call[c].attempt < MaxAttempts IN
    /\ call[c].at = "after"
    /\ \/ call' = [call EXCEPT ![c] = Idle]
       \/ /\ again
          /\ call' = [call EXCEPT ![c] = 
                          Looking(call[c].node, call[c].attempt + 1)]
    /\ UNCHANGED <<breakers, healthy, disabled, idx>>

(* probeAll, every 30 seconds: a node that is not disabled is asked for    *)
(* its block number.                                                       *)
Probe(n) ==
    /\ ~disabled[n]
    /\ \/ \E up \in BOOLEAN : healthy' = [healthy EXCEPT ![n] = up] /\ UNCHANGED disabled
       \/ /\ healthy' = [healthy EXCEPT ![n] = FALSE]
          /\ disabled' = [disabled EXCEPT ![n] = TRUE]
    /\ UNCHANGED <<breakers, idx, call>>

Next ==
    \/ \E c \in Calls : \/ Begin(c) \/ Look(c) \/ Fallback(c) \/ Allow(c) \/ TakeProbe(c)
                        \/ Run(c) \/ Record(c) \/ After(c)
    \/ \E n \in Nodes : ResetTimeoutPasses(n) \/ Probe(n)

Spec == Init /\ [][Next]_vars

-----------------------------------------------------------------------------
(* A half-open breaker whose probe flag is set has a call that will clear  *)
(* it: no order of a flag taken outside the lock, and of results recorded  *)
(* under it, leaves a node refused for ever (circuit_breaker.go:112-128).  *)
Admitted(n) == {c \in Calls : call[c].node = n /\ call[c].at \in {"run", "record"}}
ProbeIsNeverStuck ==
    \A n \in Nodes : circuit[n] = "half-open" /\ probeInFlight[n] => Admitted(n) # {}

(* An attempt goes to another node than the one before it, unless every    *)
(* other node is out of capacity (pickExcluding), whatever becomes         *)
(* unhealthy or open meanwhile.                                            *)
RetriesElsewhere ==
    \A c \in Calls : call[c].at \in {"allow", "cas", "run", "record"}
        /\ call[c].node = call[c].last => \A m \in Nodes \ {call[c].last} : disabled[m]
=============================================================================
