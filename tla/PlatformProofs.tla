-------------------------- MODULE PlatformProofs ---------------------------
(***************************************************************************)
(* No half-open breaker of the pool keeps its probe flag with nobody to    *)
(* clear it, and an attempt leaves out the node of the one before it, for  *)
(* any number of nodes, calls and thresholds.  Then more components of the *)
(* platform: a sweep, or a swap through the signer, moves its money at     *)
(* most once, a BUY is charged once on the terms of its quote, an event    *)
(* reaches its subscribers once, a deleted account stays gone, who is      *)
(* verified was approved, a ban is kept, a capability's answer tells who   *)
(* ran it, the liquidity router who paid, the MCP server what is stored,   *)
(* and a webhook ends once, for any number of rows, requests and           *)
(* goroutines.                                                             *)
(***************************************************************************)
EXTENDS RpcPool, FiniteSetTheorems, SequenceTheorems, WellFoundedInduction, TLAPS

Stages == {"idle", "look", "allow", "cas", "run", "record", "after"}
CallRecord == [at : Stages, node : Nodes \cup {NoNode}, last : Nodes \cup {NoNode},
               left : 0..NodeCount, attempt : 1..MaxAttempts,
               err : {"none", "retryable", "definite"}]
Reached == {"allow", "cas", "run", "record", "after"}

(* What TypeOK says, in two parts that are used apart.                     *)
BreakersTyped ==
    /\ circuit \in [Nodes -> {"closed", "open", "half-open"}]
    /\ failures \in [Nodes -> 0..MaxFailures]
    /\ successes \in [Nodes -> 0..HalfOpenSuccess]
    /\ probeInFlight \in [Nodes -> BOOLEAN] /\ elapsed \in [Nodes -> BOOLEAN]
    /\ healthy \in [Nodes -> BOOLEAN] /\ disabled \in [Nodes -> BOOLEAN]
    /\ idx \in Nodes
CallsTyped ==
    /\ call \in [Calls -> CallRecord]
    /\ \A c \in Calls : call[c].at \in Reached => call[c].node \in Nodes

LEMMA TypeParts == TypeOK <=> BreakersTyped /\ CallsTyped
  BY SMT DEF TypeOK, BreakersTyped, CallsTyped, CallRecord, Stages, Reached

LEMMA Constants == /\ NodeCount \in Nat /\ NodeCount > 0
                   /\ MaxFailures \in Nat /\ MaxFailures > 0
                   /\ HalfOpenSuccess \in Nat /\ HalfOpenSuccess > 0
                   /\ MaxAttempts \in Nat /\ MaxAttempts > 0
  BY SMT, PoolAssumption

LEMMA FirstNode == 1 \in Nodes /\ NoNode \notin Nodes /\ Nodes \subseteq Nat
  BY SMT, Constants DEF Nodes, NoNode

LEMMA IdleTyped == Idle \in CallRecord
  BY SMT, Constants, FirstNode DEF Idle, CallRecord, Stages, NoNode

(* Every change of a call's record: it moves, with a node when it must     *)
(* have one.                                                               *)
LEMMA OneCallMoves ==
  ASSUME CallsTyped, NEW c \in Calls, NEW r \in CallRecord,
         r.at \in Reached => r.node \in Nodes,
         call' = [call EXCEPT ![c] = r]
  PROVE  CallsTyped'
  BY SMT DEF CallsTyped

LEMMA Moved ==
  ASSUME NEW r \in CallRecord, NEW at \in Stages,
         NEW err \in {"none", "retryable", "definite"}
  PROVE  /\ [r EXCEPT !.at = at] \in CallRecord
         /\ [r EXCEPT !.at = at, !.err = err] \in CallRecord
         /\ [r EXCEPT !.at = at].node = r.node
         /\ [r EXCEPT !.at = at, !.err = err].node = r.node
<1>1. [r EXCEPT !.at = at] \in CallRecord /\ [r EXCEPT !.at = at].node = r.node
  BY SMT DEF CallRecord
<1>2. [r EXCEPT !.at = at, !.err = err] \in CallRecord
  <2>1. \A q \in CallRecord : [q EXCEPT !.err = err] \in CallRecord
    BY SMT DEF CallRecord
  <2>2. [r EXCEPT !.at = at, !.err = err] = [[r EXCEPT !.at = at] EXCEPT !.err = err]
    BY SMT DEF CallRecord
  <2>. QED BY <1>1, <2>1, <2>2
<1>3. [r EXCEPT !.at = at, !.err = err].node = r.node
  BY SMT DEF CallRecord
<1>. QED BY <1>1, <1>2, <1>3

LEMMA GotoTyped ==
  ASSUME CallsTyped, NEW c \in Calls, NEW at \in Stages, NEW err,
         err \in {"none", "retryable", "definite"}, call[c].node \in Nodes,
         \/ Goto(c, at) \/ Fails(c, at, err)
  PROVE  CallsTyped'
<1> DEFINE r == [call[c] EXCEPT !.at = at]
           s == [call[c] EXCEPT !.at = at, !.err = err]
<1>1. call[c] \in CallRecord
  BY SMT DEF CallsTyped
<1>2. r \in CallRecord /\ s \in CallRecord /\ r.node \in Nodes /\ s.node \in Nodes
  BY <1>1, Moved
<1>3. CASE Goto(c, at)
  <2>1. call' = [call EXCEPT ![c] = r]
    BY <1>3, SMT DEF Goto, CallsTyped
  <2>. QED BY <2>1, <1>2, OneCallMoves
<1>4. CASE Fails(c, at, err)
  <2>1. call' = [call EXCEPT ![c] = s]
    BY <1>4, SMT DEF Fails, CallsTyped
  <2>. QED BY <2>1, <1>2, OneCallMoves
<1>. QED BY <1>3, <1>4

LEMMA StateAfterTyped ==
  ASSUME BreakersTyped, NEW n \in Nodes
  PROVE  StateAfter(n) \in {"closed", "open", "half-open"}
  BY SMT DEF BreakersTyped, StateAfter

-----------------------------------------------------------------------------
(* The helpers on a breaker keep it typed.                                 *)

BreakerStep(n) ==
    /\ circuit' \in [Nodes -> {"closed", "open", "half-open"}]
    /\ failures' \in [Nodes -> 0..MaxFailures]
    /\ successes' \in [Nodes -> 0..HalfOpenSuccess]
    /\ probeInFlight' \in [Nodes -> BOOLEAN] /\ elapsed' \in [Nodes -> BOOLEAN]
    \* only breaker n changes, and the flag is clear when it is half-open
    /\ \A m \in Nodes \ {n} : circuit'[m] = circuit[m] /\ probeInFlight'[m] = probeInFlight[m]

LEMMA FlagCleared ==
  ASSUME BreakersTyped, NEW n \in Nodes, probeInFlight' = [probeInFlight EXCEPT ![n] = FALSE]
  PROVE  /\ probeInFlight' \in [Nodes -> BOOLEAN] /\ ~probeInFlight'[n]
         /\ \A m \in Nodes \ {n} : probeInFlight'[m] = probeInFlight[m]
  BY Zenon DEF BreakersTyped

LEMMA CircuitSet ==
  ASSUME BreakersTyped, NEW n \in Nodes, NEW k \in {"closed", "open", "half-open"},
         circuit' = [circuit EXCEPT ![n] = k]
  PROVE  /\ circuit' \in [Nodes -> {"closed", "open", "half-open"}] /\ circuit'[n] = k
         /\ \A m \in Nodes \ {n} : circuit'[m] = circuit[m]
  BY Zenon DEF BreakersTyped

LEMMA CountSet ==
  ASSUME BreakersTyped, NEW n \in Nodes, NEW k \in 0..HalfOpenSuccess,
         successes' = [successes EXCEPT ![n] = k]
  PROVE  successes' \in [Nodes -> 0..HalfOpenSuccess]
  BY Zenon DEF BreakersTyped

LEMMA Zeros == 0 \in 0..HalfOpenSuccess /\ 0 \in 0..MaxFailures
  BY SMT, Constants

LEMMA TransitionTyped ==
  ASSUME BreakersTyped, NEW n \in Nodes, MaybeTransitionToHalfOpen(n)
  PROVE  BreakerStep(n) /\ (circuit'[n] = "half-open" /\ probeInFlight'[n]
                                => circuit[n] = "half-open" /\ probeInFlight[n])
<1>1. CASE MayProbe(n)
  <2>1. /\ circuit' = [circuit EXCEPT ![n] = "half-open"]
        /\ successes' = [successes EXCEPT ![n] = 0]
        /\ probeInFlight' = [probeInFlight EXCEPT ![n] = FALSE]
        /\ failures' = failures /\ elapsed' = elapsed
    BY <1>1, Zenon DEF MaybeTransitionToHalfOpen, ReleaseProbe
  <2>. QED BY <2>1, FlagCleared, CircuitSet, CountSet, Zeros, Zenon DEF BreakersTyped, BreakerStep
<1>2. CASE ~MayProbe(n)
  <2>1. breakers' = breakers
    BY <1>2, Zenon DEF MaybeTransitionToHalfOpen
  <2>. QED BY <2>1, Zenon DEF BreakersTyped, BreakerStep, breakers
<1>. QED BY <1>1, <1>2

LEMMA SuccessTyped ==
  ASSUME BreakersTyped, NEW n \in Nodes, OnSuccess(n)
  PROVE  BreakerStep(n) /\ ~(circuit'[n] = "half-open" /\ probeInFlight'[n])
<1>1. failures' = [failures EXCEPT ![n] = 0] /\ elapsed' = elapsed
  BY Zenon DEF OnSuccess
<1>2. failures' \in [Nodes -> 0..MaxFailures] /\ elapsed' \in [Nodes -> BOOLEAN]
  BY <1>1, Zeros, Zenon DEF BreakersTyped
<1>3. CASE circuit[n] = "half-open"
  <2>. DEFINE closes == successes[n] + 1 >= HalfOpenSuccess
              k == IF closes THEN "closed" ELSE circuit[n]
              s == IF closes THEN 0 ELSE successes[n] + 1
  <2>1. /\ probeInFlight' = [probeInFlight EXCEPT ![n] = FALSE]
        /\ circuit' = [circuit EXCEPT ![n] = k] /\ successes' = [successes EXCEPT ![n] = s]
    BY <1>3, Zenon DEF OnSuccess, ReleaseProbe
  <2>2. k \in {"closed", "open", "half-open"}
    BY Zenon DEF BreakersTyped
  <2>3. successes[n] \in 0..HalfOpenSuccess
    BY Zenon DEF BreakersTyped
  <2>4. s \in 0..HalfOpenSuccess
    BY <2>3, SMT, Constants
  <2>. HIDE DEF k, s
  <2>. QED BY <1>2, <2>1, <2>2, <2>4, FlagCleared, CircuitSet, CountSet, Zenon DEF BreakerStep
<1>4. CASE circuit[n] # "half-open"
  <2>1. /\ probeInFlight' = probeInFlight /\ successes' = successes /\ circuit' = circuit
    BY <1>4, Zenon DEF OnSuccess
  <2>. QED BY <1>2, <1>4, <2>1, Zenon DEF BreakersTyped, BreakerStep
<1>. QED BY <1>3, <1>4

LEMMA FailureTyped ==
  ASSUME BreakersTyped, NEW n \in Nodes, OnFailure(n)
  PROVE  BreakerStep(n) /\ ~(circuit'[n] = "half-open" /\ probeInFlight'[n])
<1>1. CASE circuit[n] = "half-open"
  <2>1. /\ probeInFlight' = [probeInFlight EXCEPT ![n] = FALSE]
        /\ circuit' = [circuit EXCEPT ![n] = "open"]
        /\ elapsed' = [elapsed EXCEPT ![n] = FALSE]
        /\ successes' = [successes EXCEPT ![n] = 0] /\ failures' = failures
    BY <1>1, Zenon DEF OnFailure, Trip, ReleaseProbe
  <2>. QED BY <2>1, FlagCleared, CircuitSet, CountSet, Zeros, Zenon DEF BreakersTyped, BreakerStep
<1>2. CASE circuit[n] # "half-open"
  <2>1. failures' \in [Nodes -> 0..MaxFailures]
    BY <1>2, SMT, Constants DEF BreakersTyped, OnFailure
  <2>2. probeInFlight' = probeInFlight /\ successes' = successes
    BY <1>2, Zenon DEF OnFailure
  <2>3. \/ circuit' = circuit /\ elapsed' = elapsed
        \/ /\ circuit' = [circuit EXCEPT ![n] = "open"]
           /\ elapsed' = [elapsed EXCEPT ![n] = FALSE]
    BY <1>2, Zenon DEF OnFailure, Trip
  <2>4. /\ circuit' \in [Nodes -> {"closed", "open", "half-open"}] /\ circuit'[n] # "half-open"
        /\ \A m \in Nodes \ {n} : circuit'[m] = circuit[m]
    BY <1>2, <2>3, CircuitSet, Zenon DEF BreakersTyped
  <2>. QED BY <2>1, <2>2, <2>3, <2>4, Zenon DEF BreakersTyped, BreakerStep
<1>. QED BY <1>1, <1>2

-----------------------------------------------------------------------------
(* The invariant: every step of a call leaves the flag with its holder.    *)

PoolInv == TypeOK /\ ProbeIsNeverStuck

(* A step that changes no circuit and no flag, and takes no call from "run" *)
(* or "record" out of them.                                                *)
LEMMA StillAdmitted ==
  ASSUME ProbeIsNeverStuck, UNCHANGED <<circuit, probeInFlight>>,
         \A d \in Calls : call[d].at \in {"run", "record"}
             => call'[d].at \in {"run", "record"} /\ call'[d].node = call[d].node
  PROVE  ProbeIsNeverStuck'
  BY Zenon DEF ProbeIsNeverStuck, Admitted

(* A step of the breaker of n by a call that is not admitted before it.    *)
LEMMA BreakerMoves ==
  ASSUME ProbeIsNeverStuck, NEW n \in Nodes, BreakerStep(n),
         circuit'[n] = "half-open" /\ probeInFlight'[n]
            => circuit[n] = "half-open" /\ probeInFlight[n],
         \A d \in Calls : call[d].at \in {"run", "record"}
             => call'[d].at \in {"run", "record"} /\ call'[d].node = call[d].node
  PROVE  ProbeIsNeverStuck'
<1>1. SUFFICES ASSUME NEW m \in Nodes, circuit'[m] = "half-open", probeInFlight'[m]
               PROVE  \E d \in Calls : call'[d].node = m /\ call'[d].at \in {"run", "record"}
  BY Zenon DEF ProbeIsNeverStuck, Admitted
<1>2. circuit[m] = "half-open" /\ probeInFlight[m]
  BY <1>1, Zenon DEF BreakerStep
<1>3. PICK d \in Calls : call[d].node = m /\ call[d].at \in {"run", "record"}
  BY <1>2, Zenon DEF ProbeIsNeverStuck, Admitted
<1>. QED BY <1>3

LEMMA OthersStay ==
  ASSUME CallsTyped, NEW c \in Calls, call[c].at \notin {"run", "record"},
         NEW r, call' = [call EXCEPT ![c] = r]
  PROVE  \A d \in Calls : call[d].at \in {"run", "record"}
             => call'[d].at \in {"run", "record"} /\ call'[d].node = call[d].node
  BY Zenon DEF CallsTyped

LEMMA PoolInit == Init => PoolInv
<1>. SUFFICES ASSUME Init PROVE PoolInv
  OBVIOUS
<1>1. BreakersTyped
  BY SMT, Constants, FirstNode DEF Init, BreakersTyped
<1>2. CallsTyped
  BY IdleTyped, SMT DEF Init, CallsTyped, Idle, Reached
<1>3. ProbeIsNeverStuck
  BY Zenon DEF Init, ProbeIsNeverStuck
<1>. QED BY <1>1, <1>2, <1>3, TypeParts DEF PoolInv

-----------------------------------------------------------------------------
(* One lemma per action.                                                   *)

Ready == BreakersTyped /\ CallsTyped /\ ProbeIsNeverStuck
Rest == <<healthy, disabled, idx>>

LEMMA BreakerStepTyped ==
  ASSUME BreakersTyped, NEW n \in Nodes, BreakerStep(n), UNCHANGED <<healthy, disabled>>,
         idx' \in Nodes
  PROVE  BreakersTyped'
  BY Zenon DEF BreakersTyped, BreakerStep

LEMMA BreakersStay ==
  ASSUME BreakersTyped, UNCHANGED breakers, healthy' \in [Nodes -> BOOLEAN],
         disabled' \in [Nodes -> BOOLEAN], idx' \in Nodes
  PROVE  BreakersTyped' /\ UNCHANGED <<circuit, probeInFlight>>
  BY Zenon DEF BreakersTyped, breakers

(* A step of a call outside the request that leaves the breakers alone.    *)
LEMMA CallSteps ==
  ASSUME Ready, NEW c \in Calls, NEW r \in CallRecord, r.at \in Reached => r.node \in Nodes,
         call[c].at \notin {"run", "record"}, call' = [call EXCEPT ![c] = r],
         UNCHANGED breakers, UNCHANGED <<healthy, disabled>>, idx' \in Nodes
  PROVE  Ready'
<1>1. BreakersTyped' /\ UNCHANGED <<circuit, probeInFlight>>
  BY BreakersStay, Zenon DEF Ready, BreakersTyped
<1>2. CallsTyped'
  BY OneCallMoves DEF Ready
<1>3. ProbeIsNeverStuck'
  BY <1>1, OthersStay, StillAdmitted, Zenon DEF Ready
<1>. QED BY <1>1, <1>2, <1>3 DEF Ready

LEMMA RecordOf ==
  ASSUME CallsTyped, NEW c \in Calls
  PROVE  call[c] \in CallRecord /\ (call[c].at \in Reached => call[c].node \in Nodes)
  BY Zenon DEF CallsTyped

LEMMA LookingTyped ==
  ASSUME NEW last \in Nodes \cup {NoNode}, NEW attempt \in 1..MaxAttempts
  PROVE  Looking(last, attempt) \in CallRecord /\ Looking(last, attempt).at \notin Reached
  BY SMT, Constants DEF Looking, CallRecord, Stages, Reached

LEMMA BeginKeeps ==
  ASSUME Ready, NEW c \in Calls, Begin(c)
  PROVE  Ready'
<1>. DEFINE r == Looking(NoNode, 1)
<1>1. r \in CallRecord /\ r.at \notin Reached
  BY LookingTyped, SMT, Constants
<1>2. call' = [call EXCEPT ![c] = r] /\ call[c].at = "idle"
  BY Zenon DEF Begin
<1>3. UNCHANGED breakers /\ UNCHANGED <<healthy, disabled>> /\ idx' \in Nodes
  BY Zenon DEF Begin, Ready, BreakersTyped, breakers
<1>. HIDE DEF r
<1>. QED BY <1>1, <1>2, <1>3, CallSteps

LEMMA ChosenTyped ==
  ASSUME CallsTyped, NEW c \in Calls, NEW n \in Nodes
  PROVE  Chosen(c, n) \in CallRecord /\ Chosen(c, n).node = n /\ Chosen(c, n).at = "allow"
<1>1. call[c] \in CallRecord
  BY RecordOf
<1>. DEFINE r == [call[c] EXCEPT !.at = "allow"]
            s == [r EXCEPT !.node = n]
<1>2. r \in CallRecord /\ r.at = "allow"
  BY <1>1, SMT DEF CallRecord, Stages
<1>. HIDE DEF r
<1>3. s \in CallRecord /\ s.node = n /\ s.at = "allow"
  BY <1>2, SMT DEF CallRecord
<1>. HIDE DEF s
<1>4. [s EXCEPT !.left = 0] \in CallRecord /\ [s EXCEPT !.left = 0].node = n
      /\ [s EXCEPT !.left = 0].at = "allow"
  BY <1>3, SMT, Constants DEF CallRecord
<1>5. Chosen(c, n) = [s EXCEPT !.left = 0]
  BY <1>1, SMT DEF Chosen, CallRecord, r, s
<1>. QED BY <1>4, <1>5

LEMMA LookKeeps ==
  ASSUME Ready, NEW c \in Calls, Look(c)
  PROVE  Ready'
<1>. DEFINE n == (idx % NodeCount) + 1
            r == IF Usable(c, n) /\ StateAfter(n) # "open" THEN Chosen(c, n) ELSE Passed(c)
<1>1. n \in Nodes
  BY SMT, Constants DEF Nodes, Ready, BreakersTyped
<1>2. /\ call' = [call EXCEPT ![c] = r] /\ call[c].at = "look" /\ call[c].left > 0
      /\ idx' = n /\ UNCHANGED <<healthy, disabled>>
      /\ IF Usable(c, n) THEN MaybeTransitionToHalfOpen(n) ELSE UNCHANGED breakers
  BY Zenon DEF Look
<1>3. r \in CallRecord /\ (r.at \in Reached => r.node \in Nodes)
  <2>1. call[c] \in CallRecord
    BY RecordOf DEF Ready
  <2>2. Passed(c) \in CallRecord /\ Passed(c).at = "look"
    BY <1>2, <2>1, SMT, Constants DEF CallRecord, Passed
  <2>3. "look" \notin Reached
    BY SMT DEF Reached
  <2>4. Chosen(c, n) \in CallRecord /\ Chosen(c, n).node = n
    BY <1>1, ChosenTyped DEF Ready
  <2>. QED BY <1>1, <2>2, <2>3, <2>4, Zenon
<1>. HIDE DEF n, r
<1>4. CASE Usable(c, n)
  <2>1. BreakerStep(n) /\ (circuit'[n] = "half-open" /\ probeInFlight'[n]
                               => circuit[n] = "half-open" /\ probeInFlight[n])
    BY <1>1, <1>2, <1>4, TransitionTyped, Zenon DEF Ready
  <2>2. BreakersTyped'
    BY <1>1, <1>2, <2>1, BreakerStepTyped DEF Ready
  <2>3. CallsTyped'
    BY <1>2, <1>3, OneCallMoves DEF Ready
  <2>4. call[c].at \notin {"run", "record"}
    BY <1>2
  <2>5. ProbeIsNeverStuck'
    BY <1>1, <1>2, <2>1, <2>4, OthersStay, BreakerMoves, Zenon DEF Ready
  <2>. QED BY <2>2, <2>3, <2>5 DEF Ready
<1>5. CASE ~Usable(c, n)
  <2>1. UNCHANGED breakers /\ idx' \in Nodes /\ call[c].at \notin {"run", "record"}
    BY <1>1, <1>2, <1>5
  <2>. QED BY <1>2, <1>3, <2>1, CallSteps
<1>. QED BY <1>4, <1>5

LEMMA FallbackKeeps ==
  ASSUME Ready, NEW c \in Calls, Fallback(c)
  PROVE  Ready'
<1>1. PICK n \in Nodes : call' = [call EXCEPT ![c] = Chosen(c, n)]
  BY Zenon DEF Fallback
<1>2. /\ call[c].at = "look" /\ UNCHANGED breakers /\ UNCHANGED <<healthy, disabled>>
      /\ idx' \in Nodes
  BY Zenon DEF Fallback, Ready, BreakersTyped, breakers
<1>3. Chosen(c, n) \in CallRecord /\ Chosen(c, n).node \in Nodes
  BY ChosenTyped DEF Ready
<1>. QED BY <1>1, <1>2, <1>3, CallSteps

LEMMA AllowKeeps ==
  ASSUME Ready, NEW c \in Calls, Allow(c)
  PROVE  Ready'
<1>. DEFINE n == call[c].node
<1>1. call[c].at = "allow" /\ MaybeTransitionToHalfOpen(n) /\ UNCHANGED <<healthy, disabled, idx>>
      /\ (Goto(c, "run") \/ Fails(c, "after", "retryable") \/ Goto(c, "cas"))
  BY Zenon DEF Allow
<1>2. n \in Nodes
  BY <1>1, RecordOf, Zenon DEF Ready, Reached
<1>3. PICK r \in CallRecord : r.node = n /\ call' = [call EXCEPT ![c] = r]
  <2>1. call[c] \in CallRecord
    BY RecordOf DEF Ready
  <2>2. \A at \in {"run", "cas"} : [call[c] EXCEPT !.at = at] \in CallRecord
                                      /\ [call[c] EXCEPT !.at = at].node = n
    <3>1. \A at \in {"run", "cas"} : at \in Stages
      BY DEF Stages
    <3> QED BY <2>1, <3>1, Moved, Zenon
  <2>3. [call[c] EXCEPT !.at = "after", !.err = "retryable"] \in CallRecord
        /\ [call[c] EXCEPT !.at = "after", !.err = "retryable"].node = n
    BY <2>1, Moved, "after" \in Stages DEF Stages
  <2>. QED BY <1>1, <2>2, <2>3, Zenon DEF Goto, Fails
<1>. HIDE DEF n
<1>4. BreakerStep(n) /\ (circuit'[n] = "half-open" /\ probeInFlight'[n]
                             => circuit[n] = "half-open" /\ probeInFlight[n])
  BY <1>1, <1>2, TransitionTyped DEF Ready
<1>5. BreakersTyped'
  BY <1>1, <1>2, <1>4, BreakerStepTyped, Zenon DEF Ready, BreakersTyped
<1>6. CallsTyped'
  BY <1>2, <1>3, OneCallMoves DEF Ready
<1>7. ProbeIsNeverStuck'
  BY <1>1, <1>2, <1>3, <1>4, OthersStay, BreakerMoves, Zenon DEF Ready
<1>. QED BY <1>5, <1>6, <1>7 DEF Ready

LEMMA TakeProbeKeeps ==
  ASSUME Ready, NEW c \in Calls, TakeProbe(c)
  PROVE  Ready'
<1>. DEFINE n == call[c].node
<1>1. /\ call[c].at = "cas" /\ probeInFlight' = [probeInFlight EXCEPT ![n] = TRUE]
      /\ UNCHANGED <<circuit, failures, successes, elapsed, healthy, disabled, idx>>
  BY Zenon DEF TakeProbe
<1>2. n \in Nodes /\ call[c] \in CallRecord
  BY <1>1, RecordOf, Zenon DEF Ready, Reached
<1>3. BreakersTyped'
  BY <1>1, <1>2, Zenon DEF Ready, BreakersTyped
<1>4. CASE probeInFlight[n]
  <2>1. probeInFlight' = probeInFlight
    BY <1>1, <1>2, <1>4, Zenon DEF Ready, BreakersTyped
  <2>2. Fails(c, "after", "retryable")
    BY <1>4, Zenon DEF TakeProbe
  <2>3. CallsTyped'
    BY <1>2, <2>2, GotoTyped, "after" \in Stages DEF Ready, Stages
  <2>4. ProbeIsNeverStuck'
    BY <1>1, <2>1, <2>2, OthersStay, StillAdmitted, Zenon DEF Ready, Fails
  <2>. QED BY <1>3, <2>3, <2>4 DEF Ready
<1>5. CASE ~probeInFlight[n]
  <2>1. Goto(c, "run")
    BY <1>5, Zenon DEF TakeProbe
  <2>2. CallsTyped'
    BY <1>2, <2>1, GotoTyped, "run" \in Stages,
       "none" \in {"none", "retryable", "definite"} DEF Ready, Stages
  <2>3. call'[c].at = "run" /\ call'[c].node = n
    BY <1>2, <2>1, SMT DEF Goto, Ready, CallsTyped, CallRecord
  <2>4. \A m \in Nodes \ {n} : probeInFlight'[m] = probeInFlight[m]
    BY <1>1, <1>2, Zenon DEF Ready, BreakersTyped
  <2>5. \A d \in Calls : call[d].at \in {"run", "record"}
             => call'[d].at \in {"run", "record"} /\ call'[d].node = call[d].node
    BY <1>1, <2>1, OthersStay, Zenon DEF Ready, Goto
  <2>6. ASSUME NEW m \in Nodes, circuit'[m] = "half-open", probeInFlight'[m]
        PROVE  \E d \in Calls : call'[d].node = m /\ call'[d].at \in {"run", "record"}
    <3>1. CASE m = n
      BY <2>3, <3>1
    <3>2. CASE m # n
      <4>1. circuit[m] = "half-open" /\ probeInFlight[m]
        BY <1>1, <2>4, <2>6, <3>2, Zenon
      <4>2. PICK d \in Calls : call[d].node = m /\ call[d].at \in {"run", "record"}
        BY <4>1, Zenon DEF Ready, ProbeIsNeverStuck, Admitted
      <4>. QED BY <2>5, <4>2
    <3>. QED BY <3>1, <3>2
  <2>7. ProbeIsNeverStuck'
    BY <2>6, Zenon DEF ProbeIsNeverStuck, Admitted
  <2>. QED BY <1>3, <2>2, <2>7 DEF Ready
<1>. QED BY <1>4, <1>5

LEMMA RunKeeps ==
  ASSUME Ready, NEW c \in Calls, Run(c)
  PROVE  Ready'
<1>1. call[c].at = "run" /\ UNCHANGED <<breakers, idx>>
  BY Zenon DEF Run
<1>2. call[c].node \in Nodes /\ call[c] \in CallRecord
  BY <1>1, RecordOf, Zenon DEF Ready, Reached
<1>3. PICK e \in {"none", "retryable", "definite"} : Fails(c, "record", e)
  BY Zenon DEF Run
<1>4. healthy' \in [Nodes -> BOOLEAN] /\ disabled' \in [Nodes -> BOOLEAN]
  <2>1. healthy \in [Nodes -> BOOLEAN] /\ disabled \in [Nodes -> BOOLEAN]
    BY Zenon DEF Ready, BreakersTyped
  <2>2. (disabled[call[c].node] /\ healthy[call[c].node]) \in BOOLEAN
    BY <1>2, <2>1, Zenon
  <2>. QED BY <2>1, <2>2, Zenon DEF Run
<1>5. BreakersTyped' /\ UNCHANGED <<circuit, probeInFlight>>
  BY <1>1, <1>4, BreakersStay, Zenon DEF Ready, BreakersTyped
<1>6. CallsTyped'
  BY <1>2, <1>3, GotoTyped, "record" \in Stages DEF Ready, Stages
<1>7. call'[c].at = "record" /\ call'[c].node = call[c].node
  BY <1>2, <1>3, SMT DEF Fails, Ready, CallsTyped, CallRecord
<1>8. \A d \in Calls \ {c} : call'[d] = call[d]
  BY <1>3, Zenon DEF Fails, Ready, CallsTyped
<1>9. ProbeIsNeverStuck'
  BY <1>5, <1>7, <1>8, StillAdmitted, Zenon DEF Ready
<1>. QED BY <1>5, <1>6, <1>9 DEF Ready

LEMMA RecordKeeps ==
  ASSUME Ready, NEW c \in Calls, Record(c)
  PROVE  Ready'
<1>. DEFINE n == call[c].node
<1>1. /\ call[c].at = "record" /\ Goto(c, "after") /\ UNCHANGED <<healthy, disabled, idx>>
      /\ OnSuccess(n) \/ OnFailure(n)
  BY Zenon DEF Record
<1>2. n \in Nodes
  BY <1>1, RecordOf, Zenon DEF Ready, Reached
<1>3. BreakerStep(n) /\ ~(circuit'[n] = "half-open" /\ probeInFlight'[n])
  BY <1>1, <1>2, SuccessTyped, FailureTyped, Zenon DEF Ready
<1>4. BreakersTyped'
  BY <1>1, <1>2, <1>3, BreakerStepTyped, Zenon DEF Ready, BreakersTyped
<1>5. CallsTyped'
  BY <1>1, <1>2, GotoTyped, "after" \in Stages,
     "none" \in {"none", "retryable", "definite"} DEF Ready, Stages
<1>6. \A d \in Calls \ {c} : call'[d] = call[d]
  BY <1>1, Zenon DEF Goto, Ready, CallsTyped
<1>7. ASSUME NEW m \in Nodes, circuit'[m] = "half-open", probeInFlight'[m]
      PROVE  \E d \in Calls : call'[d].node = m /\ call'[d].at \in {"run", "record"}
  <2>1. m # n /\ circuit[m] = "half-open" /\ probeInFlight[m]
    BY <1>3, <1>7, Zenon DEF BreakerStep
  <2>2. PICK d \in Calls : call[d].node = m /\ call[d].at \in {"run", "record"}
    BY <2>1, Zenon DEF Ready, ProbeIsNeverStuck, Admitted
  <2>. QED BY <1>6, <2>1, <2>2
<1>8. ProbeIsNeverStuck'
  BY <1>7, Zenon DEF ProbeIsNeverStuck, Admitted
<1>. QED BY <1>4, <1>5, <1>8 DEF Ready

LEMMA AfterKeeps ==
  ASSUME Ready, NEW c \in Calls, After(c)
  PROVE  Ready'
<1>1. /\ call[c].at = "after" /\ UNCHANGED breakers /\ UNCHANGED <<healthy, disabled>>
      /\ idx' \in Nodes
  BY Zenon DEF After, Ready, BreakersTyped
<1>2. call[c].node \in Nodes /\ call[c] \in CallRecord
  BY <1>1, RecordOf, Zenon DEF Ready, Reached
<1>3. CASE call' = [call EXCEPT ![c] = Idle]
  <2>1. Idle.at \notin Reached
    BY SMT DEF Idle, Reached
  <2>. QED BY <1>1, <1>3, <2>1, IdleTyped, CallSteps
<1>4. CASE /\ call[c].attempt < MaxAttempts
           /\ call' = [call EXCEPT ![c] = Looking(call[c].node, call[c].attempt + 1)]
  <2>1. call[c].attempt + 1 \in 1..MaxAttempts
    BY <1>2, <1>4, SMT, Constants DEF CallRecord
  <2>2. Looking(call[c].node, call[c].attempt + 1) \in CallRecord
        /\ Looking(call[c].node, call[c].attempt + 1).at \notin Reached
    BY <1>2, <2>1, LookingTyped
  <2>. QED BY <1>1, <1>4, <2>2, CallSteps
<1>. QED BY <1>3, <1>4, Zenon DEF After

LEMMA NodeStepsKeep ==
  ASSUME Ready, NEW n \in Nodes, ResetTimeoutPasses(n) \/ Probe(n)
  PROVE  Ready'
<1>1. CASE ResetTimeoutPasses(n)
  <2>1. BreakersTyped' /\ UNCHANGED <<circuit, probeInFlight, call>>
    BY <1>1, Zenon DEF ResetTimeoutPasses, Ready, BreakersTyped
  <2>. QED BY <2>1, Zenon DEF Ready, CallsTyped, ProbeIsNeverStuck, Admitted
<1>2. CASE Probe(n)
  <2>1. UNCHANGED breakers /\ UNCHANGED <<idx, call>>
    BY <1>2, Zenon DEF Probe, breakers
  <2>2. healthy' \in [Nodes -> BOOLEAN] /\ disabled' \in [Nodes -> BOOLEAN]
    BY <1>2, Zenon DEF Probe, Ready, BreakersTyped
  <2>3. BreakersTyped' /\ UNCHANGED <<circuit, probeInFlight>>
    BY <2>1, <2>2, BreakersStay, Zenon DEF Ready, BreakersTyped
  <2>. QED BY <2>1, <2>3, Zenon DEF Ready, CallsTyped, ProbeIsNeverStuck, Admitted
<1>. QED BY <1>1, <1>2

LEMMA PoolStep == PoolInv /\ [Next]_vars => PoolInv'
<1>1. SUFFICES ASSUME Ready, [Next]_vars PROVE Ready'
  BY TypeParts, PTL DEF PoolInv, Ready
<1>2. CASE UNCHANGED vars
  BY <1>1, <1>2, Zenon DEF vars, Ready, BreakersTyped, CallsTyped, ProbeIsNeverStuck, Admitted
<1>3. CASE Next
  BY <1>1, <1>3, BeginKeeps, LookKeeps, FallbackKeeps, AllowKeeps, TakeProbeKeeps, RunKeeps,
     RecordKeeps, AfterKeeps, NodeStepsKeep, Zenon DEF Next
<1>. QED BY <1>1, <1>2, <1>3

(* In every run, for any number of nodes, calls and thresholds, a          *)
(* half-open breaker whose probe flag is set has a call that will clear it *)
(* (circuit_breaker.go: allow, record).                                    *)
THEOREM PoolProbeIsNeverStuck == Spec => []ProbeIsNeverStuck
<1>1. Spec => []PoolInv
  BY PoolInit, PoolStep, PTL DEF Spec
<1>. QED BY <1>1, PTL DEF PoolInv

(* The pool's variables keep their types.                                  *)
THEOREM PoolTypeOK == Spec => []TypeOK
<1>1. Spec => []PoolInv
  BY PoolInit, PoolStep, PTL DEF Spec
<1>. QED BY <1>1, PTL DEF PoolInv
-----------------------------------------------------------------------------
(* Retries go elsewhere.  A call is "under way" from the choice of a node  *)
(* to the record of its result; it then differs from the node of the last  *)
(* attempt or there was no other, and a node that is out stays out.        *)

UnderWay == {"allow", "cas", "run", "record"}
NoOther(n) == \A m \in Nodes \ {n} : disabled[m]

LEMMA ElsewhereStays ==
  ASSUME RetriesElsewhere, \A m \in Nodes : disabled[m] => disabled'[m],
         \A d \in Calls : call'[d].at \in UnderWay =>
            \/ call[d].at \in UnderWay /\ call'[d].node = call[d].node /\ call'[d].last = call[d].last
            \/ call'[d].node # call'[d].last
            \/ NoOther(call'[d].last)
  PROVE  RetriesElsewhere'
  BY Zenon DEF RetriesElsewhere, UnderWay, NoOther

LEMMA OneElsewhere ==
  ASSUME CallsTyped, RetriesElsewhere, \A m \in Nodes : disabled[m] => disabled'[m],
         NEW c \in Calls, NEW r \in CallRecord, call' = [call EXCEPT ![c] = r],
         r.at \in UnderWay => \/ call[c].at \in UnderWay /\ r.node = call[c].node /\ r.last = call[c].last
                              \/ r.node # r.last
                              \/ NoOther(r.last)
  PROVE  RetriesElsewhere'
<1>1. call'[c] = r /\ \A d \in Calls \ {c} : call'[d] = call[d]
  BY Zenon DEF CallsTyped
<1>2. \A d \in Calls : call'[d].at \in UnderWay =>
            \/ call[d].at \in UnderWay /\ call'[d].node = call[d].node /\ call'[d].last = call[d].last
            \/ call'[d].node # call'[d].last
            \/ NoOther(call'[d].last)
  BY <1>1, Zenon
<1>. QED BY <1>2, ElsewhereStays

LEMMA ChosenThere ==
  ASSUME CallsTyped, NEW c \in Calls, NEW n \in Nodes
  PROVE  Chosen(c, n).last = call[c].last
<1>1. call[c] \in CallRecord
  BY RecordOf
<1>. QED BY <1>1, SMT DEF Chosen, CallRecord

LEMMA LookGoesElsewhere ==
  ASSUME Ready, RetriesElsewhere, NEW c \in Calls, Look(c)
  PROVE  RetriesElsewhere'
<1>1. PICK n : n = (idx % NodeCount) + 1
  OBVIOUS
<1>2. n \in Nodes /\ CallsTyped
  BY <1>1, SMT, Constants DEF Nodes, Ready, BreakersTyped
<1>3. /\ call[c].at = "look" /\ UNCHANGED disabled
      /\ \/ Usable(c, n) /\ call' = [call EXCEPT ![c] = Chosen(c, n)]
         \/ call' = [call EXCEPT ![c] = Passed(c)]
  BY <1>1, Zenon DEF Look
<1>4. call[c] \in CallRecord
  BY <1>2, RecordOf
<1>5. CASE call' = [call EXCEPT ![c] = Passed(c)]
  <2>1. call[c].left > 0
    BY Zenon DEF Look
  <2>2. Passed(c) \in CallRecord /\ Passed(c).at = "look"
    BY <1>3, <1>4, <2>1, SMT, Constants DEF CallRecord, Passed
  <2>. QED BY <1>2, <1>3, <1>5, <2>2, OneElsewhere, Zenon DEF UnderWay
<1>6. CASE Usable(c, n) /\ call' = [call EXCEPT ![c] = Chosen(c, n)]
  <2>1. Chosen(c, n) \in CallRecord /\ Chosen(c, n).node = n /\ Chosen(c, n).last = call[c].last
    BY <1>2, ChosenTyped, ChosenThere
  <2>2. n # call[c].last \/ NodeCount = 1
    BY <1>6, SMT, Constants DEF Usable, Excluded
  <2>3. NodeCount = 1 => NoOther(n)
    BY <1>2, SMT DEF Nodes, NoOther
  <2>4. Chosen(c, n).node # Chosen(c, n).last \/ NoOther(Chosen(c, n).last)
    BY <2>1, <2>2, <2>3
  <2>. QED BY <1>2, <1>3, <1>6, <2>1, <2>4, OneElsewhere, Zenon
<1>. QED BY <1>3, <1>5, <1>6

LEMMA FallbackGoesElsewhere ==
  ASSUME Ready, RetriesElsewhere, NEW c \in Calls, Fallback(c)
  PROVE  RetriesElsewhere'
<1>1. PICK found : found = {n \in Nodes : ~disabled[n] /\ n # call[c].last}
  OBVIOUS
<1>2. PICK n \in Nodes : /\ call' = [call EXCEPT ![c] = Chosen(c, n)]
                         /\ IF found = {} THEN n = 1 ELSE n \in found
  BY <1>1, Zenon DEF Fallback
<1>3. UNCHANGED disabled /\ CallsTyped
  BY Zenon DEF Fallback, Ready
<1>4. Chosen(c, n) \in CallRecord /\ Chosen(c, n).node = n /\ Chosen(c, n).last = call[c].last
  BY <1>3, ChosenTyped, ChosenThere
<1>5. found = {} => NoOther(call[c].last)
  BY <1>1, Zenon DEF NoOther
<1>6. found # {} => n # call[c].last
  BY <1>1, <1>2
<1>7. Chosen(c, n).node # Chosen(c, n).last \/ NoOther(Chosen(c, n).last)
  BY <1>4, <1>5, <1>6
<1>. QED BY <1>2, <1>3, <1>4, <1>7, OneElsewhere, Zenon

LEMMA AttemptGoesOn ==
  ASSUME Ready, RetriesElsewhere, NEW c \in Calls,
         Allow(c) \/ TakeProbe(c) \/ Run(c) \/ Record(c)
  PROVE  RetriesElsewhere'
<1>1. call[c].at \in UnderWay
  BY Zenon DEF Allow, TakeProbe, Run, Record, UnderWay
<1>2. CallsTyped /\ call[c] \in CallRecord
  BY RecordOf DEF Ready
<1>3. PICK at \in Stages, err \in {"none", "retryable", "definite"} : Goto(c, at) \/ Fails(c, at, err)
  <2>1. {"run", "cas", "after", "record"} \subseteq Stages
    BY DEF Stages
  <2>. QED BY <2>1, Zenon DEF Allow, TakeProbe, Run, Record
<1>4. PICK r \in CallRecord : /\ call' = [call EXCEPT ![c] = r]
                              /\ r.node = call[c].node /\ r.last = call[c].last
  <2>0. PICK q \in CallRecord : q = call[c]
    BY <1>2
  <2>. DEFINE there == [q EXCEPT !.at = at]
              ended == [q EXCEPT !.at = at, !.err = err]
  <2>1. /\ there \in CallRecord /\ there.node = q.node /\ there.last = q.last
        /\ ended \in CallRecord /\ ended.node = q.node /\ ended.last = q.last
    <3>1. there \in CallRecord /\ there.node = q.node /\ ended \in CallRecord /\ ended.node = q.node
      BY <1>3, Moved
    <3>2. there.last = q.last /\ ended.last = q.last
      BY SMT DEF CallRecord
    <3>. QED BY <3>1, <3>2
  <2>2. call' = [call EXCEPT ![c] = there] \/ call' = [call EXCEPT ![c] = ended]
    BY <1>2, <1>3, <2>0, SMT DEF Goto, Fails, CallsTyped
  <2>. HIDE DEF there, ended
  <2>. QED BY <2>0, <2>1, <2>2
<1>5. \A m \in Nodes : disabled[m] => disabled'[m]
  <2>1. disabled \in [Nodes -> BOOLEAN]
    BY DEF Ready, BreakersTyped
  <2>2. UNCHANGED disabled \/ disabled' = [disabled EXCEPT ![call[c].node] = TRUE]
    BY Zenon DEF Allow, TakeProbe, Run, Record
  <2>. QED BY <2>1, <2>2, Zenon
<1>. QED BY <1>1, <1>2, <1>4, <1>5, OneElsewhere, Zenon

(* A call that begins, or begins an attempt, has no node yet.              *)
LEMMA BeginsAnew ==
  ASSUME Ready, RetriesElsewhere, NEW c \in Calls, Begin(c) \/ After(c)
  PROVE  RetriesElsewhere'
<1>1. CallsTyped /\ UNCHANGED disabled
  BY Zenon DEF Ready, Begin, After
<1>2. PICK r : r.at \in {"idle", "look"} /\ call' = [call EXCEPT ![c] = r]
  <2>1. Idle.at = "idle" /\ \A n, k : Looking(n, k).at = "look"
    BY SMT DEF Idle, Looking
  <2>2. \/ call' = [call EXCEPT ![c] = Idle]
        \/ \E n, k : call' = [call EXCEPT ![c] = Looking(n, k)]
    BY Zenon DEF Begin, After
  <2>. QED BY <2>1, <2>2
<1>3. call'[c] = r /\ \A d \in Calls \ {c} : call'[d] = call[d]
  BY <1>1, <1>2, Zenon DEF CallsTyped
<1>4. r.at \notin UnderWay
  BY <1>2 DEF UnderWay
<1>. QED BY <1>1, <1>3, <1>4, ElsewhereStays, Zenon

LEMMA NodesGoOut ==
  ASSUME Ready, RetriesElsewhere, NEW n \in Nodes, ResetTimeoutPasses(n) \/ Probe(n)
  PROVE  RetriesElsewhere'
<1>1. UNCHANGED call /\ disabled \in [Nodes -> BOOLEAN]
  BY Zenon DEF ResetTimeoutPasses, Probe, Ready, BreakersTyped
<1>2. UNCHANGED disabled \/ disabled' = [disabled EXCEPT ![n] = TRUE]
  BY Zenon DEF ResetTimeoutPasses, Probe
<1>3. \A m \in Nodes : disabled[m] => disabled'[m]
  BY <1>1, <1>2, Zenon
<1>. QED BY <1>1, <1>3, ElsewhereStays, Zenon

LEMMA ElsewhereStep == Ready /\ RetriesElsewhere /\ [Next]_vars => RetriesElsewhere'
<1>1. SUFFICES ASSUME Ready, RetriesElsewhere, [Next]_vars PROVE RetriesElsewhere'
  OBVIOUS
<1>2. CASE UNCHANGED vars
  BY <1>1, <1>2, Zenon DEF vars, RetriesElsewhere
<1>3. CASE Next
  BY <1>1, <1>3, BeginsAnew, LookGoesElsewhere, FallbackGoesElsewhere, AttemptGoesOn, NodesGoOut,
     Zenon DEF Next
<1>. QED BY <1>1, <1>2, <1>3

(* In every run, for any number of nodes, calls and thresholds, an attempt *)
(* goes to another node than the one before it, unless every other node is *)
(* out of capacity (pool.go: pickExcluding).                               *)
THEOREM PoolRetriesElsewhere == Spec => []RetriesElsewhere
<1>1. Init => RetriesElsewhere
  BY SMT DEF Init, Idle, RetriesElsewhere
<1>2. PoolInv => Ready
  BY TypeParts DEF PoolInv, Ready
<1>. QED BY <1>1, <1>2, PoolInit, PoolStep, ElsewhereStep, PTL DEF Spec

-----------------------------------------------------------------------------
(* The sweeps to the treasury, for any number of rows and replicas.        *)
CONSTANTS Sweeps, Replicas, HotMax, HotMin, MinNet, Scale, Holdings, None
VARIABLES sweep, listed, sending, due, moved, wire, hot, read, ops, pending, touched
Sweeper == INSTANCE TreasurySweep

(* Only an accepted call makes a row sent, and its transfer was taken.     *)
CallsAreTrue == \A r \in Replicas :
    sending[r] # Sweeper!NoCall =>
        /\ sending[r].sweep \in Sweeps
        /\ sending[r].answer = "accepted" => due[sending[r].sweep] + moved[sending[r].sweep] = 1
SweepInv == Sweeper!TypeOK /\ Sweeper!SweepMovesOnce /\ CallsAreTrue

(* While nothing else moves the wallet, what may still land is what was    *)
(* above the reserve, and a balance that is no longer there was swept.     *)
ReserveInv == ~touched =>
    /\ \A a \in pending : a = hot - HotMin
    /\ \A r \in Replicas : read[r] \in Nat =>
          read[r] = hot \/ read[r] - HotMin \in ops \ pending

(* None is no row, no balance and no status.                               *)
SweepAssumption ==
    /\ Holdings \subseteq Nat /\ HotMin \in Nat /\ Scale \in Nat
    /\ None \notin Sweeps \cup Nat \cup {"pending", "sent", "failed"}

LEMMA TransferTaken ==
  ASSUME Sweeper!TypeOK, \A s \in Sweeps : due[s] + moved[s] <= 1,
         NEW s \in Sweeps, due' = Sweeper!Taken(s), UNCHANGED moved
  PROVE  /\ due' \in [Sweeps -> Nat] /\ \A x \in Sweeps : due'[x] + moved'[x] <= 1
         /\ due'[s] + moved'[s] = 1
         /\ \A x \in Sweeps : due[x] + moved[x] = 1 => due'[x] + moved'[x] = 1
<1> DEFINE n == IF due[s] + moved[s] = 0 THEN 1 ELSE due[s]
<1>1. due \in [Sweeps -> Nat] /\ moved \in [Sweeps -> Nat] /\ due' = [due EXCEPT ![s] = n]
  BY DEF Sweeper!TypeOK, Sweeper!Taken
<1>2. due[s] \in Nat /\ moved[s] \in Nat /\ due[s] + moved[s] <= 1
  BY <1>1
<1>3. n \in Nat /\ n + moved[s] = 1
  BY <1>2
<1> HIDE DEF n
<1> QED BY <1>1, <1>3

LEMMA SweepInit == SweepAssumption /\ Sweeper!Init => SweepInv /\ ReserveInv
<1> SUFFICES ASSUME SweepAssumption, Sweeper!Init PROVE SweepInv /\ ReserveInv
  OBVIOUS
<1>1. Sweeper!TypeOK
  BY DEF SweepAssumption, Sweeper!Init, Sweeper!TypeOK, Sweeper!NoCall
<1>2. Sweeper!SweepMovesOnce /\ CallsAreTrue
  BY DEF SweepAssumption, Sweeper!Init, Sweeper!SweepMovesOnce, CallsAreTrue
<1>3. ReserveInv
  BY DEF SweepAssumption, Sweeper!Init, ReserveInv
<1> QED BY <1>1, <1>2, <1>3 DEF SweepInv

LEMMA SweepNext == SweepAssumption /\ SweepInv /\ [Sweeper!Next]_Sweeper!vars => SweepInv'
<1> SUFFICES ASSUME SweepAssumption, SweepInv, [Sweeper!Next]_Sweeper!vars PROVE SweepInv'
  OBVIOUS
<1> USE DEF SweepInv
<1>1. ASSUME NEW s \in Sweeps, Sweeper!CreateSweep(s) PROVE SweepInv'
  BY <1>1 DEF Sweeper!CreateSweep, Sweeper!auto, Sweeper!TypeOK, Sweeper!SweepMovesOnce, CallsAreTrue, Sweeper!NoCall
<1>2. ASSUME NEW s \in Sweeps, Sweeper!WireArrives(s) PROVE SweepInv'
  <2>1. /\ due' \in [Sweeps -> Nat] /\ UNCHANGED moved /\ \A x \in Sweeps : due'[x] + moved'[x] <= 1
        /\ \A x \in Sweeps : due[x] + moved[x] = 1 => due'[x] + moved'[x] = 1
    BY <1>2, TransferTaken DEF Sweeper!WireArrives, Sweeper!SweepMovesOnce
  <2> QED BY <1>2, <2>1 DEF Sweeper!WireArrives, Sweeper!auto, Sweeper!TypeOK,
             Sweeper!SweepMovesOnce, CallsAreTrue, Sweeper!NoCall
<1>3. ASSUME NEW r \in Replicas, Sweeper!ListPendingSweeps(r) PROVE SweepInv'
  BY <1>3 DEF Sweeper!ListPendingSweeps, Sweeper!auto, Sweeper!TypeOK, Sweeper!SweepMovesOnce, CallsAreTrue, Sweeper!NoCall
<1>4. ASSUME NEW r \in Replicas, NEW s \in Sweeps, Sweeper!SendSweep(r, s) PROVE SweepInv'
  <2>1. CASE /\ due' = Sweeper!Taken(s) /\ UNCHANGED wire
             /\ \E a \in {"accepted", "failed"} :
                   sending' = [sending EXCEPT ![r] = [sweep |-> s, answer |-> a]]
    <3>1. /\ due' \in [Sweeps -> Nat] /\ UNCHANGED moved /\ due'[s] + moved'[s] = 1
          /\ \A x \in Sweeps : due'[x] + moved'[x] <= 1
          /\ \A x \in Sweeps : due[x] + moved[x] = 1 => due'[x] + moved'[x] = 1
      BY <1>4, <2>1, TransferTaken DEF Sweeper!SendSweep, Sweeper!SweepMovesOnce
    <3> QED BY <1>4, <2>1, <3>1 DEF Sweeper!SendSweep, Sweeper!auto, Sweeper!TypeOK,
             Sweeper!SweepMovesOnce, CallsAreTrue, Sweeper!NoCall
  <2>2. CASE /\ wire' \in {wire, wire \cup {s}} /\ UNCHANGED due
             /\ sending' = [sending EXCEPT ![r] = [sweep |-> s, answer |-> "failed"]]
    BY <1>4, <2>2 DEF Sweeper!SendSweep, Sweeper!auto, Sweeper!TypeOK,
             Sweeper!SweepMovesOnce, CallsAreTrue, Sweeper!NoCall
  <2> QED BY <1>4, <2>1, <2>2 DEF Sweeper!SendSweep
<1>5. ASSUME NEW r \in Replicas, Sweeper!MarkSweep(r) PROVE SweepInv'
  <2>1. sending[r].sweep \in Sweeps
        /\ (sending[r].answer = "accepted" => due[sending[r].sweep] + moved[sending[r].sweep] = 1)
    BY <1>5 DEF Sweeper!MarkSweep, CallsAreTrue
  <2>2. sweep' \in [Sweeps -> {None, "pending", "sent", "failed"}]
    BY <1>5, <2>1 DEF Sweeper!MarkSweep, Sweeper!TypeOK
  <2>3. \A s \in Sweeps : sweep'[s] = "sent" => due[s] + moved[s] = 1
    BY <1>5, <2>1 DEF Sweeper!MarkSweep, Sweeper!TypeOK, Sweeper!SweepMovesOnce
  <2> QED BY <1>5, <2>2, <2>3 DEF Sweeper!MarkSweep, Sweeper!auto, Sweeper!TypeOK,
             Sweeper!SweepMovesOnce, CallsAreTrue, Sweeper!NoCall
<1>6. ASSUME NEW r \in Replicas, Sweeper!ReplicaStops(r) PROVE SweepInv'
  BY <1>6 DEF Sweeper!ReplicaStops, Sweeper!TypeOK, Sweeper!SweepMovesOnce, CallsAreTrue, Sweeper!NoCall
<1>7. ASSUME UNCHANGED Sweeper!rows, Sweeper!TypeOK' PROVE SweepInv'
  BY <1>7 DEF Sweeper!rows, Sweeper!SweepMovesOnce, CallsAreTrue, Sweeper!NoCall
<1>8. ASSUME NEW r \in Replicas, \/ Sweeper!BalanceOf(r) \/ Sweeper!SkipSweep(r) PROVE SweepInv'
  <2>1. Sweeper!TypeOK'
    BY <1>8 DEF Sweeper!BalanceOf, Sweeper!SkipSweep, Sweeper!Ends, Sweeper!rows, Sweeper!TypeOK, Sweeper!InProgress
  <2> QED BY <1>7, <1>8, <2>1 DEF Sweeper!BalanceOf, Sweeper!SkipSweep
<1>9. ASSUME NEW r \in Replicas, Sweeper!DispatchSweep(r) PROVE SweepInv'
  <2>1. Sweeper!Excess(read[r]) \in Nat
    BY <1>9 DEF Sweeper!DispatchSweep, Sweeper!Excess, Sweeper!TypeOK, SweepAssumption
  <2>2. Sweeper!TypeOK'
    BY <1>9, <2>1 DEF Sweeper!DispatchSweep, Sweeper!OperationID, Sweeper!Ends, Sweeper!rows, Sweeper!TypeOK
  <2> QED BY <1>7, <1>9, <2>2 DEF Sweeper!DispatchSweep
<1>10. ASSUME NEW a \in ops, Sweeper!Lands(a) PROVE SweepInv'
  <2>1. Sweeper!TypeOK'
    <3>1. a \in Nat /\ Scale \in Nat
      BY DEF Sweeper!TypeOK, SweepAssumption
    <3>2. Sweeper!Moves(a) \in Nat
      BY <3>1 DEF Sweeper!Moves
    <3>3. hot \in Nat /\ hot' = IF hot >= Sweeper!Moves(a) THEN hot - Sweeper!Moves(a) ELSE hot
      BY <1>10 DEF Sweeper!Lands, Sweeper!TypeOK
    <3>4. hot' \in Nat
      BY <3>2, <3>3
    <3> QED BY <1>10, <3>4 DEF Sweeper!Lands, Sweeper!rows, Sweeper!TypeOK
  <2> QED BY <1>7, <1>10, <2>1 DEF Sweeper!Lands
<1>11. ASSUME NEW b \in Holdings, Sweeper!OtherTransfer(b) PROVE SweepInv'
  <2>1. Sweeper!TypeOK'
    BY <1>11 DEF Sweeper!OtherTransfer, Sweeper!rows, Sweeper!TypeOK, SweepAssumption, Sweeper!InProgress
  <2> QED BY <1>7, <1>11, <2>1 DEF Sweeper!OtherTransfer
<1>12. CASE UNCHANGED Sweeper!vars
  <2>1. Sweeper!TypeOK'
    BY <1>12 DEF Sweeper!vars, Sweeper!TypeOK
  <2> QED BY <1>7, <1>12, <2>1 DEF Sweeper!vars, Sweeper!rows
<1>13. ASSUME NEW s \in Sweeps, Sweeper!SignerMoves(s) PROVE SweepInv'
  <2>1. /\ due \in [Sweeps -> Nat] /\ moved \in [Sweeps -> Nat] /\ due[s] > 0
        /\ due' = [due EXCEPT ![s] = due[s] - 1] /\ moved' = [moved EXCEPT ![s] = moved[s] + 1]
    BY <1>13 DEF Sweeper!SignerMoves, Sweeper!TypeOK
  <2>2. \A x \in Sweeps : due'[x] + moved'[x] = due[x] + moved[x]
    BY <2>1
  <2>3. due' \in [Sweeps -> Nat] /\ moved' \in [Sweeps -> Nat]
    BY <2>1
  <2> QED BY <1>13, <2>2, <2>3 DEF Sweeper!SignerMoves, Sweeper!auto, Sweeper!TypeOK,
             Sweeper!SweepMovesOnce, CallsAreTrue, Sweeper!NoCall
<1> QED BY <1>1, <1>2, <1>3, <1>4, <1>5, <1>6, <1>8, <1>9, <1>10, <1>11, <1>12, <1>13 DEF Sweeper!Next

LEMMA ReserveNext ==
  SweepAssumption /\ SweepInv /\ ReserveInv /\ [Sweeper!Next]_Sweeper!vars =>
      ReserveInv'
<1> SUFFICES ASSUME SweepAssumption, SweepInv, ReserveInv, [Sweeper!Next]_Sweeper!vars
             PROVE  ReserveInv'
  OBVIOUS
<1>0. /\ hot \in Nat /\ HotMin \in Nat /\ ops \subseteq Nat /\ pending \subseteq ops
      /\ read \in [Replicas -> Nat \cup {None}] /\ None \notin Nat /\ touched \in BOOLEAN
  BY DEF SweepInv, Sweeper!TypeOK, SweepAssumption
<1>1. ASSUME UNCHANGED Sweeper!auto PROVE ReserveInv'
  BY <1>1 DEF Sweeper!auto, ReserveInv
<1>2. ASSUME NEW r \in Replicas, Sweeper!ReplicaStops(r) \/ Sweeper!SkipSweep(r)
      PROVE  ReserveInv'
  BY <1>0, <1>2 DEF Sweeper!ReplicaStops, Sweeper!SkipSweep, Sweeper!Ends, ReserveInv
<1>3. ASSUME NEW r \in Replicas, Sweeper!BalanceOf(r) PROVE ReserveInv'
  <2>1. read' = [read EXCEPT ![r] = hot] /\ UNCHANGED <<hot, ops, pending>>
        /\ touched' = (touched /\ Sweeper!InProgress)
    BY <1>3 DEF Sweeper!BalanceOf
  <2>2. CASE ~Sweeper!InProgress
    BY <1>0, <2>1, <2>2 DEF Sweeper!InProgress, ReserveInv
  <2>3. CASE Sweeper!InProgress
    BY <1>0, <2>1, <2>3 DEF ReserveInv
  <2> QED BY <2>2, <2>3
<1>4. ASSUME NEW r \in Replicas, Sweeper!DispatchSweep(r) PROVE ReserveInv'
  <2> DEFINE a == read[r] - HotMin
  <2>1. /\ read[r] \in Nat /\ read' = [read EXCEPT ![r] = None] /\ UNCHANGED <<hot, touched>>
        /\ \/ ops' = ops \cup {a} /\ pending' = pending \cup ({a} \ ops)
           \/ UNCHANGED <<ops, pending>>
    BY <1>0, <1>4 DEF Sweeper!DispatchSweep, Sweeper!Excess, Sweeper!OperationID, Sweeper!Ends
  <2>2. ASSUME ~touched, NEW b \in pending' PROVE b = hot - HotMin
    <3>1. a = hot - HotMin \/ a \in ops
      <4>1. read[r] = hot \/ read[r] - HotMin \in ops \ pending
        BY <2>1, <2>2, Zenon DEF ReserveInv
      <4> QED BY <4>1
    <3>2. b \in pending \/ (b = a /\ a \notin ops)
      BY <2>1, <2>2
    <3> QED BY <3>1, <3>2, <2>2 DEF ReserveInv
  <2>3. ASSUME ~touched, NEW v \in Replicas, read'[v] \in Nat
        PROVE  read'[v] = hot \/ read'[v] - HotMin \in ops' \ pending'
    <3>1. v # r /\ read'[v] = read[v]
      BY <1>0, <2>1, <2>3
    <3>2. ops \ pending \subseteq ops' \ pending'
      BY <2>1
    <3> QED BY <3>1, <3>2, <2>3 DEF ReserveInv
  <2> QED BY <2>1, <2>2, <2>3 DEF ReserveInv
<1>5. ASSUME NEW a \in ops, Sweeper!Lands(a) PROVE ReserveInv'
  <2>1. a \in pending /\ pending' = pending \ {a} /\ UNCHANGED <<read, ops, touched>>
    BY <1>5 DEF Sweeper!Lands
  <2>2. CASE touched
    BY <2>1, <2>2 DEF ReserveInv
  <2>3. CASE ~touched
    <3>1. a = hot - HotMin /\ pending' = {}
      BY <2>1, <2>3 DEF ReserveInv
    <3>2. ASSUME NEW v \in Replicas, read[v] \in Nat PROVE read[v] - HotMin \in ops
      BY <2>3, <3>1, <3>2 DEF ReserveInv
    <3> QED BY <2>1, <3>1, <3>2 DEF ReserveInv
  <2> QED BY <1>0, <2>2, <2>3
<1>6. ASSUME NEW b \in Holdings, Sweeper!OtherTransfer(b) PROVE ReserveInv'
  BY <1>0, <1>6 DEF Sweeper!OtherTransfer, Sweeper!InProgress, ReserveInv
<1>7. CASE UNCHANGED Sweeper!vars
  BY <1>7, <1>1 DEF Sweeper!vars, Sweeper!auto
<1>8. ASSUME NEW s \in Sweeps, Sweeper!CreateSweep(s) \/ Sweeper!WireArrives(s) \/ Sweeper!SignerMoves(s)
      PROVE  UNCHANGED Sweeper!auto
  BY <1>8 DEF Sweeper!CreateSweep, Sweeper!WireArrives, Sweeper!SignerMoves
<1>9. ASSUME NEW r \in Replicas, \/ Sweeper!ListPendingSweeps(r) \/ Sweeper!MarkSweep(r)
                                 \/ \E s \in Sweeps : Sweeper!SendSweep(r, s)
      PROVE  UNCHANGED Sweeper!auto
  BY <1>9 DEF Sweeper!ListPendingSweeps, Sweeper!MarkSweep, Sweeper!SendSweep
<1> QED BY <1>1, <1>2, <1>3, <1>4, <1>5, <1>6, <1>7, <1>8, <1>9 DEF Sweeper!Next

(* A sweep moves at most once, and one that says sent is in the hands of   *)
(* the signer, for any number of rows and replicas (workers/sweep.go).     *)
THEOREM SweepsMoveOnce ==
  ASSUME SweepAssumption
  PROVE  Sweeper!Spec => []Sweeper!SweepMovesOnce
<1>1. SweepInv => Sweeper!SweepMovesOnce BY DEF SweepInv
<1> QED BY <1>1, SweepInit, SweepNext, PTL DEF Sweeper!Spec

(* The cycles of all replicas ask for one transfer of the hot wallet at a  *)
(* time, whatever balances they have read (workers/auto_sweeper.go).       *)
THEOREM CyclesSweepOnce ==
  ASSUME SweepAssumption
  PROVE  Sweeper!Spec => []Sweeper!OneSweepAtATime
<1>1. SweepInv /\ ReserveInv /\ [Sweeper!Next]_Sweeper!vars => SweepInv' /\ ReserveInv'
  BY SweepNext, ReserveNext
<1>2. ReserveInv => Sweeper!OneSweepAtATime
  <2> SUFFICES ASSUME ReserveInv, ~touched PROVE Sweeper!Cardinality(pending) <= 1
    BY DEF Sweeper!OneSweepAtATime
  <2>1. pending = {} \/ pending = {hot - HotMin}
    BY DEF ReserveInv
  <2>2. Cardinality(pending) <= 1
    <3>1. CASE pending = {}
      BY <3>1, FS_EmptySet
    <3>2. CASE pending = {hot - HotMin}
      <4>1. Cardinality({hot - HotMin}) = 1
        BY FS_Singleton
      <4> QED BY <3>2, <4>1
    <3> QED BY <2>1, <3>1, <3>2
  <2>3. Sweeper!Cardinality(pending) = Cardinality(pending)
    BY DEF Sweeper!Cardinality, Cardinality, Sweeper!IsFiniteSet, IsFiniteSet
  <2> QED BY <2>2, <2>3
<1> QED BY <1>1, <1>2, SweepInit, PTL DEF Sweeper!Spec

-----------------------------------------------------------------------------
(* The swaps of tokens, for any number of swaps and workers.               *)
CONSTANTS Swaps, Workers, Signer, Prices, Slippage
VARIABLES config, price, quote, expired, row, event, work, leg
Swapper == INSTANCE TokenSwap

SwapStages == {"idle", "off", "mark", "read", "check", "key", "post", "price", "approve",
               "broadcast", "send", "await", "complete", "fail"}
Task == [at : SwapStages, swap : Swaps \cup {None}]
Begun == {"signing", "broadcast", "completed", "failed"}
SwapTyped ==
    /\ row \in [Swaps -> [st : Swapper!Requested \cup {"none", "route_unavailable"} \cup Begun,
                          hash : Workers \cup {None}]]
    /\ work \in [Workers -> Task]
    /\ leg \in [Swaps -> [Workers -> {"none", "sent", "moved", "same", "refused"}]]

(* A worker sends once for a swap: until it does it has no transaction of  *)
(* it, and the swap never waits again once a worker has begun it.          *)
Unsent == {"mark", "read", "check", "key", "post", "price", "approve", "broadcast", "send"}
Sent(s, w) == leg[s][w] # "none" /\ (~Signer => leg[s][w] = "moved")
TaskSound(w, t) ==
    t.at # "idle" =>
      /\ t.swap \in Swaps
      /\ t.at \in Unsent => leg[t.swap][w] = "none"
      /\ t.at \in (Unsent \ {"mark", "read"}) \cup {"await", "complete"} => row[t.swap].st \in Begun
      /\ t.at = "post" => Signer
      /\ t.at = "complete" => Sent(t.swap, w)
SwapSound(s) ==
    /\ row[s].st \notin Begun => \A w \in Workers : leg[s][w] = "none"
    /\ row[s].st = "completed" => row[s].hash \in Workers /\ Sent(s, row[s].hash)
    /\ Signer => \A v, w \in Workers : leg[s][v] = "moved" /\ leg[s][w] = "moved" => v = w
SwapInv == /\ SwapTyped
           /\ \A w \in Workers : TaskSound(w, work[w])
           /\ \A s \in Swaps : SwapSound(s)

(* Every change of a worker's task alone.                                  *)
LEMMA WorkerGoesOn ==
  ASSUME SwapInv, NEW w \in Workers, NEW t \in Task, TaskSound(w, t),
         work' = [work EXCEPT ![w] = t], UNCHANGED <<row, leg>>
  PROVE  SwapInv'
<1>1. SwapTyped'
  BY DEF SwapInv, SwapTyped
<1>2. \A v \in Workers : work'[v] = IF v = w THEN t ELSE work[v]
  BY DEF SwapInv, SwapTyped
<1>3. \A v \in Workers : TaskSound(v, work[v])'
  BY <1>2 DEF SwapInv, TaskSound, Sent
<1>4. \A s \in Swaps : SwapSound(s)'
  BY DEF SwapInv, SwapSound, Sent
<1> QED BY <1>1, <1>3, <1>4 DEF SwapInv

(* Every write of a row by a worker that then goes on.                     *)
LEMMA RowIsWritten ==
  ASSUME SwapInv, NEW w \in Workers, NEW t \in Task, NEW s \in Swaps, NEW r, r.st \in Begun,
         r \in [st : Swapper!Requested \cup {"none", "route_unavailable"} \cup Begun,
                hash : Workers \cup {None}],
         r.st = "completed" => r.hash \in Workers /\ Sent(s, r.hash),
         row' = [row EXCEPT ![s] = r], work' = [work EXCEPT ![w] = t], UNCHANGED leg,
         t.at = "idle" \/ (t.swap = s /\ t.at \in {"read", "send"} /\ leg[s][w] = "none")
  PROVE  SwapInv'
<1>1. SwapTyped'
  BY DEF SwapInv, SwapTyped
<1>2. /\ \A v \in Workers : work'[v] = IF v = w THEN t ELSE work[v]
      /\ \A x \in Swaps : row'[x] = IF x = s THEN r ELSE row[x]
  BY DEF SwapInv, SwapTyped
<1>3. ASSUME NEW v \in Workers PROVE TaskSound(v, work[v])'
  <2>1. CASE v = w
    BY <1>2, <2>1 DEF TaskSound, Sent
  <2>2. CASE v # w
    BY <1>2, <2>2 DEF SwapInv, TaskSound, Sent
  <2> QED BY <2>1, <2>2
<1>4. ASSUME NEW x \in Swaps PROVE SwapSound(x)'
  <2>1. CASE x = s
    BY <1>2, <2>1 DEF SwapInv, SwapSound, Sent
  <2>2. CASE x # s
    BY <1>2, <2>2 DEF SwapInv, SwapSound, Sent
  <2> QED BY <2>1, <2>2
<1> QED BY <1>1, <1>3, <1>4 DEF SwapInv

(* A worker has sent.                                                      *)
LEMMA SendsKeeps ==
  ASSUME SwapInv, NEW w \in Workers, work[w].at \in {"post", "send"}, Swapper!Sends(w),
         NEW at \in {"await", "complete", "fail"}, Swapper!Goto(w, at), at = "complete" => Signer,
         UNCHANGED row
  PROVE  SwapInv'
<1> DEFINE s == work[w].swap
<1>1. s \in Swaps /\ leg[s][w] = "none" /\ row[s].st \in Begun /\ work[w] \in Task
  BY DEF SwapInv, SwapTyped, TaskSound, Sent, Unsent
<1>2. /\ \A v \in Workers : work'[v] = IF v = w THEN [at |-> at, swap |-> s] ELSE work[v]
      /\ \A x \in Swaps, v \in Workers :
            leg'[x][v] = IF x = s /\ v = w THEN "sent" ELSE leg[x][v]
  BY <1>1 DEF SwapInv, SwapTyped, Swapper!Sends, Swapper!Goto, Task
<1>3. SwapTyped'
  BY <1>1 DEF SwapInv, SwapTyped, Swapper!Sends, Swapper!Goto, Task, SwapStages
<1>4. ASSUME NEW v \in Workers PROVE TaskSound(v, work[v])'
  <2>1. CASE v = w
    BY <1>1, <1>2, <2>1 DEF TaskSound, Sent, Unsent
  <2>2. CASE v # w
    BY <1>2, <2>2 DEF SwapInv, TaskSound, Sent
  <2> QED BY <2>1, <2>2
<1>5. ASSUME NEW x \in Swaps PROVE SwapSound(x)'
  <2>1. CASE x = s
    BY <1>1, <1>2, <2>1 DEF SwapInv, SwapSound, Sent
  <2>2. CASE x # s
    BY <1>2, <2>2 DEF SwapInv, SwapSound, Sent
  <2> QED BY <2>1, <2>2
<1> QED BY <1>3, <1>4, <1>5 DEF SwapInv

(* The chain answers.                                                      *)
LEMMA LandsKeeps ==
  ASSUME SwapInv, NEW s \in Swaps, NEW w \in Workers, Swapper!Lands(s, w)
  PROVE  SwapInv'
<1>1. /\ leg[s][w] = "sent" /\ UNCHANGED <<row, work>>
      /\ \A x \in Swaps, v \in Workers : x # s \/ v # w => leg'[x][v] = leg[x][v]
      /\ leg'[s][w] \in {"moved", "same", "refused"}
      /\ leg'[s][w] = "same" => Swapper!Repeated(s)
      /\ leg'[s][w] = "moved" => ~Swapper!Repeated(s)
  BY DEF SwapInv, SwapTyped, Swapper!Lands
<1>2. SwapTyped'
  BY DEF SwapInv, SwapTyped, Swapper!Lands
<1>3. ASSUME NEW v \in Workers PROVE TaskSound(v, work[v])'
  <2>1. CASE work[v].swap = s /\ v = w
    BY <1>1, <2>1 DEF SwapInv, TaskSound, Sent
  <2>2. CASE ~(work[v].swap = s /\ v = w)
    BY <1>1, <2>2 DEF SwapInv, TaskSound, Sent
  <2> QED BY <2>1, <2>2
<1>4. ASSUME NEW x \in Swaps PROVE SwapSound(x)'
  <2>1. CASE x # s
    BY <1>1, <2>1 DEF SwapInv, SwapSound, Sent
  <2>2. CASE x = s
    <3>1. SwapSound(s) /\ row[s].st \in Begun
      BY <1>1 DEF SwapInv, SwapSound, Sent
    <3>2. row[s].st = "completed" => row[s].hash \in Workers /\ Sent(s, row[s].hash)'
      BY <1>1, <3>1 DEF SwapSound, Sent
    <3>3. ASSUME Signer, NEW u \in Workers, NEW v \in Workers,
                 leg'[s][u] = "moved", leg'[s][v] = "moved"
          PROVE  u = v
      BY <1>1, <3>1, <3>3 DEF SwapSound, Swapper!Repeated
    <3> QED BY <1>1, <2>2, <3>1, <3>2, <3>3 DEF SwapSound, Sent
  <2> QED BY <2>1, <2>2
<1> QED BY <1>2, <1>3, <1>4 DEF SwapInv

LEMMA SwapNext == SwapInv /\ [Swapper!Next]_Swapper!vars => SwapInv'
<1> SUFFICES ASSUME SwapInv, [Swapper!Next]_Swapper!vars PROVE SwapInv'
  OBVIOUS
<1>0. \A w \in Workers : /\ work[w] \in Task /\ TaskSound(w, work[w])
                         /\ work[w].at # "idle" => work[w].swap \in Swaps
  BY DEF SwapInv, SwapTyped, TaskSound, Sent
<1>1. ASSUME UNCHANGED <<row, work, leg>> PROVE SwapInv'
  BY <1>1 DEF SwapInv, SwapTyped, TaskSound, SwapSound, Sent
<1>2. ASSUME NEW s \in Swaps, Swapper!HandleSwapExecute(s) PROVE SwapInv'
  <2>1. /\ row[s].st = "none" /\ UNCHANGED <<work, leg>>
        /\ row' = [row EXCEPT ![s].st = "execution_requested"]
    BY <1>2 DEF Swapper!HandleSwapExecute, Swapper!CreateSwap, Swapper!NoRow
  <2>2. SwapTyped'
    <3>1. "execution_requested" \in Swapper!Requested
      BY DEF Swapper!Requested
    <3> QED BY <2>1, <3>1 DEF SwapInv, SwapTyped
  <2>3. \A x \in Swaps : /\ x # s => row'[x] = row[x]
                         /\ x = s => row'[x].st = "execution_requested" /\ row[x].st \notin Begun
    BY <2>1 DEF SwapInv, SwapTyped, Begun
  <2>4. \A w \in Workers : TaskSound(w, work[w])'
    BY <2>1, <2>3 DEF SwapInv, TaskSound, Sent
  <2>5. \A x \in Swaps : SwapSound(x)'
    BY <2>1, <2>3 DEF SwapInv, SwapSound, Sent, Begun
  <2> QED BY <2>2, <2>4, <2>5 DEF SwapInv
<1>3. ASSUME NEW w \in Workers, NEW s \in Swaps, Swapper!ExecuteSwap(w, s), UNCHANGED <<row, leg>>
      PROVE  SwapInv'
  <2>1. CASE row[s].st \in Swapper!Requested
    <3> DEFINE t == [at |-> IF config = "off" THEN "off" ELSE "mark", swap |-> s]
    <3>1. t \in Task /\ work' = [work EXCEPT ![w] = t]
      BY <1>3, <2>1 DEF Swapper!ExecuteSwap, Task, SwapStages
    <3>2. leg[s][w] = "none"
      BY <2>1 DEF SwapInv, SwapSound, Sent, Swapper!Requested, Begun
    <3>3. TaskSound(w, t)
      BY <3>2 DEF TaskSound, Sent, Unsent
    <3> QED BY <1>3, <3>1, <3>3, WorkerGoesOn
  <2>2. CASE row[s].st \notin Swapper!Requested
    BY <1>1, <1>3, <2>2 DEF Swapper!ExecuteSwap
  <2> QED BY <2>1, <2>2
<1>4. ASSUME NEW w \in Workers, Swapper!Ends(w), UNCHANGED <<row, leg>> PROVE SwapInv'
  <2>1. Swapper!Idle \in Task /\ TaskSound(w, Swapper!Idle)
    BY DEF Swapper!Idle, Task, SwapStages, TaskSound, Sent
  <2> QED BY <1>4, <2>1, WorkerGoesOn DEF Swapper!Ends
<1>5. \A w \in Workers, at \in SwapStages :
         Swapper!Goto(w, at) => work' = [work EXCEPT ![w] = [at |-> at, swap |-> work[w].swap]]
  BY <1>0 DEF Swapper!Goto, Task
<1>6. ASSUME NEW w \in Workers, NEW at \in SwapStages, Swapper!Goto(w, at), UNCHANGED <<row, leg>>,
             TaskSound(w, [at |-> at, swap |-> work[w].swap])
      PROVE  SwapInv'
  <2>1. [at |-> at, swap |-> work[w].swap] \in Task
    BY <1>0 DEF Task
  <2>2. work' = [work EXCEPT ![w] = [at |-> at, swap |-> work[w].swap]]
    BY <1>5, <1>6
  <2> QED BY <1>6, <2>1, <2>2, WorkerGoesOn
<1>7. ASSUME NEW w \in Workers, NEW st \in Begun, st # "completed", Swapper!Status(w, st),
             work[w].at # "idle", UNCHANGED leg, NEW t \in Task, work' = [work EXCEPT ![w] = t],
             \/ t.at = "idle"
             \/ t.swap = work[w].swap /\ t.at \in {"read", "send"} /\ leg[work[w].swap][w] = "none"
      PROVE  SwapInv'
  <2> DEFINE s == work[w].swap
             r == [row[s] EXCEPT !.st = st]
  <2>1. s \in Swaps
    BY <1>0, <1>7
  <2>2. /\ r \in [st : Swapper!Requested \cup {"none", "route_unavailable"} \cup Begun,
                  hash : Workers \cup {None}]
        /\ r.st = st /\ row' = [row EXCEPT ![s] = r]
    BY <1>7, <2>1 DEF SwapInv, SwapTyped, Swapper!Status
  <2> HIDE DEF r
  <2> QED BY <1>7, <2>1, <2>2, RowIsWritten
<1>8. Swapper!Idle \in Task /\ Swapper!Idle.at = "idle"
  BY DEF Swapper!Idle, Task, SwapStages
<1>9. ASSUME NEW w \in Workers, Swapper!MarkSwapRouteUnavailable(w) PROVE SwapInv'
  <2> DEFINE s == work[w].swap
  <2>1. CASE row[s].st \in Swapper!Requested /\ Swapper!Status(w, "route_unavailable")
    <3>1. /\ s \in Swaps /\ UNCHANGED leg /\ work' = [work EXCEPT ![w] = Swapper!Idle]
          /\ row' = [row EXCEPT ![s].st = "route_unavailable"]
      BY <1>0, <1>9, <2>1 DEF Swapper!MarkSwapRouteUnavailable, Swapper!At, Swapper!Status, Swapper!Ends
    <3>2. SwapTyped'
      BY <1>8, <3>1 DEF SwapInv, SwapTyped
    <3>3. /\ \A v \in Workers : work'[v] = IF v = w THEN Swapper!Idle ELSE work[v]
          /\ row'[s].st = "route_unavailable" /\ row[s].st \notin Begun
          /\ \A x \in Swaps : x # s => row'[x] = row[x]
      BY <2>1, <3>1 DEF SwapInv, SwapTyped, Swapper!Requested, Begun
    <3>4. \A v \in Workers : TaskSound(v, work[v])'
      BY <1>8, <3>1, <3>3 DEF SwapInv, TaskSound, Sent
    <3>5. ASSUME NEW x \in Swaps PROVE SwapSound(x)'
      BY <3>1, <3>3 DEF SwapInv, SwapSound, Sent, Begun
    <3> QED BY <3>2, <3>4, <3>5 DEF SwapInv
  <2>2. CASE UNCHANGED row
    BY <1>4, <1>9, <2>2 DEF Swapper!MarkSwapRouteUnavailable
  <2> QED BY <1>9, <2>1, <2>2 DEF Swapper!MarkSwapRouteUnavailable
<1>10. ASSUME NEW w \in Workers, Swapper!MarkSigning(w) PROVE SwapInv'
  <2> DEFINE t == [at |-> "read", swap |-> work[w].swap]
  <2>0. /\ work[w].at = "mark" /\ UNCHANGED leg /\ leg[work[w].swap][w] = "none"
        /\ t \in Task /\ TaskSound(w, t)
    BY <1>0, <1>10 DEF Swapper!MarkSigning, Swapper!At, TaskSound, Sent, Unsent, Task, SwapStages
  <2>1. CASE Swapper!Status(w, "signing") /\ Swapper!Goto(w, "read")
    <3>1. work' = [work EXCEPT ![w] = t]
      BY <1>5, <2>1 DEF SwapStages
    <3> QED BY <1>7, <2>0, <2>1, <3>1 DEF Begun
  <2>2. CASE UNCHANGED row /\ Swapper!Goto(w, "read")
    BY <1>6, <2>0, <2>2 DEF SwapStages
  <2>3. CASE UNCHANGED row /\ Swapper!Ends(w)
    BY <1>4, <2>0, <2>3
  <2> QED BY <1>10, <2>1, <2>2, <2>3 DEF Swapper!MarkSigning
<1>11. ASSUME NEW w \in Workers, work[w].at # "idle", Swapper!Goto(w, "fail"), UNCHANGED <<row, leg>>
       PROVE  SwapInv'
  <2>1. TaskSound(w, [at |-> "fail", swap |-> work[w].swap])
    BY <1>0, <1>11 DEF TaskSound, Sent, Unsent
  <2> QED BY <1>6, <1>11, <2>1 DEF SwapStages
<1>12. ASSUME NEW w \in Workers,
              \/ work[w].at = "read" /\ row[work[w].swap].st = "signing" /\ Swapper!Goto(w, "check")
              \/ work[w].at = "check" /\ Swapper!Goto(w, "key")
              \/ work[w].at = "key" /\ ((Signer /\ Swapper!Goto(w, "post")) \/ Swapper!Goto(w, "price"))
              \/ work[w].at = "price" /\ Swapper!Goto(w, "approve")
              \/ work[w].at = "approve" /\ Swapper!Goto(w, "broadcast")
              \/ work[w].at = "broadcast" /\ Swapper!Goto(w, "send"),
              UNCHANGED <<row, leg>>
       PROVE  SwapInv'
  <2>1. PICK at \in {"check", "key", "post", "price", "approve", "broadcast", "send"} :
           Swapper!Goto(w, at) /\ (at = "post" => Signer)
    BY <1>12
  <2>2. work[w].swap \in Swaps /\ leg[work[w].swap][w] = "none" /\ row[work[w].swap].st \in Begun
    BY <1>0, <1>12 DEF TaskSound, Sent, Unsent, Begun
  <2>3. TaskSound(w, [at |-> at, swap |-> work[w].swap])
    BY <2>1, <2>2 DEF TaskSound, Sent
  <2>4. at \in SwapStages
    BY DEF SwapStages
  <2> QED BY <1>6, <1>12, <2>1, <2>3, <2>4
<1>13. ASSUME NEW w \in Workers, \/ Swapper!PancakeSwapInstruction(w) \/ Swapper!ExecutePancakeSwap(w)
                                 \/ Swapper!MobileSwapWalletKey(w) \/ Swapper!CheckAmountsOut(w)
                                 \/ Swapper!Approve(w)
       PROVE  SwapInv'
  <2>1. UNCHANGED <<row, leg>>
    BY <1>13 DEF Swapper!PancakeSwapInstruction, Swapper!ExecutePancakeSwap, Swapper!MobileSwapWalletKey,
                 Swapper!CheckAmountsOut, Swapper!Approve, Swapper!OnlyWork
  <2>2. CASE Swapper!PancakeSwapInstruction(w)
    BY <1>11, <1>12, <2>1, <2>2 DEF Swapper!PancakeSwapInstruction, Swapper!At
  <2>3. CASE Swapper!ExecutePancakeSwap(w)
    BY <1>11, <1>12, <2>1, <2>3 DEF Swapper!ExecutePancakeSwap, Swapper!At
  <2>4. CASE Swapper!MobileSwapWalletKey(w)
    BY <1>11, <1>12, <2>1, <2>4 DEF Swapper!MobileSwapWalletKey, Swapper!At
  <2>5. CASE Swapper!CheckAmountsOut(w)
    BY <1>11, <1>12, <2>1, <2>5 DEF Swapper!CheckAmountsOut, Swapper!At
  <2>6. CASE Swapper!Approve(w)
    BY <1>11, <1>12, <2>1, <2>6 DEF Swapper!Approve, Swapper!At
  <2> QED BY <1>13, <2>2, <2>3, <2>4, <2>5, <2>6
<1>14. ASSUME NEW w \in Workers, Swapper!ExecuteViaSigner(w) \/ Swapper!SendPancakeTransaction(w)
       PROVE  SwapInv'
  <2>1. /\ work[w].at \in {"post", "send"} /\ UNCHANGED row
        /\ \/ Swapper!Sends(w) /\ Signer /\ Swapper!Goto(w, "complete")
           \/ Swapper!Sends(w) /\ Swapper!Goto(w, "await")
           \/ Swapper!Sends(w) /\ Swapper!Goto(w, "fail")
           \/ Swapper!Goto(w, "fail") /\ UNCHANGED leg
    BY <1>0, <1>14 DEF Swapper!ExecuteViaSigner, Swapper!SendPancakeTransaction, Swapper!At, TaskSound
  <2> QED BY <1>11, <2>1, SendsKeeps
<1>15. ASSUME NEW w \in Workers, Swapper!MarkBroadcast(w) PROVE SwapInv'
  <2> DEFINE t == [at |-> "send", swap |-> work[w].swap]
  <2>0. /\ work[w].at = "broadcast" /\ UNCHANGED leg /\ leg[work[w].swap][w] = "none" /\ t \in Task
    BY <1>0, <1>15 DEF Swapper!MarkBroadcast, Swapper!At, TaskSound, Sent, Unsent, Task, SwapStages
  <2>1. CASE Swapper!Status(w, "broadcast") /\ Swapper!Goto(w, "send")
    <3>1. work' = [work EXCEPT ![w] = t]
      BY <1>5, <2>1 DEF SwapStages
    <3> QED BY <1>7, <2>0, <2>1, <3>1 DEF Begun
  <2>2. CASE UNCHANGED row /\ Swapper!Goto(w, "send")
    BY <1>12, <2>0, <2>2
  <2>3. CASE UNCHANGED row /\ Swapper!Goto(w, "fail")
    BY <1>11, <2>0, <2>3
  <2> QED BY <1>15, <2>1, <2>2, <2>3 DEF Swapper!MarkBroadcast
<1>16. ASSUME NEW w \in Workers, Swapper!WaitPancakeReceipt(w) PROVE SwapInv'
  <2>1. work[w].at = "await" /\ UNCHANGED <<row, leg>>
    BY <1>16 DEF Swapper!WaitPancakeReceipt, Swapper!At, Swapper!OnlyWork
  <2>2. CASE leg[work[w].swap][w] = "moved" /\ Swapper!Goto(w, "complete")
    <3>1. TaskSound(w, [at |-> "complete", swap |-> work[w].swap])
      BY <1>0, <2>1, <2>2 DEF TaskSound, Sent, Unsent
    <3> QED BY <1>6, <2>1, <2>2, <3>1 DEF SwapStages
  <2> QED BY <1>11, <1>16, <2>1, <2>2 DEF Swapper!WaitPancakeReceipt
<1>17. ASSUME NEW w \in Workers, Swapper!CompleteSwap(w) PROVE SwapInv'
  <2> DEFINE s == work[w].swap
             r == [st |-> "completed", hash |-> w]
  <2>1. /\ s \in Swaps /\ Sent(s, w) /\ UNCHANGED leg
        /\ work' = [work EXCEPT ![w] = Swapper!Idle]
    BY <1>0, <1>17 DEF Swapper!CompleteSwap, Swapper!At, Swapper!Ends, TaskSound, Sent
  <2>2. CASE row' = [row EXCEPT ![s] = r]
    <3>1. r \in [st : Swapper!Requested \cup {"none", "route_unavailable"} \cup Begun,
                 hash : Workers \cup {None}] /\ r.st \in Begun /\ r.hash = w
      BY DEF Begun
    <3> HIDE DEF r
    <3> QED BY <1>8, <2>1, <2>2, <3>1, RowIsWritten
  <2>3. CASE UNCHANGED row
    BY <1>4, <1>17, <2>3 DEF Swapper!CompleteSwap
  <2> QED BY <1>17, <2>2, <2>3 DEF Swapper!CompleteSwap
<1>18. ASSUME NEW w \in Workers, Swapper!FailSwap(w) PROVE SwapInv'
  <2>1. CASE Swapper!Status(w, "failed")
    BY <1>7, <1>8, <1>18, <2>1 DEF Swapper!FailSwap, Swapper!At, Swapper!Ends, Begun
  <2>2. CASE UNCHANGED row
    BY <1>4, <1>18, <2>2 DEF Swapper!FailSwap
  <2> QED BY <1>18, <2>1, <2>2 DEF Swapper!FailSwap
<1>19. ASSUME NEW w \in Workers, Swapper!Restart(w) PROVE SwapInv'
  BY <1>4, <1>19 DEF Swapper!Restart
<1>20. ASSUME NEW w \in Workers, NEW s \in Swaps, Swapper!Receive(w, s) \/ Swapper!RetryPending(w, s)
       PROVE  SwapInv'
  BY <1>3, <1>20 DEF Swapper!Receive, Swapper!RetryPending, Swapper!OnlyWork
<1>21. ASSUME NEW s \in Swaps, Swapper!HandleSwapQuote(s) \/ Swapper!QuoteExpires(s) PROVE SwapInv'
  BY <1>1, <1>21 DEF Swapper!HandleSwapQuote, Swapper!QuoteExpires
<1>22. ASSUME Swapper!PriceMoves \/ Swapper!Reconfigure \/ UNCHANGED Swapper!vars PROVE SwapInv'
  BY <1>1, <1>22 DEF Swapper!PriceMoves, Swapper!Reconfigure, Swapper!vars
<1> QED BY <1>2, <1>9, <1>10, <1>13, <1>14, <1>15, <1>16, <1>17, <1>18, <1>19, <1>20, <1>21, <1>22,
          LandsKeeps DEF Swapper!Next

LEMMA SwapInit == Swapper!Init => SwapInv
BY DEF Swapper!Init, Swapper!NoRow, Swapper!Idle, SwapInv, SwapTyped, TaskSound, SwapSound, Sent, Begun, Task, SwapStages

LEMMA SwapInvEnough == SwapInv => Swapper!SignerMovesOnce /\ Swapper!ToldIsTrue
<1> SUFFICES ASSUME SwapInv PROVE Swapper!SignerMovesOnce /\ Swapper!ToldIsTrue
  OBVIOUS
<1>1. ASSUME Signer, NEW s \in Swaps PROVE Cardinality(Swapper!Moved(s)) <= 1
  <2>1. CASE Swapper!Moved(s) = {}
    BY <2>1, FS_EmptySet
  <2>2. ASSUME NEW w \in Swapper!Moved(s) PROVE Cardinality(Swapper!Moved(s)) <= 1
    <3>1. Swapper!Moved(s) = {w}
      BY <1>1, <2>2 DEF SwapInv, SwapSound, Swapper!Moved
    <3> QED BY <3>1, FS_Singleton
  <2> QED BY <2>1, <2>2
<1>2. ASSUME NEW s \in Swaps
      PROVE  /\ row[s].st = "completed" =>
                   /\ row[s].hash \in Workers /\ leg[s][row[s].hash] # "none"
                   /\ ~Signer => leg[s][row[s].hash] = "moved"
             /\ row[s].st \in Swapper!Requested \cup {"none", "route_unavailable"} =>
                   \A w \in Workers : leg[s][w] = "none"
  BY DEF SwapInv, SwapSound, Sent, Swapper!Requested, Begun
<1>3. \A S : Swapper!Cardinality(S) = Cardinality(S)
  BY DEF Swapper!Cardinality, Cardinality, Swapper!IsFiniteSet, IsFiniteSet
<1> QED BY <1>1, <1>2, <1>3 DEF Swapper!SignerMovesOnce, Swapper!ToldIsTrue

(* Through the signer a swap moves tokens at most once, and what its row   *)
(* tells is true, whatever the workers do (workers/swap.go).               *)
THEOREM SwapsMoveOnce == Swapper!Spec => [](Swapper!SignerMovesOnce /\ Swapper!ToldIsTrue)
BY SwapInit, SwapNext, SwapInvEnough, PTL DEF Swapper!Spec

-----------------------------------------------------------------------------
(* Quotes and charges of BUY orders, for any number of requests, quotes    *)
(* and tokens.                                                             *)
CONSTANTS Requests, Quotes, MarketRates, MaxTokens
VARIABLES bcPrice, bcQuote, bcReq, bcToken, bcRefreshing, bcClosed, bcIssued, bcRevoked, bcCharge, bcOrder
Checkout == INSTANCE BuyCheckout WITH Prices <- MarketRates, price <- bcPrice, quote <- bcQuote,
    req <- bcReq, token <- bcToken, refreshing <- bcRefreshing, closed <- bcClosed, issued <- bcIssued,
    revoked <- bcRevoked, charge <- bcCharge, order <- bcOrder

QuoteRow == [rate : MarketRates, native : BOOLEAN, rail : Checkout!Rails,
             total : Nat, consumed : BOOLEAN, expired : BOOLEAN]
RequestRow == [at : Checkout!Stages, quote : Quotes \cup {None}, native : BOOLEAN,
               rail : Checkout!Rails, rate : MarketRates \cup {0}, total : Nat, step : {"charge", "pay"},
               token : Nat, use : Nat, channel : Nat, again : BOOLEAN]
ChargeRow == [made : Nat, paid : Nat, amount : Nat]

(* Rates are positive, and no quote, row or rate is the absence of one.    *)
CheckoutAssumption ==
    MarketRates \subseteq Nat \ {0} /\ None \notin Quotes \cup QuoteRow

CheckoutTyped ==
    /\ bcPrice \in MarketRates \cup {0} /\ bcQuote \in [Quotes -> QuoteRow \cup {None}]
    /\ bcReq \in [Requests -> RequestRow] /\ bcCharge \in [Requests -> ChargeRow]
    /\ bcToken \in [Checkout!Rails -> Nat] /\ bcIssued \in [Checkout!Rails -> Nat]
    /\ bcClosed \in [Checkout!Rails -> Nat] /\ bcRefreshing \in [Checkout!Rails -> BOOLEAN]
    /\ bcOrder \in [Requests -> Nat \cup {None}]

(* What Efi has of a request, by where the request is.                     *)
Charging == {"token", "wait", "fetch", "store", "finish", "send"}
ChargeSound(n, c, o) ==
    /\ c.made <= 1 /\ c.paid <= c.made
    /\ n.at # "done" => o = None
    /\ n.at = "new" => n = Checkout!NewRequest
    /\ n.at \in Charging \cup {"new"} /\ n.step = "charge" => c.made = 0
    /\ n.at \in Charging /\ n.step = "pay" =>
          c.made = 1 /\ c.paid = 0 /\ c.amount = n.total /\ n.rail = "card"
    /\ n.at = "qr" => c.made = 1 /\ c.amount = n.total /\ n.rail = "pix"
    /\ n.at = "insert" => c.made = 1 /\ c.amount = n.total /\ (n.rail = "card" => c.paid = 1)
    /\ n.at = "done" => c.made = 1 /\ c.amount = o /\ (n.rail = "card" => c.paid = 1)

(* What a request has of the quote it consumed.                            *)
TermsSound(n, o, q) ==
    LET total == q.total + Checkout!ProviderFee(q.native) IN
    /\ q \in QuoteRow /\ q.consumed /\ n.rate = q.rate
    /\ IF n.at = "done" THEN o = total ELSE n.total = total
CheckoutSound(r) ==
    /\ ChargeSound(bcReq[r], bcCharge[r], bcOrder[r])
    /\ bcReq[r].quote # None => TermsSound(bcReq[r], bcOrder[r], bcQuote[bcReq[r].quote])
OneRequestEach == \A r, s \in Requests : bcReq[r].quote = bcReq[s].quote => r = s \/ bcReq[r].quote = None

(* One request fetches for all of its rail, and closes what they wait for. *)
AtToken(n) == n.at \in {"fetch", "store", "finish"}
TokensSound ==
    /\ \A l \in Checkout!Rails : bcRefreshing[l] =>
          \E r \in Requests : bcReq[r].rail = l /\ AtToken(bcReq[r])
    /\ \A r, s \in Requests : AtToken(bcReq[r]) /\ AtToken(bcReq[s])
                              /\ bcReq[r].rail = bcReq[s].rail => r = s
    /\ \A r \in Requests :
          /\ AtToken(bcReq[r]) => bcRefreshing[bcReq[r].rail]
          /\ bcReq[r].at = "wait" => bcReq[r].channel <= bcClosed[bcReq[r].rail]
                \/ (bcRefreshing[bcReq[r].rail] /\ bcReq[r].channel = bcClosed[bcReq[r].rail] + 1)

CheckoutInv == /\ CheckoutTyped /\ OneRequestEach /\ TokensSound
               /\ \A r \in Requests : CheckoutSound(r)

LEMMA CheckoutInit == CheckoutAssumption /\ Checkout!Init => CheckoutInv
<1> SUFFICES ASSUME CheckoutAssumption, Checkout!Init PROVE CheckoutInv
  OBVIOUS
<1>1. Checkout!NewRequest \in RequestRow
  BY DEF Checkout!NewRequest, RequestRow, Checkout!Stages, Checkout!Rails
<1>2. CheckoutTyped
  BY <1>1 DEF CheckoutTyped, Checkout!Init, ChargeRow
<1>3. OneRequestEach /\ TokensSound
  BY DEF OneRequestEach, TokensSound, AtToken, Checkout!Init, Checkout!NewRequest
<1>4. \A r \in Requests : CheckoutSound(r)
  BY DEF CheckoutSound, ChargeSound, Charging, Checkout!Init, Checkout!NewRequest
<1> QED BY <1>2, <1>3, <1>4 DEF CheckoutInv

(* A request that moves on with the terms it has, or ends without them,    *)
(* and the quotes, charges and orders stay.                                *)
LEMMA TermsStay ==
  ASSUME CheckoutInv, NEW r \in Requests, NEW n \in RequestRow, bcReq' = [bcReq EXCEPT ![r] = n],
         UNCHANGED <<bcQuote, bcCharge, bcOrder>>,
         ChargeSound(n, bcCharge[r], bcOrder[r]),
         n.quote \in {None, bcReq[r].quote},
         n.quote # None => TermsSound(n, bcOrder[r], bcQuote[n.quote])
  PROVE  OneRequestEach' /\ \A s \in Requests : CheckoutSound(s)'
<1>1. \A s \in Requests : bcReq'[s] = IF s = r THEN n ELSE bcReq[s]
  BY DEF CheckoutInv, CheckoutTyped
<1>2. OneRequestEach'
  BY <1>1 DEF CheckoutInv, OneRequestEach
<1>3. ASSUME NEW s \in Requests PROVE CheckoutSound(s)'
  <2>1. CASE s = r
    BY <1>1, <2>1 DEF CheckoutSound
  <2>2. CASE s # r
    BY <1>1, <2>2 DEF CheckoutInv, CheckoutSound
  <2> QED BY <2>1, <2>2
<1> QED BY <1>2, <1>3

Same(n, m) == n.quote = m.quote /\ n.rate = m.rate /\ n.total = m.total /\ n.rail = m.rail
              /\ n.step = m.step

LEMMA ChargingGoesOn ==
  ASSUME CheckoutInv, NEW r \in Requests, NEW n \in RequestRow, bcReq' = [bcReq EXCEPT ![r] = n],
         UNCHANGED <<bcQuote, bcCharge, bcOrder>>, bcReq[r].at \in Charging, n.at \in Charging,
         Same(n, bcReq[r])
  PROVE  OneRequestEach' /\ \A s \in Requests : CheckoutSound(s)'
<1>1. ChargeSound(n, bcCharge[r], bcOrder[r])
  BY DEF CheckoutInv, CheckoutSound, ChargeSound, Charging, Same
<1>2. n.quote # None => TermsSound(n, bcOrder[r], bcQuote[n.quote])
  BY DEF CheckoutInv, CheckoutSound, TermsSound, Charging, Same
<1> QED BY <1>1, <1>2, TermsStay DEF Same

Ended == [Checkout!NewRequest EXCEPT !.at = "failed"]
LEMMA EndedTyped == /\ Ended \in RequestRow /\ Ended.at = "failed" /\ Ended.quote = None
                    /\ Ended.rail = "pix" /\ Ended.step = "charge"
BY DEF Ended, Checkout!NewRequest, RequestRow, Checkout!Stages, Checkout!Rails

LEMMA FailsKeeps ==
  ASSUME CheckoutInv, NEW r \in Requests, Checkout!Fails(r),
         UNCHANGED <<bcQuote, bcCharge, bcOrder>>, bcReq[r].at # "done"
  PROVE  OneRequestEach' /\ \A s \in Requests : CheckoutSound(s)'
<1>1. bcReq' = [bcReq EXCEPT ![r] = Ended]
  BY DEF Checkout!Fails, Ended
<1>2. ChargeSound(Ended, bcCharge[r], bcOrder[r])
  BY EndedTyped DEF CheckoutInv, CheckoutSound, ChargeSound, Charging
<1> QED BY <1>1, <1>2, EndedTyped, TermsStay

(* The tokens: a request that is not at the token endpoint and does not    *)
(* wait there leaves them as they are.                                     *)
LEMMA TokensStay ==
  ASSUME CheckoutInv, NEW r \in Requests, NEW n \in RequestRow, bcReq' = [bcReq EXCEPT ![r] = n],
         UNCHANGED <<bcRefreshing, bcClosed>>, ~AtToken(bcReq[r]), ~AtToken(n), n.at # "wait"
  PROVE  TokensSound'
<1>1. \A s \in Requests : bcReq'[s] = IF s = r THEN n ELSE bcReq[s]
  BY DEF CheckoutInv, CheckoutTyped
<1> QED BY <1>1 DEF CheckoutInv, TokensSound

(* What is typed.                                                          *)
LEMMA CheckoutStaysTyped ==
  ASSUME CheckoutInv, NEW r \in Requests, NEW n \in RequestRow, bcReq' = [bcReq EXCEPT ![r] = n],
         UNCHANGED <<bcPrice, bcOrder>>, bcQuote' \in [Quotes -> QuoteRow \cup {None}],
         bcCharge' \in [Requests -> ChargeRow], bcToken' \in [Checkout!Rails -> Nat],
         bcIssued' \in [Checkout!Rails -> Nat], bcClosed' \in [Checkout!Rails -> Nat],
         bcRefreshing' \in [Checkout!Rails -> BOOLEAN]
  PROVE  CheckoutTyped'
BY DEF CheckoutInv, CheckoutTyped

LEMMA RequestTyped ==
  ASSUME CheckoutInv, NEW r \in Requests
  PROVE  /\ bcReq[r] \in RequestRow /\ bcReq[r].rail \in Checkout!Rails
         /\ bcReq[r].use \in Nat /\ bcReq[r].token \in Nat /\ bcReq[r].channel \in Nat
         /\ bcCharge[r] \in ChargeRow
         /\ bcClosed[bcReq[r].rail] \in Nat /\ bcToken[bcReq[r].rail] \in Nat
BY DEF CheckoutInv, CheckoutTyped, RequestRow

LEMMA WithTokenGoesOn ==
  ASSUME CheckoutInv, NEW r \in Requests, NEW t \in Nat
  PROVE  LET n == Checkout!WithToken(r, t) IN
         n \in RequestRow /\ n.at = "send" /\ Same(n, bcReq[r])
BY RequestTyped DEF Checkout!WithToken, RequestRow, Same, Checkout!Stages

LEMMA BeginRefreshKeeps ==
  ASSUME CheckoutInv, NEW r \in Requests, Checkout!BeginEfiTokenRefresh(r) PROVE CheckoutInv'
<1> DEFINE l == bcReq[r].rail
<1>0. /\ bcReq[r].at = "token" /\ l \in Checkout!Rails /\ bcReq[r] \in RequestRow
      /\ UNCHANGED <<bcPrice, bcQuote, bcToken, bcClosed, bcIssued, bcCharge, bcOrder>>
  BY RequestTyped DEF Checkout!BeginEfiTokenRefresh
<1>1. CASE /\ bcReq' = [bcReq EXCEPT ![r] = Checkout!WithToken(r, bcToken[l])]
           /\ UNCHANGED bcRefreshing
  <2> DEFINE n == Checkout!WithToken(r, bcToken[l])
  <2>1. /\ n \in RequestRow /\ n.at = "send" /\ Same(n, bcReq[r])
        /\ bcReq' = [bcReq EXCEPT ![r] = n]
    BY <1>1, WithTokenGoesOn, RequestTyped
  <2> HIDE DEF n
  <2>2. TokensSound'
    BY <1>0, <1>1, <2>1, TokensStay DEF AtToken
  <2>3. CheckoutTyped'
    BY <1>0, <1>1, <2>1, CheckoutStaysTyped DEF CheckoutInv, CheckoutTyped
  <2> QED BY <1>0, <1>1, <2>1, <2>2, <2>3, ChargingGoesOn DEF CheckoutInv, Charging
<1>2. CASE /\ bcRefreshing[l]
           /\ bcReq' = [bcReq EXCEPT ![r].at = "wait", ![r].channel = bcClosed[l] + 1]
           /\ UNCHANGED bcRefreshing
  <2> DEFINE c == bcClosed[l] + 1
             n == [bcReq[r] EXCEPT !.at = "wait", !.channel = c]
  <2>0. c \in Nat /\ bcReq' = [bcReq EXCEPT ![r].at = "wait", ![r].channel = c]
    BY <1>2, RequestTyped
  <2> HIDE DEF c
  <2>1. /\ n \in RequestRow /\ n.at = "wait" /\ Same(n, bcReq[r]) /\ n.channel = c
        /\ bcReq' = [bcReq EXCEPT ![r] = n]
    BY <1>0, <2>0 DEF RequestRow, Same, Checkout!Stages, CheckoutInv, CheckoutTyped
  <2> HIDE DEF n
  <2>2. \A s \in Requests : bcReq'[s] = IF s = r THEN n ELSE bcReq[s]
    BY <2>1 DEF CheckoutInv, CheckoutTyped
  <2>3. TokensSound'
    <3>1. \A s \in Requests : AtToken(bcReq'[s]) <=> AtToken(bcReq[s])
      BY <1>0, <2>1, <2>2 DEF AtToken
    <3>2. \A s \in Requests : bcReq'[s].rail = bcReq[s].rail
      BY <2>1, <2>2 DEF Same
    <3>3. UNCHANGED <<bcRefreshing, bcClosed>>
      BY <1>0, <1>2
    <3>4. \A s \in Requests : bcReq'[s].at = "wait" =>
             \/ bcReq[s].at = "wait" /\ bcReq'[s].channel = bcReq[s].channel
             \/ (bcRefreshing[bcReq[s].rail] /\ bcReq'[s].channel = bcClosed[bcReq[s].rail] + 1)
      BY <1>2, <2>1, <2>2 DEF c
    <3> QED BY <3>1, <3>2, <3>3, <3>4 DEF CheckoutInv, TokensSound
  <2>4. CheckoutTyped'
    BY <1>0, <1>2, <2>1, CheckoutStaysTyped DEF CheckoutInv, CheckoutTyped
  <2> QED BY <1>0, <1>2, <2>1, <2>3, <2>4, ChargingGoesOn DEF CheckoutInv, Charging
<1>3. CASE /\ ~bcRefreshing[l]
           /\ bcReq' = [bcReq EXCEPT ![r].at = "fetch"]
           /\ bcRefreshing' = [bcRefreshing EXCEPT ![l] = TRUE]
  <2> DEFINE n == [bcReq[r] EXCEPT !.at = "fetch"]
  <2>1. /\ n \in RequestRow /\ n.at = "fetch" /\ Same(n, bcReq[r])
        /\ bcReq' = [bcReq EXCEPT ![r] = n]
    BY <1>0, <1>3, RequestTyped DEF RequestRow, Same, Checkout!Stages, CheckoutInv, CheckoutTyped
  <2> HIDE DEF n
  <2>2. /\ \A s \in Requests : bcReq'[s] = IF s = r THEN n ELSE bcReq[s]
        /\ \A k \in Checkout!Rails : bcRefreshing'[k] = IF k = l THEN TRUE ELSE bcRefreshing[k]
    BY <1>3, <2>1 DEF CheckoutInv, CheckoutTyped
  <2>3. \A s \in Requests : bcReq[s].rail \in Checkout!Rails
    BY RequestTyped
  <2>4. TokensSound'
    <3>1. \A s \in Requests : AtToken(bcReq'[s]) <=> s = r \/ AtToken(bcReq[s])
      BY <2>1, <2>2 DEF AtToken
    <3>2. \A s \in Requests : /\ bcReq'[s].rail = bcReq[s].rail
                              /\ bcReq'[s].at = "wait" => bcReq'[s] = bcReq[s]
      BY <2>1, <2>2 DEF Same
    <3>3. \A s \in Requests : AtToken(bcReq[s]) => bcReq[s].rail # l
      BY <1>3 DEF CheckoutInv, TokensSound
    <3>4. ASSUME NEW k \in Checkout!Rails, bcRefreshing'[k]
          PROVE  \E s \in Requests : bcReq'[s].rail = k /\ AtToken(bcReq'[s])
      <4>1. CASE k = l
        BY <3>1, <3>2, <4>1
      <4>2. CASE k # l
        <5>1. PICK s \in Requests : bcReq[s].rail = k /\ AtToken(bcReq[s])
          BY <2>2, <3>4, <4>2 DEF CheckoutInv, TokensSound
        <5> QED BY <3>1, <3>2, <5>1
      <4> QED BY <4>1, <4>2
    <3>5. \A s, v \in Requests : AtToken(bcReq'[s]) /\ AtToken(bcReq'[v])
                                 /\ bcReq'[s].rail = bcReq'[v].rail => s = v
      BY <3>1, <3>2, <3>3 DEF CheckoutInv, TokensSound
    <3>6. ASSUME NEW s \in Requests
          PROVE  /\ AtToken(bcReq'[s]) => bcRefreshing'[bcReq'[s].rail]
                 /\ bcReq'[s].at = "wait" => bcReq'[s].channel <= bcClosed'[bcReq'[s].rail]
                       \/ (bcRefreshing'[bcReq'[s].rail]
                           /\ bcReq'[s].channel = bcClosed'[bcReq'[s].rail] + 1)
      <4>1. /\ AtToken(bcReq[s]) => bcRefreshing[bcReq[s].rail]
            /\ bcReq[s].at = "wait" => bcReq[s].channel <= bcClosed[bcReq[s].rail]
                  \/ (bcRefreshing[bcReq[s].rail]
                      /\ bcReq[s].channel = bcClosed[bcReq[s].rail] + 1)
        BY DEF CheckoutInv, TokensSound
      <4>2. bcReq[s].rail \in Checkout!Rails /\ bcReq'[s].rail = bcReq[s].rail
        BY <2>3, <3>2
      <4>3. bcRefreshing[bcReq[s].rail] => bcRefreshing'[bcReq[s].rail]
        BY <2>2, <4>2
      <4>4. ASSUME AtToken(bcReq'[s]) PROVE bcRefreshing'[bcReq'[s].rail]
        <5>1. CASE s = r
          BY <1>0, <2>2, <4>2, <5>1
        <5>2. CASE s # r
          BY <3>1, <4>1, <4>2, <4>3, <4>4, <5>2
        <5> QED BY <5>1, <5>2
      <4>5. ASSUME bcReq'[s].at = "wait"
            PROVE  bcReq'[s].channel <= bcClosed'[bcReq'[s].rail]
                     \/ (bcRefreshing'[bcReq'[s].rail]
                         /\ bcReq'[s].channel = bcClosed'[bcReq'[s].rail] + 1)
        <5>1. bcReq'[s] = bcReq[s] /\ UNCHANGED bcClosed
          BY <1>0, <3>2, <4>5
        <5> QED BY <4>1, <4>3, <4>5, <5>1
      <4> QED BY <4>4, <4>5
    <3> QED BY <3>4, <3>5, <3>6 DEF TokensSound
  <2>5. CheckoutTyped'
    BY <1>0, <1>3, <2>1, CheckoutStaysTyped DEF CheckoutInv, CheckoutTyped
  <2> QED BY <1>0, <1>3, <2>1, <2>4, <2>5, ChargingGoesOn DEF CheckoutInv, Charging
<1> QED BY <1>1, <1>2, <1>3 DEF Checkout!BeginEfiTokenRefresh

LEMMA WakesKeeps ==
  ASSUME CheckoutInv, NEW r \in Requests, Checkout!Wakes(r) PROVE CheckoutInv'
<1>0. /\ bcReq[r].at = "wait" /\ bcReq[r] \in RequestRow
      /\ UNCHANGED <<bcPrice, bcQuote, bcToken, bcRefreshing, bcClosed, bcIssued, bcCharge, bcOrder>>
  BY RequestTyped DEF Checkout!Wakes, Checkout!oauth
<1>1. CASE bcReq' = [bcReq EXCEPT ![r].at = "token", ![r].channel = 0]
  <2> DEFINE n == [bcReq[r] EXCEPT !.at = "token", !.channel = 0]
  <2>1. /\ n \in RequestRow /\ n.at = "token" /\ Same(n, bcReq[r])
        /\ bcReq' = [bcReq EXCEPT ![r] = n]
    BY <1>0, <1>1 DEF RequestRow, Same, Checkout!Stages, CheckoutInv, CheckoutTyped
  <2> HIDE DEF n
  <2>2. TokensSound' /\ CheckoutTyped'
    BY <1>0, <2>1, TokensStay, CheckoutStaysTyped DEF AtToken, CheckoutInv, CheckoutTyped
  <2> QED BY <1>0, <2>1, <2>2, ChargingGoesOn DEF CheckoutInv, Charging
<1>2. CASE Checkout!Fails(r)
  <2>1. TokensSound' /\ CheckoutTyped'
    BY <1>0, <1>2, EndedTyped, TokensStay, CheckoutStaysTyped
       DEF AtToken, CheckoutInv, CheckoutTyped, Checkout!Fails, Ended
  <2> QED BY <1>0, <1>2, <2>1, FailsKeeps DEF CheckoutInv
<1> QED BY <1>1, <1>2 DEF Checkout!Wakes

(* The request that fetches goes on at the token endpoint.                 *)
LEMMA FetchKeeps ==
  ASSUME CheckoutInv, NEW r \in Requests, Checkout!FetchToken(r) \/ Checkout!StoreEfiToken(r)
  PROVE  CheckoutInv'
<1>0. /\ AtToken(bcReq[r]) /\ bcReq[r].at \in Charging /\ bcReq[r] \in RequestRow
      /\ UNCHANGED <<bcPrice, bcQuote, bcRefreshing, bcClosed, bcCharge, bcOrder>>
      /\ bcToken' \in [Checkout!Rails -> Nat] /\ bcIssued' \in [Checkout!Rails -> Nat]
  BY RequestTyped DEF Checkout!FetchToken, Checkout!StoreEfiToken, AtToken, Charging, CheckoutInv, CheckoutTyped
<1>1. PICK at \in {"store", "finish"}, u \in Nat : bcReq' = [bcReq EXCEPT ![r].at = at, ![r].use = u]
  <2>1. bcIssued[bcReq[r].rail] + 1 \in Nat
    BY RequestTyped DEF CheckoutInv, CheckoutTyped
  <2>2. CASE Checkout!FetchToken(r)
    BY <2>1, <2>2 DEF Checkout!FetchToken
  <2>3. CASE Checkout!StoreEfiToken(r)
    <3>1. bcReq' = [bcReq EXCEPT ![r].at = "finish", ![r].use = bcReq[r].use]
      BY <2>3, RequestTyped DEF Checkout!StoreEfiToken, CheckoutInv, CheckoutTyped, RequestRow
    <3> QED BY <3>1, RequestTyped
  <2> QED BY <2>2, <2>3
<1> DEFINE n == [bcReq[r] EXCEPT !.at = at, !.use = u]
<1>2. /\ n \in RequestRow /\ AtToken(n) /\ n.at \in Charging /\ Same(n, bcReq[r])
      /\ bcReq' = [bcReq EXCEPT ![r] = n]
  BY <1>0, <1>1 DEF RequestRow, Same, AtToken, Charging, Checkout!Stages, CheckoutInv, CheckoutTyped
<1> HIDE DEF n
<1>3. \A s \in Requests : bcReq'[s] = IF s = r THEN n ELSE bcReq[s]
  BY <1>2 DEF CheckoutInv, CheckoutTyped
<1>4. n.at # "wait"
  BY <1>2 DEF AtToken
<1>5. TokensSound'
  BY <1>0, <1>2, <1>3, <1>4 DEF CheckoutInv, TokensSound, Same
<1>6. CheckoutTyped'
  BY <1>0, <1>2, CheckoutStaysTyped DEF CheckoutInv, CheckoutTyped
<1> QED BY <1>0, <1>2, <1>5, <1>6, ChargingGoesOn DEF CheckoutInv

LEMMA FinishKeeps ==
  ASSUME CheckoutInv, NEW r \in Requests, Checkout!FinishEfiTokenRefresh(r) PROVE CheckoutInv'
<1> DEFINE l == bcReq[r].rail
<1>0. /\ bcReq[r].at = "finish" /\ l \in Checkout!Rails /\ bcReq[r] \in RequestRow
      /\ bcClosed' = [bcClosed EXCEPT ![l] = bcClosed[l] + 1]
      /\ bcRefreshing' = [bcRefreshing EXCEPT ![l] = FALSE]
      /\ UNCHANGED <<bcPrice, bcQuote, bcToken, bcIssued, bcCharge, bcOrder>>
  BY RequestTyped DEF Checkout!FinishEfiTokenRefresh, Checkout!Closed
<1>1. PICK n \in RequestRow : /\ bcReq' = [bcReq EXCEPT ![r] = n] /\ n.at \in {"failed", "send"}
                              /\ n.at = "failed" => Checkout!Fails(r)
                              /\ n.at = "send" => Same(n, bcReq[r])
  <2>1. CASE bcReq[r].use = 0
    BY <1>0, <2>1, EndedTyped DEF Checkout!FinishEfiTokenRefresh, Checkout!Fails, Ended
  <2>2. CASE bcReq[r].use # 0
    <3>1. bcReq' = [bcReq EXCEPT ![r] = Checkout!WithToken(r, bcReq[r].use)]
      BY <2>2 DEF Checkout!FinishEfiTokenRefresh
    <3> QED BY <3>1, WithTokenGoesOn, RequestTyped
  <2> QED BY <2>1, <2>2
<1>2. /\ \A s \in Requests : bcReq'[s] = IF s = r THEN n ELSE bcReq[s]
      /\ \A k \in Checkout!Rails : /\ bcRefreshing'[k] <=> bcRefreshing[k] /\ k # l
                                   /\ bcClosed'[k] = IF k = l THEN bcClosed[l] + 1 ELSE bcClosed[k]
      /\ \A s \in Requests : bcReq[s].rail \in Checkout!Rails /\ bcReq[s].channel \in Nat
      /\ \A k \in Checkout!Rails : bcClosed[k] \in Nat
  BY <1>0, <1>1, RequestTyped DEF CheckoutInv, CheckoutTyped
<1>3. /\ \A s \in Requests : AtToken(bcReq'[s]) => s # r /\ bcReq'[s] = bcReq[s] /\ bcReq[s].rail # l
      /\ \A s \in Requests : bcReq'[s].at = "wait" => bcReq'[s] = bcReq[s]
  BY <1>0, <1>1, <1>2 DEF CheckoutInv, TokensSound, AtToken
<1>4. TokensSound'
  <2>1. ASSUME NEW k \in Checkout!Rails, bcRefreshing'[k]
        PROVE  \E s \in Requests : bcReq'[s].rail = k /\ AtToken(bcReq'[s])
    <3>1. PICK s \in Requests : bcReq[s].rail = k /\ AtToken(bcReq[s])
      BY <1>2, <2>1 DEF CheckoutInv, TokensSound
    <3>2. s # r
      BY <1>2, <2>1, <3>1
    <3> QED BY <1>2, <3>1, <3>2
  <2>2. ASSUME NEW s \in Requests, bcReq'[s].at = "wait"
        PROVE  bcReq'[s].channel <= bcClosed'[bcReq'[s].rail]
                 \/ (bcRefreshing'[bcReq'[s].rail]
                     /\ bcReq'[s].channel = bcClosed'[bcReq'[s].rail] + 1)
    <3> DEFINE k == bcReq[s].rail
               c == bcReq[s].channel
    <3>1. /\ c <= bcClosed[k] \/ (bcRefreshing[k] /\ c = bcClosed[k] + 1)
          /\ bcReq'[s] = bcReq[s] /\ k \in Checkout!Rails /\ c \in Nat /\ bcClosed[k] \in Nat
      BY <1>2, <1>3, <2>2 DEF CheckoutInv, TokensSound
    <3>2. CASE k = l
      BY <1>2, <3>1, <3>2
    <3>3. CASE k # l
      BY <1>2, <3>1, <3>3
    <3> QED BY <3>2, <3>3
  <2>3. \A s \in Requests : AtToken(bcReq'[s]) => bcRefreshing'[bcReq'[s].rail]
    BY <1>2, <1>3 DEF CheckoutInv, TokensSound
  <2>4. \A s, v \in Requests : AtToken(bcReq'[s]) /\ AtToken(bcReq'[v])
                               /\ bcReq'[s].rail = bcReq'[v].rail => s = v
    BY <1>3 DEF CheckoutInv, TokensSound
  <2> QED BY <2>1, <2>2, <2>3, <2>4 DEF TokensSound
<1>5. CheckoutTyped'
  <2>1. bcClosed' \in [Checkout!Rails -> Nat] /\ bcRefreshing' \in [Checkout!Rails -> BOOLEAN]
    BY <1>0 DEF CheckoutInv, CheckoutTyped
  <2> QED BY <1>0, <1>1, <2>1, CheckoutStaysTyped DEF CheckoutInv, CheckoutTyped
<1>6. OneRequestEach' /\ \A s \in Requests : CheckoutSound(s)'
  BY <1>0, <1>1, FailsKeeps, ChargingGoesOn DEF Charging
<1> QED BY <1>4, <1>5, <1>6 DEF CheckoutInv

(* What Efi makes of a call it takes.                                      *)
LEMMA OnePayment ==
  ASSUME NEW c \in ChargeRow, NEW d, d = [c EXCEPT !.paid = c.paid + 1]
  PROVE  d \in ChargeRow /\ d.made = c.made /\ d.paid = c.paid + 1 /\ d.amount = c.amount
BY DEF ChargeRow
LEMMA CarriedIs ==
  ASSUME CheckoutInv, NEW r \in Requests
  PROVE  /\ Checkout!Carried(r) \in ChargeRow
         /\ bcReq[r].step = "pay" => /\ Checkout!Carried(r).made = bcCharge[r].made
                                     /\ Checkout!Carried(r).paid = bcCharge[r].paid + 1
                                     /\ Checkout!Carried(r).amount = bcCharge[r].amount
         /\ bcReq[r].step # "pay" => /\ Checkout!Carried(r).made = bcCharge[r].made + 1
                                     /\ Checkout!Carried(r).paid = bcCharge[r].paid
                                     /\ Checkout!Carried(r).amount = bcReq[r].total
<1> DEFINE c == bcCharge[r]
           d == Checkout!Carried(r)
<1> HIDE DEF c, d
<1>1. c \in ChargeRow /\ bcReq[r].total \in Nat
  BY RequestTyped DEF RequestRow, c
<1>2. ASSUME bcReq[r].step = "pay"
      PROVE  d \in ChargeRow /\ d.made = c.made /\ d.paid = c.paid + 1 /\ d.amount = c.amount
  <2>1. d = [c EXCEPT !.paid = c.paid + 1]
    BY <1>2, Zenon DEF Checkout!Carried, c, d
  <2> QED BY <1>1, <2>1, OnePayment, Zenon
<1>3. ASSUME bcReq[r].step # "pay"
      PROVE  d \in ChargeRow /\ d.made = c.made + 1 /\ d.paid = c.paid /\ d.amount = bcReq[r].total
  <2>1. d = [c EXCEPT !.made = c.made + 1, !.amount = bcReq[r].total]
    BY <1>3, Zenon DEF Checkout!Carried, c, d
  <2> DEFINE t == bcReq[r].total
             m == c.made + 1
  <2>2. c \in ChargeRow /\ m \in Nat /\ t \in Nat /\ d = [c EXCEPT !.made = m, !.amount = t]
    BY <1>1, <2>1 DEF ChargeRow
  <2> HIDE DEF t, m
  <2> DEFINE e == [c EXCEPT !.made = m]
  <2>3. e \in ChargeRow /\ e.made = m /\ e.paid = c.paid
    BY <2>2 DEF ChargeRow
  <2>4. d = [e EXCEPT !.amount = t]
    BY <2>2
  <2> HIDE DEF e
  <2>5. d \in ChargeRow /\ d.made = m /\ d.paid = c.paid /\ d.amount = t
    BY <2>2, <2>3, <2>4 DEF ChargeRow
  <2> QED BY <2>5 DEF t, m
<1>4. /\ d \in ChargeRow
      /\ bcReq[r].step = "pay" => d.made = c.made /\ d.paid = c.paid + 1 /\ d.amount = c.amount
      /\ bcReq[r].step # "pay" => d.made = c.made + 1 /\ d.paid = c.paid /\ d.amount = bcReq[r].total
  BY <1>2, <1>3
<1> QED BY <1>4, Zenon DEF c, d

(* A request that asks for a token again, moves on, or goes on to pay.     *)
LEMMA AskedAgain ==
  ASSUME NEW n \in RequestRow, NEW at \in Checkout!Stages
  PROVE  LET m == [n EXCEPT !.at = at, !.again = TRUE] IN
         m \in RequestRow /\ m.at = at /\ Same(m, n)
BY DEF RequestRow, Same
LEMMA MovesTo ==
  ASSUME NEW n \in RequestRow, NEW at \in Checkout!Stages
  PROVE  LET m == [n EXCEPT !.at = at] IN
         /\ m \in RequestRow /\ m.at = at /\ m.quote = n.quote
         /\ m.rate = n.rate /\ m.total = n.total /\ m.rail = n.rail
BY DEF RequestRow
LEMMA PaysNext ==
  ASSUME NEW n \in RequestRow
  PROVE  LET m == [n EXCEPT !.step = "pay", !.use = n.token, !.again = FALSE] IN
         /\ m \in RequestRow /\ m.at = n.at /\ m.step = "pay" /\ m.quote = n.quote
         /\ m.rate = n.rate /\ m.total = n.total /\ m.rail = n.rail
BY DEF RequestRow

(* The customer's call, Efi's answer and the order.                        *)
LEMMA SendKeeps ==
  ASSUME CheckoutInv, NEW r \in Requests, Checkout!Send(r) PROVE CheckoutInv'
<1> DEFINE n0 == bcReq[r]
           c0 == bcCharge[r]
           c1 == bcCharge'[r]
<1>0. /\ n0.at = "send" /\ n0 \in RequestRow /\ c0 \in ChargeRow
      /\ UNCHANGED <<bcPrice, bcQuote, bcRefreshing, bcClosed, bcIssued, bcOrder>>
      /\ ChargeSound(n0, c0, bcOrder[r])
      /\ n0.quote # None => TermsSound(n0, bcOrder[r], bcQuote[n0.quote])
  BY RequestTyped DEF Checkout!Send, CheckoutInv, CheckoutSound
<1>1. /\ n0.step \in {"charge", "pay"} /\ n0.rail \in {"pix", "card"} /\ n0.total \in Nat
      /\ c0.made \in Nat /\ c0.paid \in Nat /\ c0.made <= 1 /\ c0.paid <= c0.made /\ bcOrder[r] = None
      /\ n0.step = "charge" => c0.made = 0 /\ c0.paid = 0
      /\ n0.step = "pay" => c0.made = 1 /\ c0.paid = 0 /\ c0.amount = n0.total /\ n0.rail = "card"
  BY <1>0 DEF RequestRow, ChargeRow, Checkout!Rails, ChargeSound, Charging
<1>2. /\ bcCharge' \in [Requests -> ChargeRow] /\ c1 \in ChargeRow
      /\ \A s \in Requests : s # r => bcCharge'[s] = bcCharge[s]
      /\ c1 = c0 \/ c1 = Checkout!Carried(r)
      /\ c1 # c0 => Checkout!Answered(r) \/ Checkout!NotDone(r, "no answer")
  <2>1. Checkout!Carried(r) \in ChargeRow
    BY CarriedIs
  <2>2. bcCharge' = [bcCharge EXCEPT ![r] = Checkout!Carried(r)] \/ UNCHANGED bcCharge
    BY DEF Checkout!Send
  <2> QED BY <2>1, <2>2 DEF Checkout!Send, CheckoutInv, CheckoutTyped
<1>3. /\ c1.made <= 1 /\ c1.paid <= c1.made
      /\ c1 = Checkout!Carried(r) /\ n0.step = "charge" =>
            c1.made = 1 /\ c1.paid = 0 /\ c1.amount = n0.total
      /\ c1 = Checkout!Carried(r) /\ n0.step = "pay" =>
            c1.made = 1 /\ c1.paid = 1 /\ c1.amount = n0.total
  <2> DEFINE d == Checkout!Carried(r)
  <2>1. /\ n0.step = "pay" => d.made = c0.made /\ d.paid = c0.paid + 1 /\ d.amount = c0.amount
        /\ n0.step # "pay" => d.made = c0.made + 1 /\ d.paid = c0.paid /\ d.amount = n0.total
    <3>1. n0.step = "pay" => d.made = c0.made /\ d.paid = c0.paid + 1 /\ d.amount = c0.amount
      BY CarriedIs
    <3>2. n0.step # "pay" => d.made = c0.made + 1 /\ d.paid = c0.paid /\ d.amount = n0.total
      BY CarriedIs
    <3> QED BY <3>1, <3>2
  <2>3. c1 = c0 \/ c1 = d
    BY <1>2
  <2> HIDE DEF d, n0, c0, c1
  <2>2. /\ c1.made <= 1 /\ c1.paid <= c1.made
        /\ c1 = d /\ n0.step = "charge" => c1.made = 1 /\ c1.paid = 0 /\ c1.amount = n0.total
        /\ c1 = d /\ n0.step = "pay" => c1.made = 1 /\ c1.paid = 1 /\ c1.amount = n0.total
    BY <1>1, <2>1, <2>3
  <2> QED BY <2>2 DEF d
<1>4. SUFFICES ASSUME NEW n \in RequestRow, bcReq' = [bcReq EXCEPT ![r] = n],
                      ~AtToken(n), n.at # "wait", bcToken' \in [Checkout!Rails -> Nat],
                      ChargeSound(n, c1, bcOrder[r]), n.quote \in {None, n0.quote},
                      n.quote # None => TermsSound(n, bcOrder[r], bcQuote[n.quote])
               PROVE  CheckoutInv'
  <2>1. bcToken' \in [Checkout!Rails -> Nat]
    <3>1. bcToken' = [bcToken EXCEPT ![bcReq[r].rail] = 0] \/ UNCHANGED bcToken
      BY DEF Checkout!Send, Checkout!NotDone
    <3> QED BY <3>1 DEF CheckoutInv, CheckoutTyped
  <2>2. CASE Checkout!Fails(r)
    <3>1. ChargeSound(Ended, c1, bcOrder[r])
      BY <1>1, <1>3, EndedTyped DEF ChargeSound, Charging
    <3> QED BY <2>1, <2>2, <3>1, <1>4, EndedTyped DEF Checkout!Fails, Ended, AtToken
  <2>3. CASE c1 = c0 /\ bcReq' = [bcReq EXCEPT ![r].at = "token", ![r].again = TRUE]
    <3> DEFINE n == [n0 EXCEPT !.at = "token", !.again = TRUE]
    <3>1. /\ n \in RequestRow /\ n.at = "token" /\ Same(n, n0) /\ bcReq' = [bcReq EXCEPT ![r] = n]
      <4>1. bcReq' = [bcReq EXCEPT ![r] = n]
        BY <2>3
      <4>2. "token" \in Checkout!Stages
        BY DEF Checkout!Stages
      <4> QED BY <1>0, <4>1, <4>2, AskedAgain
    <3> HIDE DEF n
    <3>2. ChargeSound(n, c1, bcOrder[r])
      BY <1>0, <2>3, <3>1 DEF ChargeSound, Charging, Same
    <3>3. n.quote # None => TermsSound(n, bcOrder[r], bcQuote[n.quote])
      BY <1>0, <3>1 DEF TermsSound, Same
    <3> QED BY <1>4, <2>1, <3>1, <3>2, <3>3 DEF AtToken, Same
  <2>4. CASE Checkout!Answered(r) /\ c1 = Checkout!Carried(r)
    <3> DEFINE n == IF n0.rail = "pix" THEN [n0 EXCEPT !.at = "qr"]
                    ELSE IF n0.step = "charge"
                    THEN [n0 EXCEPT !.step = "pay", !.use = n0.token, !.again = FALSE]
                    ELSE [n0 EXCEPT !.at = "insert"]
    <3>1. /\ n \in RequestRow /\ bcReq' = [bcReq EXCEPT ![r] = n]
          /\ n.quote = n0.quote /\ n.rate = n0.rate /\ n.total = n0.total /\ n.rail = n0.rail
          /\ \/ n0.rail = "pix" /\ n.at = "qr"
             \/ n0.rail = "card" /\ n0.step = "charge" /\ n.at = "send" /\ n.step = "pay"
             \/ n0.rail = "card" /\ n0.step = "pay" /\ n.at = "insert"
      <4>1. bcReq' = [bcReq EXCEPT ![r] = n]
        BY <2>4 DEF Checkout!Answered
      <4>2. {"qr", "insert"} \subseteq Checkout!Stages
        BY DEF Checkout!Stages
      <4>3. ASSUME NEW at \in Checkout!Stages, n = [n0 EXCEPT !.at = at]
            PROVE  /\ n \in RequestRow /\ n.at = at /\ n.quote = n0.quote
                   /\ n.rate = n0.rate /\ n.total = n0.total /\ n.rail = n0.rail
        <5> HIDE DEF n, n0
        <5> QED BY <1>0, <4>3, MovesTo
      <4>4. CASE n0.rail = "pix"
        BY <4>1, <4>2, <4>3, <4>4
      <4>5. CASE n0.rail # "pix" /\ n0.step = "charge"
        <5>1. n = [n0 EXCEPT !.step = "pay", !.use = n0.token, !.again = FALSE]
          BY <4>5
        <5> HIDE DEF n, n0
        <5>2. /\ n \in RequestRow /\ n.at = n0.at /\ n.step = "pay" /\ n.quote = n0.quote
              /\ n.rate = n0.rate /\ n.total = n0.total /\ n.rail = n0.rail
          BY <1>0, <5>1, PaysNext
        <5> QED BY <1>0, <1>1, <4>1, <4>5, <5>2
      <4>6. CASE n0.rail # "pix" /\ n0.step # "charge"
        <5>1. n = [n0 EXCEPT !.at = "insert"]
          BY <4>6
        <5> HIDE DEF n, n0
        <5> QED BY <1>1, <4>1, <4>2, <4>3, <4>6, <5>1
      <4> HIDE DEF n
      <4> QED BY <4>4, <4>5, <4>6
    <3> HIDE DEF n
    <3>2. ChargeSound(n, c1, bcOrder[r])
      BY <1>1, <1>3, <2>4, <3>1 DEF ChargeSound, Charging
    <3>3. n.quote # None => TermsSound(n, bcOrder[r], bcQuote[n.quote])
      BY <1>0, <3>1 DEF TermsSound
    <3> QED BY <1>4, <2>1, <3>1, <3>2, <3>3 DEF AtToken
  <2>5. ASSUME NEW a \in {"401", "refused", "no answer"}, Checkout!NotDone(r, a)
        PROVE  \/ Checkout!Fails(r)
               \/ a = "401" /\ bcReq' = [bcReq EXCEPT ![r].at = "token", ![r].again = TRUE]
    BY <2>5 DEF Checkout!NotDone, Checkout!Repeatable
  <2> QED BY <2>2, <2>3, <2>4, <2>5, <1>0 DEF Checkout!Send, CheckoutInv, CheckoutTyped
<1>5. TokensSound'
  BY <1>0, <1>4, TokensStay DEF AtToken
<1>6. CheckoutTyped'
  BY <1>0, <1>2, <1>4, CheckoutStaysTyped DEF CheckoutInv, CheckoutTyped
<1>7. \A s \in Requests : bcReq'[s] = IF s = r THEN n ELSE bcReq[s]
  BY <1>4 DEF CheckoutInv, CheckoutTyped
<1>8. OneRequestEach'
  BY <1>4, <1>7 DEF CheckoutInv, OneRequestEach
<1>9. ASSUME NEW s \in Requests PROVE CheckoutSound(s)'
  <2>1. CASE s = r
    BY <1>0, <1>4, <1>7, <2>1 DEF CheckoutSound
  <2>2. CASE s # r
    BY <1>0, <1>2, <1>7, <2>2 DEF CheckoutInv, CheckoutSound
  <2> QED BY <2>1, <2>2
<1> QED BY <1>5, <1>6, <1>8, <1>9 DEF CheckoutInv

LEMMA QrKeeps ==
  ASSUME CheckoutInv, NEW r \in Requests, Checkout!EfiQRCode(r) PROVE CheckoutInv'
<1>0. /\ bcReq[r].at = "qr" /\ bcReq[r] \in RequestRow
      /\ UNCHANGED <<bcPrice, bcQuote, bcToken, bcRefreshing, bcClosed, bcIssued, bcCharge, bcOrder>>
  BY RequestTyped DEF Checkout!EfiQRCode, Checkout!oauth
<1>1. CASE Checkout!Fails(r)
  <2>1. TokensSound' /\ CheckoutTyped'
    BY <1>0, <1>1, EndedTyped, TokensStay, CheckoutStaysTyped
       DEF AtToken, CheckoutInv, CheckoutTyped, Checkout!Fails, Ended
  <2> QED BY <1>0, <1>1, <2>1, FailsKeeps DEF CheckoutInv
<1>2. CASE bcReq' = [bcReq EXCEPT ![r].at = "insert"]
  <2> DEFINE n == [bcReq[r] EXCEPT !.at = "insert"]
  <2>1. /\ n \in RequestRow /\ n.at = "insert" /\ Same(n, bcReq[r])
        /\ bcReq' = [bcReq EXCEPT ![r] = n]
    BY <1>0, <1>2 DEF RequestRow, Same, Checkout!Stages, CheckoutInv, CheckoutTyped
  <2> HIDE DEF n
  <2>2. TokensSound' /\ CheckoutTyped'
    BY <1>0, <2>1, TokensStay, CheckoutStaysTyped DEF AtToken, CheckoutInv, CheckoutTyped
  <2>3. ChargeSound(n, bcCharge[r], bcOrder[r])
    BY <1>0, <2>1 DEF CheckoutInv, CheckoutSound, ChargeSound, Charging, Same
  <2>4. n.quote # None => TermsSound(n, bcOrder[r], bcQuote[n.quote])
    BY <1>0, <2>1 DEF CheckoutInv, CheckoutSound, TermsSound, Same
  <2> QED BY <1>0, <2>1, <2>2, <2>3, <2>4, TermsStay DEF CheckoutInv, Same
<1> QED BY <1>1, <1>2 DEF Checkout!EfiQRCode

LEMMA OrderKeeps ==
  ASSUME CheckoutInv, NEW r \in Requests, Checkout!CreateBuyOrder(r) PROVE CheckoutInv'
<1>0. /\ bcReq[r].at = "insert" /\ bcReq[r] \in RequestRow
      /\ UNCHANGED <<bcPrice, bcQuote, bcToken, bcRefreshing, bcClosed, bcIssued, bcCharge>>
  BY RequestTyped DEF Checkout!CreateBuyOrder, Checkout!oauth
<1>1. CASE Checkout!Fails(r) /\ UNCHANGED bcOrder
  <2>1. TokensSound' /\ CheckoutTyped'
    BY <1>0, <1>1, EndedTyped, TokensStay, CheckoutStaysTyped
       DEF AtToken, CheckoutInv, CheckoutTyped, Checkout!Fails, Ended
  <2> QED BY <1>0, <1>1, <2>1, FailsKeeps DEF CheckoutInv
<1>2. CASE /\ bcOrder' = [bcOrder EXCEPT ![r] = bcReq[r].total]
           /\ bcReq' = [bcReq EXCEPT ![r] = [Checkout!NewRequest EXCEPT !.at = "done",
                  !.quote = bcReq[r].quote, !.native = bcReq[r].native, !.rail = bcReq[r].rail,
                  !.rate = bcReq[r].rate]]
  <2> DEFINE n == [Checkout!NewRequest EXCEPT !.at = "done", !.quote = bcReq[r].quote,
                       !.native = bcReq[r].native, !.rail = bcReq[r].rail, !.rate = bcReq[r].rate]
  <2>1. /\ n \in RequestRow /\ n.at = "done" /\ n.quote = bcReq[r].quote
        /\ n.rate = bcReq[r].rate /\ n.rail = bcReq[r].rail /\ n.step = "charge"
        /\ bcReq' = [bcReq EXCEPT ![r] = n]
    BY <1>0, <1>2 DEF RequestRow, Checkout!Stages, Checkout!NewRequest
  <2> HIDE DEF n
  <2>2. /\ TokensSound' /\ bcReq[r].total \in Nat
        /\ \A s \in Requests : bcReq'[s] = IF s = r THEN n ELSE bcReq[s]
        /\ \A s \in Requests : bcOrder'[s] = IF s = r THEN bcReq[r].total ELSE bcOrder[s]
    BY <1>0, <1>2, <2>1, TokensStay DEF AtToken, CheckoutInv, CheckoutTyped, RequestRow
  <2>3. CheckoutTyped'
    BY <1>0, <1>2, <2>1, <2>2 DEF CheckoutInv, CheckoutTyped
  <2>4. OneRequestEach'
    BY <2>1, <2>2 DEF CheckoutInv, OneRequestEach
  <2>5. ASSUME NEW s \in Requests PROVE CheckoutSound(s)'
    <3>1. CASE s = r
      <4>1. ChargeSound(n, bcCharge[r], bcReq[r].total)
        BY <1>0, <2>1 DEF CheckoutInv, CheckoutSound, ChargeSound, Charging
      <4>2. n.quote # None => TermsSound(n, bcReq[r].total, bcQuote[n.quote])
        BY <1>0, <2>1 DEF CheckoutInv, CheckoutSound, TermsSound
      <4> QED BY <1>0, <2>2, <3>1, <4>1, <4>2 DEF CheckoutSound
    <3>2. CASE s # r
      BY <1>0, <2>2, <3>2 DEF CheckoutInv, CheckoutSound
    <3> QED BY <3>1, <3>2
  <2> QED BY <2>2, <2>3, <2>4, <2>5 DEF CheckoutInv
<1> QED BY <1>1, <1>2 DEF Checkout!CreateBuyOrder

(* The request that consumes a quote.                                      *)
LEMMA BuyKeeps ==
  ASSUME CheckoutAssumption, CheckoutInv, NEW r \in Requests, NEW q \in Quotes \cup {None},
         NEW b \in BOOLEAN, NEW l \in Checkout!Rails, Checkout!CreateBuy(r, q, b, l)
  PROVE  CheckoutInv'
<1>0. /\ bcReq[r].at = "new" /\ bcReq[r] = Checkout!NewRequest /\ bcOrder[r] = None
      /\ q # None => q \in Quotes /\ bcQuote[q] \in QuoteRow /\ ~bcQuote[q].consumed
                     /\ bcQuote[q].native = b /\ bcQuote[q].total \in Nat /\ bcQuote[q].rate \in MarketRates
      /\ bcQuote' = IF q = None THEN bcQuote ELSE [bcQuote EXCEPT ![q].consumed = TRUE]
      /\ bcCharge[r].made = 0 /\ bcCharge[r].paid <= 0 /\ bcCharge[r] \in ChargeRow
      /\ UNCHANGED <<bcPrice, bcToken, bcRefreshing, bcClosed, bcIssued, bcCharge, bcOrder>>
  <2>1. /\ bcReq[r].at = "new"
        /\ q # None => bcQuote[q] # None /\ ~bcQuote[q].consumed /\ bcQuote[q].native = b
        /\ bcQuote' = IF q = None THEN bcQuote ELSE [bcQuote EXCEPT ![q].consumed = TRUE]
        /\ UNCHANGED <<bcPrice, bcToken, bcRefreshing, bcClosed, bcIssued, bcCharge, bcOrder>>
    BY DEF Checkout!CreateBuy, Checkout!Consumable, Checkout!oauth
  <2>2. bcReq[r] = Checkout!NewRequest /\ bcOrder[r] = None
        /\ bcCharge[r].made = 0 /\ bcCharge[r].paid <= 0
    <3>1. ChargeSound(bcReq[r], bcCharge[r], bcOrder[r])
      BY DEF CheckoutInv, CheckoutSound
    <3>2. bcReq[r] = Checkout!NewRequest /\ bcOrder[r] = None
      BY <2>1, <3>1 DEF ChargeSound
    <3>3. bcReq[r].step = "charge"
      BY <3>2 DEF Checkout!NewRequest
    <3>4. bcCharge[r].made = 0 /\ bcCharge[r].paid <= bcCharge[r].made
      BY <2>1, <3>1, <3>3 DEF ChargeSound
    <3> QED BY <3>2, <3>4
  <2>3. q # None => q \in Quotes /\ bcQuote[q] \in QuoteRow
    BY <2>1 DEF CheckoutInv, CheckoutTyped
  <2>4. q # None => bcQuote[q].total \in Nat /\ bcQuote[q].rate \in MarketRates
    BY <2>3 DEF QuoteRow
  <2> QED BY <2>1, <2>2, <2>3, <2>4, RequestTyped
<1>1. /\ bcQuote' \in [Quotes -> QuoteRow \cup {None}]
      /\ \A p \in Quotes : p # q => bcQuote'[p] = bcQuote[p]
      /\ q # None => bcQuote'[q] \in QuoteRow /\ bcQuote'[q].consumed /\ bcQuote'[q].native = b
                     /\ bcQuote'[q].rate = bcQuote[q].rate /\ bcQuote'[q].total = bcQuote[q].total
  <2>1. CASE q = None
    BY <1>0, <2>1 DEF CheckoutInv, CheckoutTyped
  <2>2. CASE q # None
    <3> DEFINE p == [bcQuote[q] EXCEPT !.consumed = TRUE]
    <3>1. /\ p \in QuoteRow /\ p.consumed /\ p.native = b /\ p.rate = bcQuote[q].rate
          /\ p.total = bcQuote[q].total
      BY <1>0, <2>2 DEF QuoteRow
    <3>2. bcQuote' = [bcQuote EXCEPT ![q] = p]
      BY <1>0, <2>2
    <3> HIDE DEF p
    <3>3. bcQuote \in [Quotes -> QuoteRow \cup {None}] /\ q \in Quotes
      BY <1>0, <2>2 DEF CheckoutInv, CheckoutTyped
    <3>4. bcQuote'[q] = p
      BY <3>2, <3>3
    <3> QED BY <3>1, <3>2, <3>3, <3>4
  <2> QED BY <2>1, <2>2
<1>2. \A s \in Requests : s # r /\ bcReq[s].quote # None => bcReq[s].quote \in Quotes /\ bcReq[s].quote # q
  <2> SUFFICES ASSUME NEW s \in Requests, s # r, bcReq[s].quote # None
               PROVE  bcReq[s].quote \in Quotes /\ bcReq[s].quote # q
    OBVIOUS
  <2>1. bcQuote[bcReq[s].quote].consumed
    BY DEF CheckoutInv, CheckoutSound, TermsSound
  <2>2. bcReq[s].quote \in Quotes
    BY RequestTyped DEF RequestRow
  <2> QED BY <1>0, <2>1, <2>2
<1>3. PICK n \in RequestRow :
          /\ bcReq' = [bcReq EXCEPT ![r] = n] /\ n.at \in {"failed", "token"}
          /\ n.step = "charge" /\ n.quote \in {None, q}
          /\ n.quote # None => n.at = "token" /\ n.rate = bcQuote[q].rate
                               /\ n.total = bcQuote[q].total + Checkout!ProviderFee(b)
  <2>1. CASE Checkout!Fails(r)
    BY <2>1, EndedTyped DEF Checkout!Fails, Ended
  <2>2. CASE bcReq' = [bcReq EXCEPT ![r] = [@ EXCEPT !.at = "token", !.quote = q,
                 !.native = b, !.rail = l, !.total = Checkout!Total(q, b),
                 !.rate = IF q = None THEN 0 ELSE bcQuote[q].rate]]
    <3> DEFINE t == Checkout!Total(q, b)
               rate == IF q = None THEN 0 ELSE bcQuote[q].rate
               n == [Checkout!NewRequest EXCEPT !.at = "token", !.quote = q, !.native = b, !.rail = l,
                                                !.total = t, !.rate = rate]
    <3>1. t \in Nat /\ (q # None => t = bcQuote[q].total + Checkout!ProviderFee(b))
      BY <1>0 DEF Checkout!Total, Checkout!ProviderFee, Checkout!Subtotal
    <3>2. rate \in MarketRates \cup {0} /\ (q # None => rate = bcQuote[q].rate)
      BY <1>0
    <3>3. bcReq' = [bcReq EXCEPT ![r] = n]
      BY <1>0, <2>2 DEF CheckoutInv, CheckoutTyped
    <3> HIDE DEF t, rate
    <3>4. /\ n \in RequestRow /\ n.at = "token" /\ n.step = "charge" /\ n.quote = q
          /\ n.total = t /\ n.rate = rate
      BY <3>1, <3>2 DEF RequestRow, Checkout!NewRequest, Checkout!Stages
    <3> HIDE DEF n
    <3> QED BY <3>1, <3>2, <3>3, <3>4
  <2> QED BY <2>1, <2>2 DEF Checkout!CreateBuy
<1>4. \A s \in Requests : bcReq'[s] = IF s = r THEN n ELSE bcReq[s]
  BY <1>3 DEF CheckoutInv, CheckoutTyped
<1>5. TokensSound'
  BY <1>0, <1>3, TokensStay DEF AtToken
<1>6. CheckoutTyped'
  BY <1>0, <1>1, <1>3, CheckoutStaysTyped DEF CheckoutInv, CheckoutTyped
<1>7. OneRequestEach'
  BY <1>2, <1>3, <1>4 DEF CheckoutInv, OneRequestEach
<1>8. ASSUME NEW s \in Requests PROVE CheckoutSound(s)'
  <2>1. CASE s = r
    <3>1. ChargeSound(n, bcCharge[r], bcOrder[r])
      BY <1>0, <1>3 DEF ChargeSound, Charging, ChargeRow
    <3>2. n.quote # None => TermsSound(n, bcOrder[r], bcQuote'[n.quote])
      BY <1>1, <1>3 DEF TermsSound
    <3> QED BY <1>0, <1>4, <2>1, <3>1, <3>2 DEF CheckoutSound
  <2>2. CASE s # r
    <3>1. bcReq[s].quote # None => bcQuote'[bcReq[s].quote] = bcQuote[bcReq[s].quote]
      BY <1>1, <1>2, <2>2
    <3> QED BY <1>0, <1>4, <2>2, <3>1 DEF CheckoutInv, CheckoutSound
  <2> QED BY <2>1, <2>2
<1> QED BY <1>5, <1>6, <1>7, <1>8 DEF CheckoutInv

(* What happens without a request: prices, quotes and tokens.              *)
LEMMA QuotesKeep ==
  ASSUME CheckoutAssumption, CheckoutInv, NEW q \in Quotes,
         Checkout!QuoteExpires(q) \/ \E b \in BOOLEAN, l \in Checkout!Rails : Checkout!HandleQuote(q, b, l)
  PROVE  CheckoutInv'
<1>0. UNCHANGED <<bcPrice, bcReq, bcToken, bcRefreshing, bcClosed, bcIssued, bcCharge, bcOrder>>
  BY DEF Checkout!QuoteExpires, Checkout!HandleQuote, Checkout!oauth
<1>1. PICK p \in QuoteRow :
          /\ bcQuote' = [bcQuote EXCEPT ![q] = p]
          /\ bcQuote[q] # None => /\ p.rate = bcQuote[q].rate /\ p.total = bcQuote[q].total
                                  /\ p.native = bcQuote[q].native /\ p.consumed = bcQuote[q].consumed
  <2>1. CASE Checkout!QuoteExpires(q)
    <3> DEFINE p == [bcQuote[q] EXCEPT !.expired = TRUE]
    <3>1. bcQuote[q] \in QuoteRow /\ bcQuote' = [bcQuote EXCEPT ![q] = p]
      BY <2>1 DEF Checkout!QuoteExpires, CheckoutInv, CheckoutTyped
    <3>2. /\ p \in QuoteRow /\ p.rate = bcQuote[q].rate /\ p.total = bcQuote[q].total
          /\ p.native = bcQuote[q].native /\ p.consumed = bcQuote[q].consumed
      BY <3>1 DEF QuoteRow
    <3> HIDE DEF p
    <3> QED BY <3>1, <3>2
  <2>2. ASSUME NEW b \in BOOLEAN, NEW l \in Checkout!Rails, Checkout!HandleQuote(q, b, l)
        PROVE  \E p \in QuoteRow :
                  bcQuote' = [bcQuote EXCEPT ![q] = p] /\ bcQuote[q] = None
    <3>1. bcPrice \in MarketRates /\ Checkout!Subtotal + Checkout!Fee(b) \in Nat
      BY <2>2 DEF Checkout!HandleQuote, CheckoutInv, CheckoutTyped, Checkout!Subtotal, Checkout!Fee
    <3>2. Checkout!NewQuote(b, l) \in QuoteRow
      BY <3>1 DEF Checkout!NewQuote, QuoteRow
    <3> QED BY <2>2, <3>2 DEF Checkout!HandleQuote
  <2> QED BY <2>1, <2>2
<1>2. \A x \in Quotes : bcQuote'[x] = IF x = q THEN p ELSE bcQuote[x]
  BY <1>1 DEF CheckoutInv, CheckoutTyped
<1>3. CheckoutTyped'
  BY <1>0, <1>1 DEF CheckoutInv, CheckoutTyped
<1>4. OneRequestEach' /\ TokensSound'
  BY <1>0 DEF CheckoutInv, OneRequestEach, TokensSound, AtToken
<1>5. ASSUME NEW s \in Requests PROVE CheckoutSound(s)'
  <2>1. CASE bcReq[s].quote = None
    BY <1>0, <2>1 DEF CheckoutInv, CheckoutSound
  <2>2. CASE bcReq[s].quote # None
    <3> DEFINE x == bcReq[s].quote
    <3>1. x \in Quotes /\ bcQuote[x] \in QuoteRow /\ TermsSound(bcReq[s], bcOrder[s], bcQuote[x])
      BY <2>2, RequestTyped DEF RequestRow, CheckoutInv, CheckoutSound, TermsSound
    <3>2. bcQuote[x] # None
      BY <3>1 DEF CheckoutAssumption
    <3>3. TermsSound(bcReq[s], bcOrder[s], bcQuote'[x])
      BY <1>1, <1>2, <3>1, <3>2 DEF TermsSound
    <3> QED BY <1>0, <3>3 DEF CheckoutInv, CheckoutSound
  <2> QED BY <2>1, <2>2
<1> QED BY <1>3, <1>4, <1>5 DEF CheckoutInv

LEMMA CheckoutNext == CheckoutAssumption /\ CheckoutInv /\ [Checkout!Next]_Checkout!vars => CheckoutInv'
<1> SUFFICES ASSUME CheckoutAssumption, CheckoutInv, [Checkout!Next]_Checkout!vars PROVE CheckoutInv'
  OBVIOUS
<1> DEFINE shared == <<bcQuote, bcReq, bcRefreshing, bcClosed, bcCharge, bcOrder>>
<1>0. ASSUME UNCHANGED shared, bcPrice' \in MarketRates \cup {0}, UNCHANGED bcIssued,
             bcToken' \in [Checkout!Rails -> Nat]
      PROVE  CheckoutInv'
  BY <1>0 DEF CheckoutInv, CheckoutTyped, OneRequestEach, TokensSound, AtToken, CheckoutSound
<1>1. CASE UNCHANGED Checkout!vars
  BY <1>0, <1>1 DEF Checkout!vars, CheckoutInv, CheckoutTyped
<1>2. CASE Checkout!FetchPrice
  BY <1>0, <1>2 DEF Checkout!FetchPrice, Checkout!Rate, Checkout!oauth, CheckoutInv, CheckoutTyped
<1>3. ASSUME NEW l \in Checkout!Rails, Checkout!TokenExpires(l) \/ Checkout!Revokes(l) PROVE CheckoutInv'
  BY <1>0, <1>3 DEF Checkout!TokenExpires, Checkout!Revokes, CheckoutInv, CheckoutTyped
<1> QED BY <1>1, <1>2, <1>3, QuotesKeep, BuyKeeps, BeginRefreshKeeps, WakesKeeps, FetchKeeps,
           FinishKeeps, SendKeeps, QrKeeps, OrderKeeps DEF Checkout!Next

LEMMA CheckoutInvEnough ==
  CheckoutInv => Checkout!NobodyWaitsInVain /\ Checkout!ChargedOnce /\ Checkout!QuoteIsKept
<1> SUFFICES ASSUME CheckoutInv
             PROVE  Checkout!NobodyWaitsInVain /\ Checkout!ChargedOnce /\ Checkout!QuoteIsKept
  OBVIOUS
<1>1. \A S : Checkout!Cardinality(S) = Cardinality(S)
  BY DEF Checkout!Cardinality, Cardinality, Checkout!IsFiniteSet, IsFiniteSet
<1>2. ASSUME NEW l \in Checkout!Rails
      PROVE  Checkout!Cardinality(Checkout!Fetching(l)) = IF bcRefreshing[l] THEN 1 ELSE 0
  <2>1. CASE bcRefreshing[l]
    <3>1. PICK r \in Requests : bcReq[r].rail = l /\ AtToken(bcReq[r])
      BY <2>1 DEF CheckoutInv, TokensSound
    <3>2. Checkout!Fetching(l) = {r}
      BY <3>1 DEF Checkout!Fetching, AtToken, CheckoutInv, TokensSound
    <3> QED BY <1>1, <2>1, <3>2, FS_Singleton
  <2>2. CASE ~bcRefreshing[l]
    <3>1. Checkout!Fetching(l) = {}
      BY <2>2 DEF Checkout!Fetching, AtToken, CheckoutInv, TokensSound
    <3> QED BY <1>1, <2>2, <3>1, FS_EmptySet
  <2> QED BY <2>1, <2>2
<1>3. Checkout!NobodyWaitsInVain
  BY <1>2 DEF Checkout!NobodyWaitsInVain, CheckoutInv, TokensSound
<1>4. \A r \in Requests : /\ bcCharge[r].made <= 1 /\ bcCharge[r].paid <= bcCharge[r].made
                          /\ bcOrder[r] # None =>
                                /\ bcReq[r].at = "done" /\ bcCharge[r].made = 1
                                /\ bcCharge[r].amount = bcOrder[r]
                                /\ bcReq[r].rail = "card" => bcCharge[r].paid = 1
  BY DEF CheckoutInv, CheckoutSound, ChargeSound
<1>5. Checkout!ChargedOnce
  BY <1>4 DEF Checkout!ChargedOnce
<1>6. Checkout!QuoteIsKept
  BY <1>4 DEF Checkout!QuoteIsKept, CheckoutInv, CheckoutSound, TermsSound, OneRequestEach
<1> QED BY <1>3, <1>5, <1>6

(* A request is charged once at most and its order is for that charge, a   *)
(* quote makes one order on its terms, and no request waits for a token    *)
(* nobody fetches, for any number of requests, quotes and tokens           *)
(* (server/buy_handlers.go, payment_provider.go).                          *)
THEOREM BuysAreChargedOnce ==
  ASSUME CheckoutAssumption
  PROVE  Checkout!Spec =>
            [](Checkout!NobodyWaitsInVain /\ Checkout!ChargedOnce /\ Checkout!QuoteIsKept)
BY CheckoutInit, CheckoutNext, CheckoutInvEnough, PTL DEF Checkout!Spec

-----------------------------------------------------------------------------
(* The bus, for any number of workers, senders and events and any buffer.  *)
CONSTANTS BusWorkers, BusSenders, BusLeavers, BusCapacity, BusEvents
VARIABLES ebSubs, ebQueue, ebOpen, ebClosed, ebThread, ebPublished, ebDropped, ebHandled, ebTarget
EventBus == INSTANCE EventBus WITH Workers <- BusWorkers, Senders <- BusSenders, Leavers <- BusLeavers,
    Capacity <- BusCapacity, MaxEvents <- BusEvents, subs <- ebSubs, queue <- ebQueue, open <- ebOpen,
    busClosed <- ebClosed, thread <- ebThread, published <- ebPublished, dropped <- ebDropped,
    handled <- ebHandled, target <- ebTarget

BusAssumption == BusEvents \in Nat

ThreadRow == [at : EventBus!Points, event : Nat, critical : BOOLEAN, todo : Seq(BusWorkers)]
BusTyped ==
    /\ ebSubs \in Seq(BusWorkers) /\ ebOpen \in [BusWorkers -> BOOLEAN]
    /\ ebThread \in [EventBus!Threads -> ThreadRow]
    /\ ebQueue \in [BusWorkers -> Seq(Nat)] /\ ebHandled \in [BusWorkers -> SUBSET Nat]
    /\ ebPublished \in 0..BusEvents /\ ebTarget \in [1..BusEvents -> SUBSET BusWorkers]

Distinct(s) == \A i, j \in 1..Len(s) : s[i] = s[j] => i = j
In(x, s) == \E i \in 1..Len(s) : s[i] = x

(* Who is subscribed has an open channel, and while a publisher goes       *)
(* through its list the lock keeps the channels of the list open.          *)
SubscribersOpen ==
    /\ Distinct(ebSubs) /\ \A i \in 1..Len(ebSubs) : ebOpen[ebSubs[i]]
    /\ \A w \in BusWorkers : ebThread[w].at = "new" => ~In(w, ebSubs)
PublisherSound(n, top, open) ==
    /\ n.at # "panic" /\ n.event <= top
    /\ n.at \in {"offer", "wait"} => /\ n.event > 0 /\ n.todo # <<>> /\ Distinct(n.todo)
                                     /\ \A i \in 1..Len(n.todo) : open[n.todo[i]]
    /\ n.at \notin {"offer", "wait"} => n.todo = <<>>
OnePublisherEach == \A t, u \in EventBus!Threads :
    ebThread[t].event = ebThread[u].event => t = u \/ ebThread[t].event = 0

(* The four places where an event may be of a subscriber.                  *)
Offered(e, w) == \E t \in EventBus!Threads : ebThread[t].event = e /\ In(w, ebThread[t].todo)
Queued(e, w) == In(e, ebQueue[w])
WasRead(e, w) == e \in ebHandled[w]
WasDropped(e, w) == <<e, w>> \in ebDropped
InOnePlace(e, w) ==
    /\ Offered(e, w) \/ Queued(e, w) \/ WasRead(e, w) \/ WasDropped(e, w)
          <=> e \in 1..ebPublished /\ w \in ebTarget[e]
    /\ Offered(e, w) => ~Queued(e, w) /\ ~WasRead(e, w) /\ ~WasDropped(e, w)
    /\ Queued(e, w) => ~WasRead(e, w) /\ ~WasDropped(e, w)
    /\ WasRead(e, w) => ~WasDropped(e, w)
Delivery == /\ \A w \in BusWorkers : Distinct(ebQueue[w])
            /\ \A e \in Nat \ {0}, w \in BusWorkers : InOnePlace(e, w)

BusInv == /\ BusTyped /\ SubscribersOpen /\ OnePublisherEach /\ Delivery
          /\ \A t \in EventBus!Threads : PublisherSound(ebThread[t], ebPublished, ebOpen)

(* Sequences without repetition.                                           *)
LEMMA TailOf ==
  ASSUME NEW S, NEW s \in Seq(S), s # <<>>, Distinct(s)
  PROVE  /\ Tail(s) \in Seq(S) /\ Distinct(Tail(s)) /\ In(Head(s), s) /\ Head(s) \in S
         /\ \A x : In(x, Tail(s)) <=> In(x, s) /\ x # Head(s)
         /\ Len(s) = 1 <=> Tail(s) = <<>>
<1>1. /\ Tail(s) \in Seq(S) /\ Len(s) > 0 /\ Len(Tail(s)) = Len(s) - 1 /\ Len(s) \in Nat
      /\ \A i \in 1..(Len(s) - 1) : Tail(s)[i] = s[i + 1]
      /\ Head(s) = s[1] /\ Head(s) \in S
  OBVIOUS
<1>2. Distinct(Tail(s)) /\ In(Head(s), s)
  BY <1>1 DEF Distinct, In
<1>3. ASSUME NEW x, In(x, Tail(s)) PROVE In(x, s) /\ x # Head(s)
  <2>1. PICK i \in 1..(Len(s) - 1) : s[i + 1] = x
    BY <1>1, <1>3 DEF In
  <2>2. i + 1 \in 1..Len(s) /\ i + 1 # 1 /\ 1 \in 1..Len(s)
    BY <1>1, <2>1
  <2> QED BY <1>1, <2>1, <2>2 DEF In, Distinct
<1>4. ASSUME NEW x, In(x, s), x # Head(s) PROVE In(x, Tail(s))
  <2>1. PICK i \in 1..Len(s) : s[i] = x
    BY <1>4 DEF In
  <2>2. i - 1 \in 1..(Len(s) - 1)
    BY <1>1, <1>4, <2>1
  <2>3. Tail(s)[i - 1] = x
    BY <1>1, <2>1, <2>2
  <2> QED BY <1>1, <2>2, <2>3 DEF In
<1>5. Len(s) = 1 <=> Tail(s) = <<>>
  <2>1. Tail(s) = <<>> <=> Len(Tail(s)) = 0
    BY <1>1, EmptySeq
  <2> QED BY <1>1, <2>1
<1> QED BY <1>1, <1>2, <1>3, <1>4, <1>5

LEMMA AppendTo ==
  ASSUME NEW S, NEW s \in Seq(S), NEW y \in S, Distinct(s), ~In(y, s)
  PROVE  /\ Append(s, y) \in Seq(S) /\ Distinct(Append(s, y))
         /\ \A x : In(x, Append(s, y)) <=> In(x, s) \/ x = y
<1>1. /\ Append(s, y) \in Seq(S) /\ Len(Append(s, y)) = Len(s) + 1 /\ Len(s) \in Nat
      /\ \A i \in 1..Len(s) : Append(s, y)[i] = s[i]
      /\ Append(s, y)[Len(s) + 1] = y
  OBVIOUS
<1>2. Distinct(Append(s, y))
  BY <1>1 DEF Distinct, In
<1>3. \A x : In(x, Append(s, y)) => In(x, s) \/ x = y
  BY <1>1 DEF In
<1>4. \A x : In(x, s) \/ x = y => In(x, Append(s, y))
  <2>1. \A x : In(x, s) => In(x, Append(s, y))
    BY <1>1 DEF In
  <2>2. In(y, Append(s, y))
    BY <1>1 DEF In
  <2> QED BY <2>1, <2>2
<1> QED BY <1>1, <1>2, <1>3, <1>4

LEMMA SameLength ==
  ASSUME NEW i \in Nat, NEW j \in Nat, 1..i = 1..j PROVE i = j
<1>1. (i \in 1..i \/ i = 0) /\ (j \in 1..j \/ j = 0)
  OBVIOUS
<1>2. (i \in 1..j \/ i = 0) /\ (j \in 1..i \/ j = 0)
  BY <1>1, Zenon
<1>3. i <= j /\ j <= i
  BY ONLY <1>2, i \in Nat, j \in Nat
<1> QED BY ONLY <1>3, i \in Nat, j \in Nat
LEMMA WithoutOne ==
  ASSUME NEW S, NEW s \in Seq(S), Distinct(s), NEW k \in 1..Len(s)
  PROVE  LET u == EventBus!Without(s, k) IN
         u \in Seq(S) /\ Distinct(u) /\ \A x : In(x, u) => In(x, s) /\ x # s[k]
<1> DEFINE u == EventBus!Without(s, k)
           m == Len(s) - 1
<1>1. /\ Len(s) \in Nat /\ m \in Nat /\ \A i \in 1..Len(s) : s[i] \in S
      /\ u = [j \in 1..m |-> s[IF j < k THEN j ELSE j + 1]]
  BY DEF EventBus!Without
<1>2. \A j \in 1..m : /\ (IF j < k THEN j ELSE j + 1) \in (1..Len(s)) \ {k}
                      /\ u[j] = s[IF j < k THEN j ELSE j + 1] /\ u[j] \in S
  BY <1>1
<1>3. u \in [1..m -> S]
  BY <1>1, <1>2
<1>0. m \in Nat /\ Len(s) = m + 1
  BY <1>1
<1> HIDE DEF u, m
<1>4. u \in Seq(S) /\ Len(u) = m
  <2>1. u \in Seq(S)
    BY <1>0, <1>3, SeqDef, Zenon
  <2>2. DOMAIN u = 1..Len(u) /\ Len(u) \in Nat
    BY <2>1, LenProperties
  <2>3. DOMAIN u = 1..m
    BY <1>3
  <2>4. 1..Len(u) = 1..m
    BY <2>2, <2>3, Zenon
  <2> QED BY <1>0, <2>1, <2>2, <2>4, SameLength, Zenon
<1>5. Distinct(u)
  <2>1. SUFFICES ASSUME NEW i \in 1..m, NEW j \in 1..m, u[i] = u[j] PROVE i = j
    BY <1>4 DEF Distinct
  <2> DEFINE a == IF i < k THEN i ELSE i + 1
             b == IF j < k THEN j ELSE j + 1
  <2>2. a \in 1..Len(s) /\ b \in 1..Len(s) /\ s[a] = s[b]
    BY <1>2, <2>1
  <2>3. a = b
    BY <2>2, Zenon DEF Distinct
  <2> QED BY <1>0, <2>3
<1>6. \A x : In(x, u) => In(x, s) /\ x # s[k]
  <2>1. SUFFICES ASSUME NEW x, In(x, u) PROVE In(x, s) /\ x # s[k]
    OBVIOUS
  <2>2. PICK i \in 1..m : u[i] = x
    BY <1>4, <2>1 DEF In
  <2>3. PICK j \in (1..Len(s)) \ {k} : s[j] = x
    BY <1>2, <2>2
  <2> QED BY <2>3 DEF Distinct, In
<1> QED BY <1>4, <1>5, <1>6 DEF u

LEMMA BusInit == BusAssumption /\ EventBus!Init => BusInv
<1> SUFFICES ASSUME BusAssumption, EventBus!Init PROVE BusInv
  OBVIOUS
<1>0. \A x : ~In(x, <<>>)
  BY DEF In
<1>1. ASSUME NEW t \in EventBus!Threads
      PROVE  /\ ebThread[t] \in ThreadRow /\ ebThread[t].at \in {"new", "run"}
             /\ ebThread[t].event = 0 /\ ebThread[t].todo = <<>>
  <2>1. PICK p \in {"new", "run"} : ebThread[t] = [EventBus!Idle EXCEPT !.at = p]
    BY DEF EventBus!Init
  <2>2. <<>> \in Seq(BusWorkers)
    BY EmptySeq
  <2>3. EventBus!Idle \in ThreadRow /\ EventBus!Idle.event = 0 /\ EventBus!Idle.todo = <<>>
    BY <2>2 DEF EventBus!Idle, ThreadRow, EventBus!Points
  <2>4. p \in EventBus!Points
    BY DEF EventBus!Points
  <2> QED BY <2>1, <2>3, <2>4 DEF ThreadRow
<1>2. BusTyped
  BY <1>1 DEF BusAssumption, EventBus!Init, EventBus!Events, BusTyped
<1>3. SubscribersOpen /\ OnePublisherEach /\ \A t \in EventBus!Threads : PublisherSound(ebThread[t], ebPublished, ebOpen)
  BY <1>1 DEF EventBus!Init, SubscribersOpen, Distinct, In, OnePublisherEach, PublisherSound
<1>4. Delivery
  <2>1. \A w \in BusWorkers : Distinct(ebQueue[w])
    BY DEF EventBus!Init, Distinct
  <2>2. ASSUME NEW e \in Nat \ {0}, NEW w \in BusWorkers PROVE InOnePlace(e, w)
    <3>1. ~Offered(e, w) /\ ~Queued(e, w)
      BY <1>0, <1>1 DEF EventBus!Init, Offered, Queued
    <3>2. ~WasRead(e, w) /\ ~WasDropped(e, w) /\ e \notin 1..ebPublished
      BY DEF EventBus!Init, WasRead, WasDropped
    <3> QED BY <3>1, <3>2 DEF InOnePlace
  <2> QED BY <2>1, <2>2 DEF Delivery
<1> QED BY <1>2, <1>3, <1>4 DEF BusInv

LEMMA ThreadOf ==
  ASSUME BusInv, NEW t \in EventBus!Threads
  PROVE  /\ ebThread[t] \in ThreadRow /\ ebThread[t].at \in EventBus!Points
         /\ ebThread[t].event \in Nat /\ ebThread[t].todo \in Seq(BusWorkers)
         /\ PublisherSound(ebThread[t], ebPublished, ebOpen)
BY DEF BusInv, BusTyped, ThreadRow

(* A step of one goroutine: the lists and channels stay, or nobody holds   *)
(* the lock.                                                               *)
LEMMA OneThreadMoves ==
  ASSUME BusInv, NEW t \in EventBus!Threads, NEW n \in ThreadRow, ebThread' = [ebThread EXCEPT ![t] = n],
         ebSubs' \in Seq(BusWorkers), ebOpen' \in [BusWorkers -> BOOLEAN],
         ebQueue' \in [BusWorkers -> Seq(Nat)], ebHandled' \in [BusWorkers -> SUBSET Nat],
         UNCHANGED <<ebPublished, ebTarget>>,
         UNCHANGED <<ebSubs, ebOpen>> \/ (~EventBus!ReadLocked /\ SubscribersOpen'),
         PublisherSound(n, ebPublished', ebOpen'), n.at # "new", n.event = ebThread[t].event
  PROVE  /\ BusTyped' /\ SubscribersOpen' /\ OnePublisherEach'
         /\ \A u \in EventBus!Threads : PublisherSound(ebThread'[u], ebPublished', ebOpen')
         /\ \A u \in EventBus!Threads : ebThread'[u] = IF u = t THEN n ELSE ebThread[u]
<1>1. \A u \in EventBus!Threads : ebThread'[u] = IF u = t THEN n ELSE ebThread[u]
  BY DEF BusInv, BusTyped
<1>2. BusTyped'
  BY DEF BusInv, BusTyped
<1>3. OnePublisherEach'
  BY <1>1 DEF BusInv, OnePublisherEach
<1>4. BusWorkers \subseteq EventBus!Threads
  BY DEF EventBus!Threads
<1>5. SubscribersOpen'
  BY <1>1, <1>4 DEF BusInv, SubscribersOpen
<1>6. ASSUME NEW u \in EventBus!Threads, u # t PROVE PublisherSound(ebThread'[u], ebPublished', ebOpen')
  <2>1. ebThread'[u] = ebThread[u] /\ PublisherSound(ebThread[u], ebPublished, ebOpen)
    BY <1>1, <1>6 DEF BusInv
  <2>2. CASE UNCHANGED <<ebSubs, ebOpen>>
    BY <2>1, <2>2 DEF PublisherSound
  <2>3. CASE ~EventBus!ReadLocked
    BY <2>1, <2>3 DEF PublisherSound, EventBus!ReadLocked
  <2> QED BY <2>2, <2>3
<1>7. \A u \in EventBus!Threads : PublisherSound(ebThread'[u], ebPublished', ebOpen')
  BY <1>1, <1>6
<1> QED BY <1>1, <1>2, <1>3, <1>5, <1>7

LEMMA NothingMoves ==
  ASSUME BusInv, NEW t \in EventBus!Threads, NEW n,
         \A u \in EventBus!Threads : ebThread'[u] = IF u = t THEN n ELSE ebThread[u],
         n.event = ebThread[t].event, n.todo = ebThread[t].todo,
         UNCHANGED <<ebQueue, ebHandled, ebDropped, ebPublished, ebTarget>>
  PROVE  Delivery'
<1>1. \A e, w : Offered(e, w)' <=> Offered(e, w)
  BY DEF Offered
<1> QED BY <1>1 DEF BusInv, Delivery, InOnePlace, Queued, WasRead, WasDropped

LEMMA AtMoves ==
  ASSUME BusInv, NEW t \in EventBus!Threads, NEW p \in EventBus!Points,
         ebThread[t].at \notin {"offer", "wait"}, p \notin {"offer", "wait", "panic", "new"}
  PROVE  LET n == [ebThread[t] EXCEPT !.at = p] IN
         /\ n \in ThreadRow /\ n.at = p /\ n.event = ebThread[t].event /\ n.todo = ebThread[t].todo
         /\ \A o : PublisherSound(n, ebPublished, o)
<1> DEFINE n == [ebThread[t] EXCEPT !.at = p]
<1>1. n \in ThreadRow /\ n.at = p /\ n.event = ebThread[t].event /\ n.todo = ebThread[t].todo
  BY ThreadOf DEF ThreadRow
<1> HIDE DEF n
<1>2. \A o : PublisherSound(n, ebPublished, o)
  BY <1>1, ThreadOf DEF PublisherSound
<1> QED BY <1>1, <1>2 DEF n

(* The steps of a goroutine that is not publishing.                        *)
LEMMA QuietStep ==
  ASSUME BusInv, NEW t \in EventBus!Threads, NEW p \in EventBus!Points, EventBus!Goto(t, p),
         ebThread[t].at \notin {"offer", "wait"}, p \notin {"offer", "wait", "panic", "new"},
         ebSubs' \in Seq(BusWorkers), ebOpen' \in [BusWorkers -> BOOLEAN],
         UNCHANGED <<ebSubs, ebOpen>> \/ (~EventBus!ReadLocked /\ SubscribersOpen'),
         UNCHANGED <<ebQueue, ebHandled, ebDropped, ebPublished, ebTarget>>
  PROVE  BusInv'
<1> DEFINE n == [ebThread[t] EXCEPT !.at = p]
<1>1. /\ n \in ThreadRow /\ n.at = p /\ n.event = ebThread[t].event /\ n.todo = ebThread[t].todo
      /\ PublisherSound(n, ebPublished', ebOpen')
  BY AtMoves
<1>2. ebThread' = [ebThread EXCEPT ![t] = n]
  BY DEF EventBus!Goto, BusInv, BusTyped
<1> HIDE DEF n
<1>3. ebQueue' \in [BusWorkers -> Seq(Nat)] /\ ebHandled' \in [BusWorkers -> SUBSET Nat]
  BY DEF BusInv, BusTyped
<1>4. /\ BusTyped' /\ SubscribersOpen' /\ OnePublisherEach'
      /\ \A u \in EventBus!Threads : PublisherSound(ebThread'[u], ebPublished', ebOpen')
      /\ \A u \in EventBus!Threads : ebThread'[u] = IF u = t THEN n ELSE ebThread[u]
  BY <1>1, <1>2, <1>3, OneThreadMoves
<1>5. Delivery'
  BY <1>1, <1>4, NothingMoves
<1> QED BY <1>4, <1>5 DEF BusInv

LEMMA SubscribeKeeps ==
  ASSUME BusInv, NEW w \in BusWorkers, EventBus!Subscribe(w) PROVE BusInv'
<1>0. /\ w \in EventBus!Threads /\ ebThread[w].at = "new" /\ ~In(w, ebSubs) /\ ~EventBus!ReadLocked
      /\ ebSubs \in Seq(BusWorkers) /\ ebOpen \in [BusWorkers -> BOOLEAN] /\ Distinct(ebSubs)
      /\ \A v \in BusWorkers : v \in EventBus!Threads
  BY DEF EventBus!Subscribe, EventBus!Threads, BusInv, BusTyped, SubscribersOpen
<1>1. \A v \in BusWorkers : ebThread'[v].at = "new" => ebThread[v].at = "new" /\ v # w
  BY <1>0 DEF EventBus!Subscribe, EventBus!Goto, BusInv, BusTyped, ThreadRow
<1>2. ebOpen' \in [BusWorkers -> BOOLEAN]
      /\ \A v \in BusWorkers : ebOpen'[v] = IF v = w THEN ~ebClosed ELSE ebOpen[v]
  BY <1>0, ThreadOf DEF EventBus!Subscribe
<1>3. \A i \in 1..Len(ebSubs) : ebSubs[i] \in BusWorkers /\ ebSubs[i] # w /\ ebOpen[ebSubs[i]]
  BY <1>0 DEF In, BusInv, SubscribersOpen
<1>4. CASE ebClosed
  <2>1. UNCHANGED ebSubs
    BY <1>4 DEF EventBus!Subscribe
  <2>2. SubscribersOpen'
    BY <1>0, <1>1, <1>2, <1>3, <2>1 DEF BusInv, SubscribersOpen, Distinct, In
  <2> QED BY <1>0, <1>2, <2>1, <2>2, QuietStep DEF EventBus!Subscribe, EventBus!Points
<1>5. CASE ~ebClosed
  <2>1. ebSubs' = Append(ebSubs, w)
    BY <1>5 DEF EventBus!Subscribe
  <2>2. ebSubs' \in Seq(BusWorkers) /\ Distinct(ebSubs') /\ \A x : In(x, ebSubs') <=> In(x, ebSubs) \/ x = w
    BY <1>0, <2>1, AppendTo
  <2>3. \A i \in 1..Len(ebSubs') : ebOpen'[ebSubs'[i]]
    <3> SUFFICES ASSUME NEW i \in 1..Len(ebSubs') PROVE ebOpen'[ebSubs'[i]]
      OBVIOUS
    <3>1. In(ebSubs'[i], ebSubs')
      BY DEF In
    <3>2. CASE ebSubs'[i] = w
      BY <1>2, <1>5, <3>2
    <3>3. CASE In(ebSubs'[i], ebSubs)
      BY <1>2, <1>3, <3>3 DEF In
    <3> QED BY <2>2, <3>1, <3>2, <3>3
  <2>4. SubscribersOpen'
    BY <1>1, <2>2, <2>3 DEF BusInv, SubscribersOpen
  <2> QED BY <1>0, <1>2, <2>2, <2>4, QuietStep DEF EventBus!Subscribe, EventBus!Points
<1> QED BY <1>4, <1>5

LEMMA UnsubscribeKeeps ==
  ASSUME BusInv, NEW w \in BusWorkers, EventBus!Unsubscribe(w) PROVE BusInv'
<1>0. /\ w \in EventBus!Threads /\ ebThread[w].at = "leave" /\ ~EventBus!ReadLocked
      /\ ebSubs \in Seq(BusWorkers) /\ ebOpen \in [BusWorkers -> BOOLEAN] /\ Distinct(ebSubs)
      /\ \A v \in BusWorkers : v \in EventBus!Threads
      /\ \A i \in 1..Len(ebSubs) : ebSubs[i] \in BusWorkers /\ ebOpen[ebSubs[i]]
  BY DEF EventBus!Unsubscribe, EventBus!Exclusive, EventBus!Threads, BusInv, BusTyped, SubscribersOpen
<1>1. \A v \in BusWorkers : ebThread'[v].at = "new" => ebThread[v].at = "new" /\ v # w
  BY <1>0 DEF EventBus!Unsubscribe, EventBus!Goto, BusInv, BusTyped, ThreadRow
<1>2. CASE UNCHANGED <<ebSubs, ebOpen>>
  BY <1>0, <1>2, QuietStep DEF EventBus!Unsubscribe, EventBus!Points
<1>3. ASSUME NEW i \in DOMAIN ebSubs, ebSubs[i] = w, ebSubs' = EventBus!Without(ebSubs, i),
             ebOpen' = [ebOpen EXCEPT ![w] = FALSE]
      PROVE  BusInv'
  <2>1. i \in 1..Len(ebSubs)
    BY <1>0, <1>3, LenProperties
  <2>2. ebSubs' \in Seq(BusWorkers) /\ Distinct(ebSubs') /\ \A x : In(x, ebSubs') => In(x, ebSubs) /\ x # w
    BY <1>0, <1>3, <2>1, WithoutOne
  <2>3. ebOpen' \in [BusWorkers -> BOOLEAN]
        /\ \A v \in BusWorkers : ebOpen'[v] = IF v = w THEN FALSE ELSE ebOpen[v]
    BY <1>0, <1>3
  <2>4. \A j \in 1..Len(ebSubs') : ebOpen'[ebSubs'[j]]
    <3> SUFFICES ASSUME NEW j \in 1..Len(ebSubs') PROVE ebOpen'[ebSubs'[j]]
      OBVIOUS
    <3>1. In(ebSubs'[j], ebSubs')
      BY DEF In
    <3>2. In(ebSubs'[j], ebSubs) /\ ebSubs'[j] # w
      BY <2>2, <3>1
    <3> QED BY <1>0, <2>3, <3>2 DEF In
  <2>5. SubscribersOpen'
    BY <1>1, <2>2, <2>4 DEF BusInv, SubscribersOpen
  <2> QED BY <1>0, <2>2, <2>3, <2>5, QuietStep DEF EventBus!Unsubscribe, EventBus!Points
<1> QED BY <1>2, <1>3 DEF EventBus!Unsubscribe

LEMMA CloseKeeps ==
  ASSUME BusInv, NEW t \in EventBus!Threads, EventBus!Close(t) PROVE BusInv'
<1>1. /\ ebThread[t].at = "close" /\ ~EventBus!ReadLocked /\ ebSubs' = <<>>
      /\ ebOpen' = [w \in BusWorkers |-> FALSE]
  BY DEF EventBus!Close, EventBus!Exclusive
<1>2. SubscribersOpen'
  BY <1>1 DEF SubscribersOpen, Distinct, In
<1> QED BY <1>1, <1>2, QuietStep DEF EventBus!Close, EventBus!Points

LEMMA LoopOfWorkerKeeps ==
  ASSUME BusInv, NEW w \in EventBus!Threads,
         (w \in BusWorkers /\ (EventBus!HandlerEnds(w) \/ EventBus!Stop(w))) \/ EventBus!Shutdown(w)
  PROVE  BusInv'
<1>1. /\ ebThread[w].at \in {"run", "read"}
      /\ UNCHANGED <<ebSubs, ebOpen, ebQueue, ebHandled, ebDropped, ebPublished, ebTarget>>
      /\ \E p \in {"read", "leave", "stopped", "close"} : EventBus!Goto(w, p)
  BY DEF EventBus!HandlerEnds, EventBus!Stop, EventBus!Shutdown
<1>2. ebSubs \in Seq(BusWorkers) /\ ebOpen \in [BusWorkers -> BOOLEAN]
  BY DEF BusInv, BusTyped
<1> QED BY <1>1, <1>2, QuietStep DEF EventBus!Points

LEMMA PublishKeeps ==
  ASSUME BusAssumption, BusInv, NEW t \in EventBus!Threads, NEW b \in BOOLEAN, EventBus!Publish(t, b)
  PROVE  BusInv'
<1>p. PICK p \in Nat : p = ebPublished + 1
  BY DEF BusInv, BusTyped
<1> DEFINE at == IF ebSubs = <<>> THEN "run" ELSE "offer"
           n == [ebThread[t] EXCEPT !.event = p, !.critical = b, !.todo = ebSubs,
                                    !.at = IF ebSubs = <<>> THEN "run" ELSE "offer"]
<1>0. /\ ebThread[t].at = "run" /\ ebThread[t].todo = <<>> /\ ebPublished \in Nat
      /\ p \in 1..BusEvents /\ ebPublished' = p /\ ebSubs \in Seq(BusWorkers)
      /\ ebTarget' = [ebTarget EXCEPT ![p] = EventBus!Elements(ebSubs)]
      /\ UNCHANGED <<ebSubs, ebOpen, ebQueue, ebHandled, ebDropped>>
  <2>1. /\ ebThread[t].at = "run" /\ ebPublished < BusEvents /\ ebPublished' = ebPublished + 1
        /\ ebTarget' = [ebTarget EXCEPT ![ebPublished + 1] = EventBus!Elements(ebSubs)]
        /\ UNCHANGED <<ebSubs, ebOpen, ebQueue, ebHandled, ebDropped>>
    BY DEF EventBus!Publish
  <2>2. BusEvents \in Nat /\ ebPublished \in Nat /\ ebSubs \in Seq(BusWorkers)
    BY DEF BusAssumption, BusInv, BusTyped
  <2>3. ebThread[t].todo = <<>>
    BY <2>1, ThreadOf DEF PublisherSound
  <2>4. p \in 1..BusEvents
    BY <1>p, <2>1, <2>2
  <2> QED BY <1>p, <2>1, <2>2, <2>3, <2>4
<1>1. at \in {"run", "offer"} /\ (at = "run" <=> ebSubs = <<>>)
  BY <1>0
<1>2. ebThread' = [ebThread EXCEPT ![t] = n]
  BY <1>p DEF EventBus!Publish
<1>3. n \in ThreadRow /\ n.event = p /\ n.todo = ebSubs /\ n.at = at
  <2>1. p \in Nat /\ ebThread[t] \in ThreadRow
    BY <1>0, ThreadOf DEF BusAssumption
  <2>2. CASE ebSubs = <<>>
    BY <1>0, <2>1, <2>2 DEF ThreadRow, EventBus!Points
  <2>3. CASE ebSubs # <<>>
    BY <1>0, <2>1, <2>3 DEF ThreadRow, EventBus!Points
  <2> QED BY <2>2, <2>3
<1> HIDE DEF n, at
<1>4. \A u \in EventBus!Threads : ebThread'[u] = IF u = t THEN n ELSE ebThread[u]
  BY <1>2 DEF BusInv, BusTyped
<1>5. \A w : w \in EventBus!Elements(ebSubs) <=> In(w, ebSubs)
  BY <1>0, LenProperties DEF EventBus!Elements, In
<1>6. EventBus!Elements(ebSubs) \subseteq BusWorkers
  BY <1>0, LenProperties DEF EventBus!Elements
<1>7. /\ ebTarget' \in [1..BusEvents -> SUBSET BusWorkers] /\ ebTarget'[p] = EventBus!Elements(ebSubs)
      /\ \A e \in 1..BusEvents : e # p => ebTarget'[e] = ebTarget[e]
  BY <1>0, <1>6 DEF BusInv, BusTyped
<1>8. BusTyped'
  BY <1>0, <1>2, <1>3, <1>7 DEF BusInv, BusTyped
<1>9. BusWorkers \subseteq EventBus!Threads
  BY DEF EventBus!Threads
<1>10. SubscribersOpen'
  BY <1>0, <1>1, <1>3, <1>4, <1>9 DEF BusInv, SubscribersOpen
<1>11. ebPublished < p /\ p > 0 /\ p \in Nat
  BY <1>0, <1>p
<1>12. \A u \in EventBus!Threads : ebThread[u].event \in Nat /\ ebThread[u].event <= ebPublished
  BY ThreadOf DEF PublisherSound
<1>13. OnePublisherEach'
  BY <1>0, <1>3, <1>4, <1>11, <1>12 DEF BusInv, OnePublisherEach
<1>14. PublisherSound(n, p, ebOpen)
  BY <1>0, <1>1, <1>3, <1>11 DEF PublisherSound, BusInv, SubscribersOpen
<1>15. ASSUME NEW u \in EventBus!Threads PROVE PublisherSound(ebThread'[u], ebPublished', ebOpen')
  <2>1. CASE u = t
    BY <1>0, <1>4, <1>14, <2>1
  <2>2. CASE u # t
    <3>1. ebThread'[u] = ebThread[u] /\ UNCHANGED ebOpen /\ ebPublished' = p
      BY <1>0, <1>4, <2>2
    <3>2. ebThread[u].event <= p
      BY <1>0, <1>p, <1>12
    <3>3. PublisherSound(ebThread[u], ebPublished, ebOpen)
      BY ThreadOf
    <3> QED BY <3>1, <3>2, <3>3 DEF PublisherSound
  <2> QED BY <2>1, <2>2
<1>16. \A x : ~In(x, <<>>)
  BY DEF In
<1>17. \A e, w : e # p => (Offered(e, w)' <=> Offered(e, w))
  BY <1>0, <1>3, <1>4, <1>16 DEF Offered
<1>18. \A w : Offered(p, w)' <=> In(w, ebSubs)
  BY <1>0, <1>3, <1>4, <1>11, <1>12 DEF Offered
<1>19. ASSUME NEW e \in Nat \ {0}, NEW w \in BusWorkers PROVE InOnePlace(e, w)'
  <2>0. InOnePlace(e, w) /\ (Queued(e, w)' <=> Queued(e, w)) /\ (WasRead(e, w)' <=> WasRead(e, w))
        /\ (WasDropped(e, w)' <=> WasDropped(e, w))
    BY <1>0 DEF BusInv, Delivery, Queued, WasRead, WasDropped
  <2>1. CASE e = p
    <3>1. e \notin 1..ebPublished /\ e \in 1..ebPublished'
      BY <1>0, <1>11, <2>1
    <3>2. ~Queued(e, w) /\ ~WasRead(e, w) /\ ~WasDropped(e, w)
      BY <2>0, <3>1 DEF InOnePlace
    <3> QED BY <1>5, <1>7, <1>18, <2>0, <2>1, <3>1, <3>2 DEF InOnePlace
  <2>2. CASE e # p
    <3>1. e \in 1..ebPublished' <=> e \in 1..ebPublished
      BY <1>0, <1>p, <2>2
    <3>2. e \in 1..ebPublished => ebTarget'[e] = ebTarget[e]
      BY <1>0, <1>7, <1>11, <2>2
    <3> QED BY <1>17, <2>0, <2>2, <3>1, <3>2 DEF InOnePlace
  <2> QED BY <2>1, <2>2
<1>20. Delivery'
  BY <1>0, <1>19 DEF BusInv, Delivery
<1> QED BY <1>8, <1>10, <1>13, <1>15, <1>20 DEF BusInv

(* The publisher goes on: the event is no longer offered to the first of   *)
(* its list.                                                               *)
LEMMA AdvanceIs ==
  ASSUME BusInv, NEW t \in EventBus!Threads, ebThread[t].at \in {"offer", "wait"}
  PROVE  LET n == EventBus!Advance(t) IN
         /\ n \in ThreadRow /\ n.at \in {"run", "offer"} /\ n.event = ebThread[t].event
         /\ n.todo = Tail(ebThread[t].todo) /\ PublisherSound(n, ebPublished, ebOpen)
<1> DEFINE m == ebThread[t]
           d == Tail(m.todo)
           at == IF Len(m.todo) = 1 THEN "run" ELSE "offer"
           n == [m EXCEPT !.todo = d, !.at = at]
<1>0. /\ m \in ThreadRow /\ m.event \in Nat /\ m.event > 0 /\ m.event <= ebPublished /\ m.todo # <<>>
      /\ m.todo \in Seq(BusWorkers) /\ Distinct(m.todo) /\ \A i \in 1..Len(m.todo) : ebOpen[m.todo[i]]
  BY ThreadOf DEF PublisherSound
<1>1. /\ d \in Seq(BusWorkers) /\ Distinct(d) /\ (at = "run" <=> d = <<>>) /\ at \in {"run", "offer"}
      /\ \A x : In(x, d) => In(x, m.todo)
  BY <1>0, TailOf
<1>2. \A i \in 1..Len(d) : ebOpen[d[i]]
  <2> SUFFICES ASSUME NEW i \in 1..Len(d) PROVE ebOpen[d[i]]
    OBVIOUS
  <2>1. In(d[i], m.todo)
    BY <1>1 DEF In
  <2> QED BY <1>0, <2>1 DEF In
<1>3. EventBus!Advance(t) = n
  BY DEF EventBus!Advance
<1> HIDE DEF m, d, at
<1>4. n \in ThreadRow /\ n.at = at /\ n.event = m.event /\ n.todo = d
  BY <1>0, <1>1 DEF ThreadRow, EventBus!Points
<1> HIDE DEF n
<1>5. PublisherSound(n, ebPublished, ebOpen)
  BY <1>0, <1>1, <1>2, <1>4 DEF PublisherSound
<1> QED BY <1>1, <1>3, <1>4, <1>5 DEF m, d

LEMMA AdvanceMoves ==
  ASSUME BusInv, NEW t \in EventBus!Threads, ebThread[t].at \in {"offer", "wait"},
         ebThread' = [ebThread EXCEPT ![t] = EventBus!Advance(t)]
  PROVE  /\ Head(ebThread[t].todo) \in BusWorkers /\ ebThread[t].event \in Nat \ {0}
         /\ Offered(ebThread[t].event, Head(ebThread[t].todo))
         /\ \A e \in Nat \ {0} : \A w : Offered(e, w)' <=>
               Offered(e, w) /\ ~(e = ebThread[t].event /\ w = Head(ebThread[t].todo))
<1> DEFINE m == ebThread[t]
           n == EventBus!Advance(t)
<1>0. /\ m.todo # <<>> /\ m.todo \in Seq(BusWorkers) /\ Distinct(m.todo) /\ m.event \in Nat \ {0}
  BY ThreadOf DEF PublisherSound
<1>1. /\ In(Head(m.todo), m.todo) /\ Head(m.todo) \in BusWorkers
      /\ \A x : In(x, Tail(m.todo)) <=> In(x, m.todo) /\ x # Head(m.todo)
  BY <1>0, TailOf
<1>2. n.event = m.event /\ n.todo = Tail(m.todo)
  BY AdvanceIs
<1>3. \A u \in EventBus!Threads : ebThread'[u] = IF u = t THEN n ELSE ebThread[u]
  BY DEF BusInv, BusTyped
<1>4. \A u \in EventBus!Threads : ebThread[u].event = m.event => u = t
  BY <1>0 DEF BusInv, OnePublisherEach
<1>5. Offered(m.event, Head(m.todo))
  BY <1>1 DEF Offered
<1> HIDE DEF n
<1>6. ASSUME NEW e \in Nat \ {0}, NEW w
      PROVE  Offered(e, w)' <=> Offered(e, w) /\ ~(e = m.event /\ w = Head(m.todo))
  <2>1. CASE e = m.event
    <3>1. Offered(e, w) <=> In(w, m.todo)
      BY <1>4, <2>1 DEF Offered
    <3>2. Offered(e, w)' <=> In(w, Tail(m.todo))
      BY <1>2, <1>3, <1>4, <2>1 DEF Offered
    <3> QED BY <1>1, <2>1, <3>1, <3>2
  <2>2. CASE e # m.event
    BY <1>2, <1>3, <2>2 DEF Offered
  <2> QED BY <2>1, <2>2
<1> QED BY <1>0, <1>1, <1>5, <1>6

LEMMA AdvanceKeeps ==
  ASSUME BusInv, NEW t \in EventBus!Threads, ebThread[t].at \in {"offer", "wait"},
         ebThread' = [ebThread EXCEPT ![t] = EventBus!Advance(t)],
         UNCHANGED <<ebSubs, ebOpen, ebHandled, ebPublished, ebTarget>>,
         ebQueue' \in [BusWorkers -> Seq(Nat)], Delivery'
  PROVE  BusInv'
<1>1. EventBus!Advance(t) \in ThreadRow /\ EventBus!Advance(t).at # "new"
      /\ EventBus!Advance(t).event = ebThread[t].event
      /\ PublisherSound(EventBus!Advance(t), ebPublished', ebOpen')
  BY AdvanceIs
<1>2. ebSubs' \in Seq(BusWorkers) /\ ebOpen' \in [BusWorkers -> BOOLEAN]
      /\ ebHandled' \in [BusWorkers -> SUBSET Nat]
  BY DEF BusInv, BusTyped
<1>3. /\ BusTyped' /\ SubscribersOpen' /\ OnePublisherEach'
      /\ \A u \in EventBus!Threads : PublisherSound(ebThread'[u], ebPublished', ebOpen')
  BY <1>1, <1>2, OneThreadMoves
<1> QED BY <1>3 DEF BusInv

LEMMA PutKeeps ==
  ASSUME BusInv, NEW t \in EventBus!Threads, EventBus!Put(t) PROVE BusInv'
<1> DEFINE k == ebThread[t].event
           v == Head(ebThread[t].todo)
<1>0. /\ ebThread[t].at \in {"offer", "wait"}
      /\ UNCHANGED <<ebSubs, ebOpen, ebPublished, ebDropped, ebHandled, ebTarget>>
  BY DEF EventBus!Put
<1>1. ebOpen[v]
  <2>1. /\ ebThread[t].todo \in Seq(BusWorkers) /\ ebThread[t].todo # <<>>
        /\ \A i \in 1..Len(ebThread[t].todo) : ebOpen[ebThread[t].todo[i]]
    BY <1>0, ThreadOf DEF PublisherSound
  <2>2. Len(ebThread[t].todo) \in Nat \ {0}
    BY <2>1, EmptySeq
  <2> QED BY <2>1, <2>2
<1>2. /\ ebQueue' = [ebQueue EXCEPT ![v] = Append(ebQueue[v], k)]
      /\ ebThread' = [ebThread EXCEPT ![t] = EventBus!Advance(t)]
  BY <1>1 DEF EventBus!Put
<1>3. /\ v \in BusWorkers /\ k \in Nat \ {0} /\ Offered(k, v)
      /\ \A e \in Nat \ {0} : \A w : Offered(e, w)' <=> Offered(e, w) /\ ~(e = k /\ w = v)
  BY <1>0, <1>2, AdvanceMoves
<1>4. ~Queued(k, v) /\ ebQueue[v] \in Seq(Nat) /\ Distinct(ebQueue[v])
  BY <1>3 DEF BusInv, BusTyped, Delivery, InOnePlace
<1> HIDE DEF k, v
<1>5. /\ Append(ebQueue[v], k) \in Seq(Nat) /\ Distinct(Append(ebQueue[v], k))
      /\ \A x : In(x, Append(ebQueue[v], k)) <=> In(x, ebQueue[v]) \/ x = k
  BY <1>3, <1>4, AppendTo DEF Queued
<1>6. /\ ebQueue' \in [BusWorkers -> Seq(Nat)]
      /\ \A w \in BusWorkers : ebQueue'[w] = IF w = v THEN Append(ebQueue[v], k) ELSE ebQueue[w]
  BY <1>2, <1>5 DEF BusInv, BusTyped
<1>7. \A w \in BusWorkers : Distinct(ebQueue'[w])
  BY <1>5, <1>6 DEF BusInv, Delivery
<1>8. \A e \in Nat \ {0}, w \in BusWorkers : Queued(e, w)' <=> Queued(e, w) \/ (e = k /\ w = v)
  BY <1>5, <1>6 DEF Queued
<1>9. ASSUME NEW e \in Nat \ {0}, NEW w \in BusWorkers PROVE InOnePlace(e, w)'
  <2>1. (WasRead(e, w)' <=> WasRead(e, w)) /\ (WasDropped(e, w)' <=> WasDropped(e, w)) /\ InOnePlace(e, w)
        /\ UNCHANGED <<ebPublished, ebTarget>>
    BY <1>0 DEF WasRead, WasDropped, BusInv, Delivery
  <2> QED BY <1>3, <1>8, <2>1 DEF InOnePlace
<1>10. Delivery'
  BY <1>7, <1>9 DEF Delivery
<1> QED BY <1>0, <1>2, <1>6, <1>10, AdvanceKeeps

LEMMA DropKeeps ==
  ASSUME BusInv, NEW t \in EventBus!Threads, ebThread[t].at \in {"offer", "wait"},
         ebThread' = [ebThread EXCEPT ![t] = EventBus!Advance(t)],
         ebDropped' = ebDropped \cup {<<ebThread[t].event, Head(ebThread[t].todo)>>},
         UNCHANGED <<ebSubs, ebOpen, ebQueue, ebHandled, ebPublished, ebTarget>>
  PROVE  BusInv'
<1> DEFINE k == ebThread[t].event
           v == Head(ebThread[t].todo)
<1>1. /\ Offered(k, v)
      /\ \A e \in Nat \ {0} : \A w : Offered(e, w)' <=> Offered(e, w) /\ ~(e = k /\ w = v)
  BY AdvanceMoves
<1>2. ebDropped' = ebDropped \cup {<<k, v>>}
  OBVIOUS
<1> HIDE DEF k, v
<1>3. \A e, w : WasDropped(e, w)' <=> WasDropped(e, w) \/ (e = k /\ w = v)
  BY <1>2 DEF WasDropped
<1>4. ASSUME NEW e \in Nat \ {0}, NEW w \in BusWorkers PROVE InOnePlace(e, w)'
  <2>1. (WasRead(e, w)' <=> WasRead(e, w)) /\ (Queued(e, w)' <=> Queued(e, w)) /\ InOnePlace(e, w)
    BY DEF WasRead, Queued, BusInv, Delivery
  <2> QED BY <1>1, <1>3, <2>1 DEF InOnePlace
<1>5. Delivery' /\ ebQueue' \in [BusWorkers -> Seq(Nat)]
  BY <1>4 DEF BusInv, BusTyped, Delivery
<1> QED BY <1>5, AdvanceKeeps

LEMMA OfferKeeps ==
  ASSUME BusInv, NEW t \in EventBus!Threads, EventBus!DropNow(t) \/ EventBus!WaitEnds(t)
  PROVE  BusInv'
<1>0. /\ ebThread[t].at \in {"offer", "wait"}
      /\ UNCHANGED <<ebSubs, ebOpen, ebQueue, ebHandled, ebPublished, ebTarget>>
  BY DEF EventBus!DropNow, EventBus!WaitEnds, EventBus!TimerFires
<1>1. CASE EventBus!Goto(t, "wait") /\ UNCHANGED ebDropped
  <2> DEFINE n == [ebThread[t] EXCEPT !.at = "wait"]
  <2>1. /\ n \in ThreadRow /\ n.at = "wait" /\ n.event = ebThread[t].event /\ n.todo = ebThread[t].todo
    BY ThreadOf DEF ThreadRow, EventBus!Points
  <2>2. ebThread' = [ebThread EXCEPT ![t] = n]
    BY <1>1 DEF EventBus!Goto, BusInv, BusTyped
  <2> HIDE DEF n
  <2>3. PublisherSound(n, ebPublished', ebOpen') /\ n.at # "new"
    BY <1>0, <2>1, ThreadOf DEF PublisherSound
  <2>4. ebSubs' \in Seq(BusWorkers) /\ ebOpen' \in [BusWorkers -> BOOLEAN]
        /\ ebHandled' \in [BusWorkers -> SUBSET Nat] /\ ebQueue' \in [BusWorkers -> Seq(Nat)]
    BY <1>0 DEF BusInv, BusTyped
  <2>5. /\ BusTyped' /\ SubscribersOpen' /\ OnePublisherEach'
        /\ \A u \in EventBus!Threads : PublisherSound(ebThread'[u], ebPublished', ebOpen')
        /\ \A u \in EventBus!Threads : ebThread'[u] = IF u = t THEN n ELSE ebThread[u]
    BY <1>0, <2>1, <2>2, <2>3, <2>4, OneThreadMoves
  <2>6. Delivery'
    BY <1>0, <1>1, <2>1, <2>5, NothingMoves
  <2> QED BY <2>5, <2>6 DEF BusInv
<1>2. CASE /\ ebThread' = [ebThread EXCEPT ![t] = EventBus!Advance(t)]
           /\ ebDropped' = ebDropped \cup {<<ebThread[t].event, Head(ebThread[t].todo)>>}
  BY <1>0, <1>2, DropKeeps
<1> QED BY <1>1, <1>2 DEF EventBus!DropNow, EventBus!WaitEnds

LEMMA ReadKeeps ==
  ASSUME BusInv, NEW w \in BusWorkers, EventBus!Read(w) PROVE BusInv'
<1> DEFINE k == Head(ebQueue[w])
           n == [ebThread[w] EXCEPT !.at = "run"]
<1>0. /\ w \in EventBus!Threads /\ ebThread[w].at = "read" /\ ebQueue[w] # <<>> /\ ebQueue[w] \in Seq(Nat)
      /\ Distinct(ebQueue[w]) /\ ebQueue' = [ebQueue EXCEPT ![w] = Tail(ebQueue[w])]
      /\ ebHandled' = [ebHandled EXCEPT ![w] = @ \cup {k}]
      /\ UNCHANGED <<ebSubs, ebOpen, ebDropped, ebPublished, ebTarget>>
  BY DEF EventBus!Read, EventBus!Threads, BusInv, BusTyped, Delivery
<1>1. /\ n \in ThreadRow /\ n.at = "run" /\ n.event = ebThread[w].event /\ n.todo = ebThread[w].todo
      /\ PublisherSound(n, ebPublished', ebOpen')
  BY <1>0, AtMoves DEF EventBus!Points
<1>2. ebThread' = [ebThread EXCEPT ![w] = n]
  BY <1>0 DEF EventBus!Read, EventBus!Goto, BusInv, BusTyped
<1>3. /\ k \in Nat /\ In(k, ebQueue[w]) /\ Tail(ebQueue[w]) \in Seq(Nat) /\ Distinct(Tail(ebQueue[w]))
      /\ \A x : In(x, Tail(ebQueue[w])) <=> In(x, ebQueue[w]) /\ x # k
  BY <1>0, TailOf
<1> HIDE DEF n, k
<1>4. /\ ebQueue' \in [BusWorkers -> Seq(Nat)] /\ ebHandled' \in [BusWorkers -> SUBSET Nat]
      /\ \A v \in BusWorkers : /\ ebQueue'[v] = IF v = w THEN Tail(ebQueue[w]) ELSE ebQueue[v]
                               /\ ebHandled'[v] = IF v = w THEN ebHandled[w] \cup {k} ELSE ebHandled[v]
  BY <1>0, <1>3 DEF BusInv, BusTyped
<1>5. ebSubs' \in Seq(BusWorkers) /\ ebOpen' \in [BusWorkers -> BOOLEAN]
  BY <1>0 DEF BusInv, BusTyped
<1>6. /\ BusTyped' /\ SubscribersOpen' /\ OnePublisherEach'
      /\ \A u \in EventBus!Threads : PublisherSound(ebThread'[u], ebPublished', ebOpen')
      /\ \A u \in EventBus!Threads : ebThread'[u] = IF u = w THEN n ELSE ebThread[u]
  BY <1>0, <1>1, <1>2, <1>4, <1>5, OneThreadMoves
<1>7. \A e, v : Offered(e, v)' <=> Offered(e, v)
  BY <1>1, <1>6 DEF Offered
<1>8. \A e \in Nat \ {0}, v \in BusWorkers :
         /\ Queued(e, v)' <=> Queued(e, v) /\ ~(e = k /\ v = w)
         /\ WasRead(e, v)' <=> WasRead(e, v) \/ (e = k /\ v = w)
  BY <1>3, <1>4 DEF Queued, WasRead
<1>9. ASSUME NEW e \in Nat \ {0}, NEW v \in BusWorkers PROVE InOnePlace(e, v)'
  <2>1. (WasDropped(e, v)' <=> WasDropped(e, v)) /\ InOnePlace(e, v)
        /\ (e = k /\ v = w => Queued(e, v))
    BY <1>0, <1>3 DEF WasDropped, BusInv, Delivery, Queued
  <2> QED BY <1>0, <1>7, <1>8, <2>1 DEF InOnePlace
<1>10. Delivery'
  BY <1>3, <1>4, <1>9 DEF BusInv, Delivery
<1> QED BY <1>6, <1>10 DEF BusInv

LEMMA BusNext == BusAssumption /\ BusInv /\ [EventBus!Next]_EventBus!vars => BusInv'
<1> SUFFICES ASSUME BusAssumption, BusInv, [EventBus!Next]_EventBus!vars PROVE BusInv'
  OBVIOUS
<1>1. CASE UNCHANGED EventBus!vars
  BY <1>1 DEF EventBus!vars, BusInv, BusTyped, SubscribersOpen, OnePublisherEach, Delivery,
     InOnePlace, Offered, Queued, WasRead, WasDropped
<1>2. BusWorkers \subseteq EventBus!Threads
  BY DEF EventBus!Threads
<1> QED BY <1>1, <1>2, SubscribeKeeps, UnsubscribeKeeps, CloseKeeps, LoopOfWorkerKeeps, PublishKeeps,
           PutKeeps, OfferKeeps, ReadKeeps DEF EventBus!Next, EventBus!LoopStep

LEMMA BusInvEnough == BusInv => EventBus!NoSendOnClosed /\ EventBus!ReachesOnce
<1> SUFFICES ASSUME BusInv PROVE EventBus!NoSendOnClosed /\ EventBus!ReachesOnce
  OBVIOUS
<1>1. EventBus!NoSendOnClosed
  BY ThreadOf DEF EventBus!NoSendOnClosed, PublisherSound
<1>2. ASSUME NEW e \in 1..ebPublished, NEW w \in BusWorkers
      PROVE  EventBus!Cardinality(EventBus!Places(e, w)) = IF w \in ebTarget[e] THEN 1 ELSE 0
  <2> DEFINE O == {<<"offered", t>> : t \in EventBus!Offering(e, w)}
             Q == {<<"queued", i>> : i \in {j \in DOMAIN ebQueue[w] : ebQueue[w][j] = e}}
             R == IF e \in ebHandled[w] THEN {<<"read", w>>} ELSE {}
             D == IF <<e, w>> \in ebDropped THEN {<<"dropped", w>>} ELSE {}
  <2>0. EventBus!Places(e, w) = O \cup Q \cup R \cup D
    BY DEF EventBus!Places
  <2>1. /\ e \in Nat \ {0} /\ InOnePlace(e, w) /\ Distinct(ebQueue[w]) /\ ebQueue[w] \in Seq(Nat)
    BY DEF BusInv, BusTyped, Delivery
  <2>2. \A t \in EventBus!Threads : ebThread[t].todo \in Seq(BusWorkers)
    BY ThreadOf
  <2>3. (~Offered(e, w) => O = {}) /\ (Offered(e, w) => \E x : O = {x})
    <3>1. \A t \in EventBus!Threads :
             w \in EventBus!Elements(ebThread[t].todo) <=> In(w, ebThread[t].todo)
      BY <2>2, LenProperties DEF EventBus!Elements, In
    <3>2. ~Offered(e, w) => EventBus!Offering(e, w) = {}
      BY <3>1 DEF EventBus!Offering, Offered
    <3>3. ASSUME NEW t \in EventBus!Threads, ebThread[t].event = e, In(w, ebThread[t].todo)
          PROVE  EventBus!Offering(e, w) = {t}
      BY <2>1, <3>1, <3>3 DEF EventBus!Offering, BusInv, OnePublisherEach
    <3>4. Offered(e, w) => \E t : EventBus!Offering(e, w) = {t}
      BY <3>3 DEF Offered
    <3>5. ASSUME NEW t, EventBus!Offering(e, w) = {t} PROVE O = {<<"offered", t>>}
      BY <3>5
    <3> QED BY <3>2, <3>4, <3>5
  <2>4. (~Queued(e, w) => Q = {}) /\ (Queued(e, w) => \E x : Q = {x})
    <3>1. DOMAIN ebQueue[w] = 1..Len(ebQueue[w])
      BY <2>1, LenProperties
    <3>2. ~Queued(e, w) => {j \in DOMAIN ebQueue[w] : ebQueue[w][j] = e} = {}
      BY <3>1 DEF Queued, In
    <3>3. ASSUME NEW i \in 1..Len(ebQueue[w]), ebQueue[w][i] = e
          PROVE  {j \in DOMAIN ebQueue[w] : ebQueue[w][j] = e} = {i}
      BY <2>1, <3>1, <3>3 DEF Distinct
    <3>4. Queued(e, w) => \E i : {j \in DOMAIN ebQueue[w] : ebQueue[w][j] = e} = {i}
      BY <3>3 DEF Queued, In
    <3> DEFINE P == {j \in DOMAIN ebQueue[w] : ebQueue[w][j] = e}
    <3>5. ASSUME NEW i, P = {i} PROVE Q = {<<"queued", i>>}
      BY <3>5
    <3>6. P = {} => Q = {}
      OBVIOUS
    <3> QED BY <3>2, <3>4, <3>5, <3>6
  <2>5. /\ ~WasRead(e, w) => R = {}
        /\ WasRead(e, w) => \E x : R = {x}
        /\ ~WasDropped(e, w) => D = {}
        /\ WasDropped(e, w) => \E x : D = {x}
    BY DEF WasRead, WasDropped
  <2> HIDE DEF O, Q, R, D
  <2>6. CASE w \in ebTarget[e]
    <3>1. \E x : O \cup Q \cup R \cup D = {x}
      BY <2>1, <2>3, <2>4, <2>5, <2>6 DEF InOnePlace
    <3>2. Cardinality(EventBus!Places(e, w)) = 1
      BY <2>0, <3>1, FS_Singleton
    <3> QED BY <2>6, <3>2 DEF EventBus!Cardinality, Cardinality, EventBus!IsFiniteSet, IsFiniteSet
  <2>7. CASE w \notin ebTarget[e]
    <3>1. O \cup Q \cup R \cup D = {}
      BY <2>1, <2>3, <2>4, <2>5, <2>7 DEF InOnePlace
    <3>2. Cardinality(EventBus!Places(e, w)) = 0
      BY <2>0, <3>1, FS_EmptySet
    <3> QED BY <2>7, <3>2 DEF EventBus!Cardinality, Cardinality, EventBus!IsFiniteSet, IsFiniteSet
  <2> QED BY <2>6, <2>7
<1> QED BY <1>1, <1>2 DEF EventBus!ReachesOnce

(* No event is sent on a closed channel, and each reaches each of its      *)
(* subscribers once or is counted as dropped there, for any number of      *)
(* goroutines, events and any buffer (workers/bus.go).                     *)
THEOREM EventsReachOnce ==
  ASSUME BusAssumption
  PROVE  EventBus!Spec => [](EventBus!NoSendOnClosed /\ EventBus!ReachesOnce)
BY BusInit, BusNext, BusInvEnough, PTL DEF EventBus!Spec

-----------------------------------------------------------------------------
(* The accounts of an address, for any number of requests, devices, rows   *)
(* and seconds.                                                            *)
CONSTANTS AppRequests, AppDevices, OwnWallet, MaxAccounts, MaxSeconds
VARIABLES maRow, maKey, maOtp, maProof, maCache, maNow, maHeld, maReq, maShown, maRead
Account == INSTANCE MobileAccount WITH Requests <- AppRequests, Devices <- AppDevices, Own <- OwnWallet,
    MaxUsers <- MaxAccounts, MaxTime <- MaxSeconds, row <- maRow, key <- maKey, otp <- maOtp,
    proof <- maProof, cache <- maCache, now <- maNow, held <- maHeld, req <- maReq,
    shown <- maShown, read <- maRead

(* None is no address.                                                     *)
AccountAssumption == MaxAccounts \in Nat /\ None \notin Account!Addresses

AppStages == Account!Authed \cup {"idle", "attach", "reread", "session", "device", "own", "check",
                                  "admit", "refuse", "forget"}
UserRow == [st : {"none", "active", "deleted"}, wallet : Account!Addresses \cup {None},
            hash : Nat, dev : AppDevices \cup {None}]
AppRequest == [op : Account!Authed \cup {"none", "register", "login", "refresh"}, at : AppStages,
               u : Account!Users \cup {0}, dev : AppDevices \cup {None}]
AccountTyped ==
    /\ maRow \in [Account!Users -> UserRow] /\ maReq \in [AppRequests -> AppRequest]
    /\ maKey \in [Account!Users -> Account!Addresses \cup {None}]
    /\ maShown \in [Account!Users -> SUBSET Account!Addresses]
    /\ maCache \in [Account!Users -> {"none", "yes", "no"}] /\ maNow \in Nat
    /\ maHeld \subseteq [u : Account!Users, second : Nat, dev : AppDevices \cup {None}]
    /\ \A c \in AppRequests : /\ maReq[c].at # "idle" => maReq[c].u \in Account!Users
                              /\ maReq[c].at \in {"check", "admit"} => maReq[c].op \in Account!Authed

(* A row names the wallet that was generated for it or one of the client,  *)
(* and after the wallet was attached the user has one.                     *)
WalletsSound ==
    /\ \A u \in Account!Users : /\ maRow[u].wallet \in {None, OwnWallet, maKey[u]}
                                /\ \A a \in maShown[u] : a \in {OwnWallet, maKey[u]}
    /\ \A c \in AppRequests : maReq[c].at = "reread" /\ maRow[maReq[c].u].st = "active" =>
                                 maRow[maReq[c].u].wallet # None
(* One row of the address is active, and who opened it had read its mail.  *)
AddressSound ==
    /\ \A u, v \in Account!Users : maRow[u].st = "active" /\ maRow[v].st = "active" => u = v
    /\ \A u \in Account!Users : maRow[u].st = "active" => maRead
    /\ maProof => maRead
(* Every request and every token is of a row that was inserted.            *)
RowsExist ==
    /\ \A c \in AppRequests : maReq[c].at # "idle" => maRow[maReq[c].u].st # "none"
    /\ \A t \in maHeld : maRow[t.u].st # "none"
AccountInv == AccountTyped /\ WalletsSound /\ AddressSound /\ RowsExist

LEMMA AccountInit == AccountAssumption /\ Account!Init => AccountInv
<1> SUFFICES ASSUME AccountAssumption, Account!Init PROVE AccountInv
  OBVIOUS
<1>1. Account!NoRow \in UserRow /\ [Account!NoRow EXCEPT !.st = "active"] \in UserRow
      /\ Account!NoRow.st = "none" /\ Account!NoRow.wallet = None
      /\ [Account!NoRow EXCEPT !.st = "active"].wallet = None
  BY DEF Account!NoRow, UserRow
<1>2. Account!Idle \in AppRequest /\ Account!Idle.at = "idle"
  BY DEF Account!Idle, AppRequest, AppStages
<1>3. PICK old \in BOOLEAN : /\ maRead = old
         /\ maRow = [u \in Account!Users |-> IF old /\ u = 1 THEN [Account!NoRow EXCEPT !.st = "active"]
                                             ELSE Account!NoRow]
  BY DEF Account!Init
<1>4. AccountTyped
  BY <1>1, <1>2, <1>3 DEF AccountTyped, Account!Init
<1>5. WalletsSound
  BY <1>1, <1>2, <1>3 DEF WalletsSound, Account!Init
<1>6. AddressSound
  BY <1>1, <1>3 DEF AddressSound, Account!Init
<1>7. RowsExist
  BY <1>2 DEF RowsExist, Account!Init
<1> QED BY <1>4, <1>5, <1>6, <1>7 DEF AccountInv

(* A request goes on, ends or begins.                                      *)
LEMMA RequestGoes ==
  ASSUME AccountInv, NEW c \in AppRequests, NEW at \in AppStages, Account!Goto(c, at)
  PROVE  /\ maReq' \in [AppRequests -> AppRequest]
         /\ \A d \in AppRequests : d # c => maReq'[d] = maReq[d]
         /\ maReq'[c].at = at /\ maReq'[c].u = maReq[c].u /\ maReq'[c].op = maReq[c].op
BY DEF AccountInv, AccountTyped, Account!Goto, AppRequest

LEMMA RequestEnds ==
  ASSUME AccountInv, NEW c \in AppRequests, Account!Ends(c)
  PROVE  /\ maReq' \in [AppRequests -> AppRequest]
         /\ \A d \in AppRequests : d # c => maReq'[d] = maReq[d]
         /\ maReq'[c].at = "idle" /\ maReq'[c].u = 0
<1>1. Account!Idle \in AppRequest /\ Account!Idle.at = "idle" /\ Account!Idle.u = 0
  BY DEF Account!Idle, AppRequest, AppStages
<1> QED BY <1>1 DEF AccountInv, AccountTyped, Account!Ends

LEMMA RequestStarts ==
  ASSUME AccountInv, NEW c \in AppRequests, NEW u \in Account!Users,
         NEW d \in AppDevices \cup {None}, NEW at \in AppStages,
         NEW o \in Account!Authed \cup {"none", "register", "login", "refresh"},
         Account!Starts(c, o, at, u, d)
  PROVE  /\ maReq' \in [AppRequests -> AppRequest]
         /\ \A x \in AppRequests : x # c => maReq'[x] = maReq[x]
         /\ maReq'[c].at = at /\ maReq'[c].u = u /\ maReq'[c].op = o
BY DEF AccountInv, AccountTyped, Account!Starts, AppRequest

(* What a step of one request may do without touching the rows, and what   *)
(* it may do to one row that exists.                                       *)
Allowed(c) ==
    /\ maReq' \in [AppRequests -> AppRequest] /\ \A d \in AppRequests : d # c => maReq'[d] = maReq[d]
    /\ maReq'[c].at # "idle" => maReq'[c].u \in Account!Users
    /\ maReq'[c].at \in {"check", "admit"} => maReq'[c].op \in Account!Authed
    /\ maReq'[c].at # "reread"
    /\ maReq'[c].at # "idle" => maRow[maReq'[c].u].st # "none"
    /\ \A t \in maHeld' : maRow[t.u].st # "none"
    /\ maHeld' \subseteq [u : Account!Users, second : Nat, dev : AppDevices \cup {None}]
    /\ maCache' \in [Account!Users -> {"none", "yes", "no"}]
    /\ UNCHANGED <<maKey, maProof, maRead, maNow>>

LEMMA RowsStay ==
  ASSUME AccountInv, NEW c \in AppRequests, Allowed(c), UNCHANGED maRow,
         maShown' \in [Account!Users -> SUBSET Account!Addresses],
         \A u \in Account!Users : \A a \in maShown'[u] : a \in {OwnWallet, maKey[u]}
  PROVE  AccountInv'
<1>1. AccountTyped'
  BY DEF AccountInv, AccountTyped, Allowed
<1>2. WalletsSound'
  BY DEF AccountInv, WalletsSound, Allowed
<1>3. AddressSound'
  BY DEF AccountInv, AddressSound, Allowed
<1>4. RowsExist'
  BY DEF AccountInv, AccountTyped, RowsExist, Allowed
<1> QED BY <1>1, <1>2, <1>3, <1>4 DEF AccountInv

LEMMA OneRowChanges ==
  ASSUME AccountInv, NEW c \in AppRequests, Allowed(c), UNCHANGED maShown,
         NEW u \in Account!Users, NEW r \in UserRow, maRow' = [maRow EXCEPT ![u] = r],
         r.wallet \in {None, OwnWallet, maKey[u]}, r.st = "active" => maRow[u].st = "active", r.st # "none",
         r.st = "active" /\ maRow[u].wallet # None => r.wallet # None
  PROVE  AccountInv'
<1>1. /\ \A v \in Account!Users : maRow'[v] = IF v = u THEN r ELSE maRow[v]
      /\ maRow' \in [Account!Users -> UserRow]
  BY DEF AccountInv, AccountTyped
<1>2. AccountTyped'
  BY <1>1 DEF AccountInv, AccountTyped, Allowed
<1>3. \A d \in AppRequests : maReq'[d].at = "reread" => maReq'[d] = maReq[d] /\ maReq[d].u \in Account!Users
  BY DEF Allowed, AccountInv, AccountTyped
<1>4. WalletsSound'
  BY <1>1, <1>3 DEF AccountInv, WalletsSound, Allowed
<1>5. AddressSound'
  BY <1>1 DEF AccountInv, AddressSound, Allowed
<1>6. RowsExist'
  BY <1>1 DEF AccountInv, AccountTyped, RowsExist, Allowed
<1> QED BY <1>2, <1>4, <1>5, <1>6 DEF AccountInv

LEMMA RequestOf ==
  ASSUME AccountInv, NEW c \in AppRequests, maReq[c].at # "idle"
  PROVE  /\ maReq[c].u \in Account!Users /\ maRow[maReq[c].u] \in UserRow
         /\ maReq[c].dev \in AppDevices \cup {None}
         /\ maReq[c] \in AppRequest /\ maRow[maReq[c].u].st # "none"
BY DEF AccountInv, AccountTyped, RowsExist, AppRequest

(* The steps of requests that leave the rows and wallets as they are.      *)
LEMMA ReadingKeeps ==
  ASSUME AccountInv, NEW c \in AppRequests,
         \/ \E u \in Account!Users, d \in AppDevices : Account!Login(c, u, d)
         \/ \E u \in Account!Users, op \in Account!Authed : Account!RequireAuth(c, op, u)
         \/ \E t \in maHeld : Account!Refresh(c, t)
         \/ Account!CheckDevice(c) \/ Account!IsUserActive(c) \/ Account!SetCache(c)
         \/ Account!InvalidateUserActiveCache(c)
  PROVE  AccountInv'
<1> DEFINE cached == maCache' \in [Account!Users -> {"none", "yes", "no"}]
<1>1. UNCHANGED <<maRow, maKey, maShown, maProof, maRead, maNow, maHeld>>
  BY DEF Account!Login, Account!RequireAuth, Account!Refresh, Account!CheckDevice, Account!IsUserActive,
     Account!SetCache, Account!InvalidateUserActiveCache, Account!code, Account!session, Account!wallet
<1>2. maHeld \subseteq [u : Account!Users, second : Nat, dev : AppDevices \cup {None}]
      /\ maCache \in [Account!Users -> {"none", "yes", "no"}]
      /\ \A t \in maHeld : maRow[t.u].st # "none"
  BY DEF AccountInv, AccountTyped, RowsExist
<1>3. ASSUME NEW at \in AppStages, Account!Goto(c, at), at # "reread", maReq[c].at # "idle",
             at \in {"check", "admit"} => maReq[c].op \in Account!Authed, cached
      PROVE  Allowed(c)
  BY <1>1, <1>2, <1>3, RequestGoes, RequestOf DEF Allowed
<1>4. ASSUME Account!Ends(c), cached PROVE Allowed(c)
  BY <1>1, <1>2, <1>4, RequestEnds DEF Allowed
<1>5. ASSUME NEW u \in Account!Users, NEW d \in AppDevices \cup {None}, NEW at \in AppStages, at # "reread",
             NEW o \in Account!Authed \cup {"login", "refresh"}, Account!Starts(c, o, at, u, d),
             at \in {"check", "admit"} => o \in Account!Authed, cached, maRow[u].st # "none"
      PROVE  Allowed(c)
  BY <1>1, <1>2, <1>5, RequestStarts DEF Allowed
<1>6. ASSUME NEW u \in Account!Users, NEW d \in AppDevices, Account!Login(c, u, d) PROVE Allowed(c)
  <2>1. Account!EnsureUserWallet(u) \in AppStages /\ Account!EnsureUserWallet(u) \notin {"reread", "check", "admit"}
    BY DEF Account!EnsureUserWallet, AppStages
  <2> QED BY <1>2, <1>5, <1>6, <2>1 DEF Account!Login, Account!ByEmail, Account!Active
<1>7. ASSUME NEW u \in Account!Users, NEW op \in Account!Authed, Account!RequireAuth(c, op, u) PROVE Allowed(c)
  <2> DEFINE at == IF maCache[u] = "yes" THEN op ELSE "check"
  <2>1. at \in AppStages /\ at \notin {"reread", "admit"}
    BY DEF AppStages, Account!Authed
  <2> QED BY <1>2, <1>5, <1>7, <2>1 DEF Account!RequireAuth
<1>8. ASSUME NEW t \in maHeld, Account!Refresh(c, t) PROVE Allowed(c)
  BY <1>2, <1>5, <1>8 DEF Account!Refresh, Account!Active, AppStages
<1>9. CASE Account!CheckDevice(c)
  <2>1. Allowed(c)
    BY <1>2, <1>3, <1>4, <1>9 DEF Account!CheckDevice, AppStages
  <2> QED BY <1>1, <2>1, RowsStay DEF AccountInv, AccountTyped, WalletsSound
<1>10. CASE Account!IsUserActive(c)
  <2>1. maReq[c].at = "check" /\ maReq[c].op \in Account!Authed
    BY <1>10 DEF Account!IsUserActive, AccountInv, AccountTyped
  <2>2. Allowed(c)
    BY <1>2, <1>3, <1>10, <2>1 DEF Account!IsUserActive, AppStages
  <2> QED BY <1>1, <2>2, RowsStay DEF AccountInv, AccountTyped, WalletsSound
<1>11. CASE Account!SetCache(c)
  <2>1. cached
    BY <1>2, <1>11 DEF Account!SetCache
  <2>2. CASE maReq[c].at = "admit"
    <3>1. maReq[c].op \in Account!Authed
      BY <2>2 DEF AccountInv, AccountTyped
    <3>2. maReq[c].op \in AppStages /\ maReq[c].op \notin {"reread", "check", "admit"}
      BY <3>1 DEF AppStages, Account!Authed
    <3>3. Allowed(c)
      BY <1>3, <1>11, <2>1, <2>2, <3>2 DEF Account!SetCache
    <3> QED BY <1>1, <3>3, RowsStay DEF AccountInv, AccountTyped, WalletsSound
  <2>3. CASE maReq[c].at # "admit"
    <3>1. Allowed(c)
      BY <1>4, <1>11, <2>1, <2>3 DEF Account!SetCache
    <3> QED BY <1>1, <3>1, RowsStay DEF AccountInv, AccountTyped, WalletsSound
  <2> QED BY <2>2, <2>3
<1>12. CASE Account!InvalidateUserActiveCache(c)
  <2>1. cached /\ Allowed(c)
    BY <1>2, <1>4, <1>12 DEF Account!InvalidateUserActiveCache
  <2> QED BY <1>1, <2>1, RowsStay DEF AccountInv, AccountTyped, WalletsSound
<1>13. ASSUME Allowed(c) PROVE AccountInv'
  BY <1>1, <1>13, RowsStay DEF AccountInv, AccountTyped, WalletsSound
<1> QED BY <1>6, <1>7, <1>8, <1>9, <1>10, <1>11, <1>12, <1>13

(* The steps that show an address.                                         *)
LEMMA ShowingKeeps ==
  ASSUME AccountAssumption, AccountInv, NEW c \in AppRequests,
         Account!Reread(c) \/ Account!WalletAddress(c) \/ Account!WalletGenerate(c)
  PROVE  AccountInv'
<1> DEFINE u == maReq[c].u
<1>1. /\ maReq[c].at \in {"reread", "address", "generate"} /\ u \in Account!Users
      /\ UNCHANGED <<maRow, maKey, maProof, maRead, maNow, maHeld, maCache>>
      /\ maRow[u] \in UserRow /\ maRow[u].wallet \in {None, OwnWallet, maKey[u]}
      /\ maRow[u].wallet \in Account!Addresses \cup {None} /\ maRow[u].st # "none"
  <2>1. /\ maReq[c].at \in {"reread", "address", "generate"}
        /\ UNCHANGED <<maRow, maKey, maProof, maRead, maNow, maHeld, maCache>>
    BY DEF Account!Reread, Account!WalletAddress, Account!WalletGenerate, Account!code, Account!session
  <2>2. u \in Account!Users /\ maRow[u] \in UserRow /\ maRow[u].st # "none"
    BY <2>1, RequestOf
  <2> QED BY <2>1, <2>2 DEF UserRow, AccountInv, WalletsSound
<1>2. Allowed(c)
  <2>1. maHeld' \subseteq [u : Account!Users, second : Nat, dev : AppDevices \cup {None}]
        /\ maCache' \in [Account!Users -> {"none", "yes", "no"}]
        /\ \A t \in maHeld' : maRow[t.u].st # "none"
    BY <1>1 DEF AccountInv, AccountTyped, RowsExist
  <2>2. Account!Ends(c) \/ \E at \in {"session", "attach", "own"} : Account!Goto(c, at)
    BY DEF Account!Reread, Account!WalletAddress, Account!WalletGenerate
  <2>3. {"session", "attach", "own"} \subseteq AppStages
    BY DEF AppStages
  <2>4. CASE Account!Ends(c)
    BY <1>1, <2>1, <2>4, RequestEnds DEF Allowed
  <2>5. ASSUME NEW at \in {"session", "attach", "own"}, Account!Goto(c, at) PROVE Allowed(c)
    BY <1>1, <2>1, <2>3, <2>5, RequestGoes DEF Allowed
  <2> QED BY <2>2, <2>4, <2>5
<1>3. \/ UNCHANGED maShown
      \/ /\ maRow[u].wallet # None
         /\ maShown' = [maShown EXCEPT ![u] = @ \cup {maRow[u].wallet}]
  <2>1. CASE Account!Reread(c)
    <3>1. Account!Active(u) => maRow[u].wallet # None
      BY <1>1, <2>1 DEF Account!Reread, Account!Active, AccountInv, WalletsSound
    <3> QED BY <2>1, <3>1 DEF Account!Reread
  <2>2. CASE Account!WalletAddress(c) \/ Account!WalletGenerate(c)
    BY <2>2 DEF Account!WalletAddress, Account!WalletGenerate
  <2> QED BY <2>1, <2>2
<1>4. /\ maShown \in [Account!Users -> SUBSET Account!Addresses]
      /\ \A v \in Account!Users : \A a \in maShown[v] : a \in {OwnWallet, maKey[v]}
  BY DEF AccountInv, AccountTyped, WalletsSound
<1> HIDE DEF u
<1>5. CASE UNCHANGED maShown
  BY <1>1, <1>2, <1>4, <1>5, RowsStay
<1>6. CASE /\ maRow[u].wallet # None
           /\ maShown' = [maShown EXCEPT ![u] = @ \cup {maRow[u].wallet}]
  <2>1. /\ maShown' \in [Account!Users -> SUBSET Account!Addresses]
        /\ \A v \in Account!Users : maShown'[v] = IF v = u THEN maShown[u] \cup {maRow[u].wallet} ELSE maShown[v]
    BY <1>1, <1>4, <1>6
  <2>2. \A v \in Account!Users : \A a \in maShown'[v] : a \in {OwnWallet, maKey[v]}
    BY <1>1, <1>4, <1>6, <2>1
  <2> QED BY <1>1, <1>2, <2>1, <2>2, RowsStay
<1> QED BY <1>3, <1>5, <1>6

(* The steps that change one row.                                          *)
LEMMA WritingKeeps ==
  ASSUME AccountAssumption, AccountInv, NEW c \in AppRequests,
         \/ Account!SaveSession(c) \/ Account!UpdateUser(c) \/ Account!Logout(c)
         \/ Account!DeleteUserAccount(c)
  PROVE  AccountInv'
<1>1. /\ maReq[c].at \in {"session", "own", "logout", "delete"}
      /\ UNCHANGED <<maKey, maShown, maProof, maRead, maNow, maCache>>
  BY DEF Account!SaveSession, Account!UpdateUser, Account!Logout, Account!DeleteUserAccount,
     Account!code, Account!wallet
<1>2. PICK u \in Account!Users : u = maReq[c].u /\ maRow[u] \in UserRow
                                 /\ maReq[c].dev \in AppDevices \cup {None} /\ maRow[u].st # "none"
  BY <1>1, RequestOf
<1>3. /\ maRow[u].wallet \in {None, OwnWallet, maKey[u]} /\ OwnWallet \in Account!Addresses /\ OwnWallet # None
      /\ maRow \in [Account!Users -> UserRow] /\ maNow \in Nat
      /\ maHeld \subseteq [u : Account!Users, second : Nat, dev : AppDevices \cup {None}]
      /\ maCache \in [Account!Users -> {"none", "yes", "no"}]
      /\ maShown \in [Account!Users -> SUBSET Account!Addresses]
      /\ \A v \in Account!Users : \A a \in maShown[v] : a \in {OwnWallet, maKey[v]}
      /\ \A t \in maHeld : maRow[t.u].st # "none"
  BY DEF AccountInv, AccountTyped, WalletsSound, RowsExist, AccountAssumption, Account!Addresses
<1>4. ASSUME Account!Ends(c), UNCHANGED maHeld PROVE Allowed(c)
  BY <1>1, <1>3, <1>4, RequestEnds DEF Allowed
<1>5. ASSUME Account!Goto(c, "forget"), UNCHANGED maHeld PROVE Allowed(c)
  <2>1. "forget" \in AppStages
    BY DEF AppStages
  <2> QED BY <1>1, <1>2, <1>3, <1>5, <2>1, RequestGoes DEF Allowed
<1>6. CASE Account!SaveSession(c)
  <2>1. PICK r \in UserRow : /\ maRow' = [maRow EXCEPT ![u] = r]
                             /\ r.wallet = maRow[u].wallet /\ r.st = maRow[u].st
    <3>1. [maRow[u] EXCEPT !.hash = maNow, !.dev = maReq[c].dev] \in UserRow
      BY <1>2, <1>3 DEF UserRow
    <3>2. maRow' = [maRow EXCEPT ![u] = [maRow[u] EXCEPT !.hash = maNow, !.dev = maReq[c].dev]]
      BY <1>2, <1>3, <1>6 DEF Account!SaveSession, UserRow
    <3> QED BY <1>2, <3>1, <3>2 DEF UserRow
  <2>2. Allowed(c)
    <3>1. Account!Ends(c) /\ maHeld' = maHeld \cup {[u |-> u, second |-> maNow, dev |-> maReq[c].dev]}
      BY <1>2, <1>6 DEF Account!SaveSession
    <3>2. /\ maHeld' \subseteq [u : Account!Users, second : Nat, dev : AppDevices \cup {None}]
          /\ \A t \in maHeld' : maRow[t.u].st # "none"
      BY <1>2, <1>3, <3>1
    <3> QED BY <1>1, <1>3, <3>1, <3>2, RequestEnds DEF Allowed
  <2>3. /\ r.wallet \in {None, OwnWallet, maKey[u]} /\ r.st # "none"
        /\ r.st = "active" => maRow[u].st = "active"
        /\ r.st = "active" /\ maRow[u].wallet # None => r.wallet # None
    BY ONLY <1>2, <1>3, <2>1
  <2> QED BY <1>1, <1>2, <2>1, <2>2, <2>3, OneRowChanges, Zenon
<1>7. CASE Account!UpdateUser(c)
  <2>1. PICK r \in UserRow : /\ maRow' = [maRow EXCEPT ![u] = r]
                             /\ r.wallet = OwnWallet /\ r.st = maRow[u].st
    <3>1. [maRow[u] EXCEPT !.wallet = OwnWallet] \in UserRow
      BY <1>2, <1>3 DEF UserRow
    <3>2. maRow' = [maRow EXCEPT ![u] = [maRow[u] EXCEPT !.wallet = OwnWallet]]
      BY <1>2, <1>3, <1>7 DEF Account!UpdateUser, UserRow
    <3> QED BY <1>2, <3>1, <3>2 DEF UserRow
  <2>2. Allowed(c)
    BY <1>4, <1>7 DEF Account!UpdateUser
  <2>3. /\ r.wallet \in {None, OwnWallet, maKey[u]} /\ r.st # "none"
        /\ r.st = "active" => maRow[u].st = "active"
        /\ r.st = "active" /\ maRow[u].wallet # None => r.wallet # None
    BY ONLY <1>2, <1>3, <2>1
  <2> QED BY <1>1, <1>2, <2>1, <2>2, <2>3, OneRowChanges, Zenon
<1>8. CASE Account!Logout(c)
  <2>1. PICK r \in UserRow : /\ maRow' = [maRow EXCEPT ![u] = r]
                             /\ r.wallet = maRow[u].wallet /\ r.st = maRow[u].st
    <3>1. [maRow[u] EXCEPT !.hash = 0, !.dev = None] \in UserRow
      BY <1>2, <1>3 DEF UserRow
    <3>2. maRow' = [maRow EXCEPT ![u] = [maRow[u] EXCEPT !.hash = 0, !.dev = None]]
      BY <1>2, <1>3, <1>8 DEF Account!Logout, UserRow
    <3> QED BY <1>2, <3>1, <3>2 DEF UserRow
  <2>2. Allowed(c)
    BY <1>5, <1>8 DEF Account!Logout
  <2>3. /\ r.wallet \in {None, OwnWallet, maKey[u]} /\ r.st # "none"
        /\ r.st = "active" => maRow[u].st = "active"
        /\ r.st = "active" /\ maRow[u].wallet # None => r.wallet # None
    BY ONLY <1>2, <1>3, <2>1
  <2> QED BY <1>1, <1>2, <2>1, <2>2, <2>3, OneRowChanges, Zenon
<1>9. CASE Account!DeleteUserAccount(c)
  <2>1. CASE Account!Active(u)
    <3>1. PICK r \in UserRow : /\ maRow' = [maRow EXCEPT ![u] = r]
                               /\ r.wallet = None /\ r.st = "deleted"
      <4>1. [Account!NoRow EXCEPT !.st = "deleted", !.dev = maRow[u].dev] \in UserRow
        BY <1>2, <1>3 DEF UserRow, Account!NoRow
      <4>2. maRow' = [maRow EXCEPT ![u] = [Account!NoRow EXCEPT !.st = "deleted", !.dev = maRow[u].dev]]
        BY <1>2, <1>9, <2>1 DEF Account!DeleteUserAccount
      <4> QED BY <4>1, <4>2 DEF UserRow, Account!NoRow
    <3>2. Allowed(c)
      BY <1>2, <1>5, <1>9, <2>1 DEF Account!DeleteUserAccount
    <3> QED BY <1>1, <1>3, <3>1, <3>2, OneRowChanges
  <2>2. CASE ~Account!Active(u)
    <3>1. UNCHANGED maRow /\ Allowed(c)
      BY <1>2, <1>4, <1>9, <2>2 DEF Account!DeleteUserAccount
    <3> QED BY <1>1, <1>3, <3>1, RowsStay
  <2> QED BY <2>1, <2>2
<1> QED BY <1>6, <1>7, <1>8, <1>9

(* The steps of no request: the code, the time and the cache.              *)
LEMMA CodeKeeps ==
  ASSUME AccountInv,
         \/ Account!RequestCode \/ Account!VerifyCode \/ Account!Mistype \/ Account!CodeEnds
         \/ Account!Tick \/ \E u \in Account!Users : Account!CacheLapses(u)
  PROVE  AccountInv'
<1>1. UNCHANGED <<maRow, maHeld, maKey, maShown, maReq>>
  BY DEF Account!RequestCode, Account!VerifyCode, Account!Mistype, Account!CodeEnds, Account!Tick,
     Account!CacheLapses, Account!session, Account!wallet
<1>2. maNow' \in Nat /\ (maRead => maRead') /\ (maProof' => maProof \/ maRead')
  BY DEF Account!RequestCode, Account!VerifyCode, Account!Mistype, Account!CodeEnds, Account!Tick,
     Account!CacheLapses, Account!session, Account!code, AccountInv, AccountTyped
<1>3. maCache' \in [Account!Users -> {"none", "yes", "no"}]
  BY DEF Account!RequestCode, Account!VerifyCode, Account!Mistype, Account!CodeEnds, Account!Tick,
     Account!CacheLapses, AccountInv, AccountTyped
<1>4. AccountTyped'
  BY <1>1, <1>2, <1>3 DEF AccountInv, AccountTyped
<1>5. WalletsSound'
  BY <1>1 DEF AccountInv, WalletsSound
<1>6. AddressSound'
  BY <1>1, <1>2 DEF AccountInv, AddressSound
<1>7. RowsExist'
  BY <1>1 DEF AccountInv, RowsExist
<1> QED BY <1>4, <1>5, <1>6, <1>7 DEF AccountInv

(* A row is inserted only when the address has no active one, by who read  *)
(* its mail.                                                               *)
LEMMA RegisterKeeps ==
  ASSUME AccountInv, NEW c \in AppRequests, NEW u \in Account!Users, NEW d \in AppDevices,
         Account!Register(c, u, d)
  PROVE  AccountInv'
<1>1. /\ maRow[u].st = "none" /\ (\A v \in Account!Users : maRow[v].st # "active") /\ maProof
      /\ UNCHANGED <<maKey, maShown, maProof, maRead, maNow, maCache, maHeld>>
      /\ maRow' = [maRow EXCEPT ![u].st = "active"] /\ Account!Starts(c, "register", "attach", u, d)
  BY DEF Account!Register, Account!CreateUser, Account!ByEmail, Account!Active, Account!code, Account!wallet
<1>2. /\ maReq' \in [AppRequests -> AppRequest]
      /\ \A x \in AppRequests : x # c => maReq'[x] = maReq[x]
      /\ maReq'[c].at = "attach" /\ maReq'[c].u = u
  <2>1. "attach" \in AppStages
    BY DEF AppStages
  <2> QED BY <1>1, <2>1, RequestStarts
<1>3. /\ maRow' \in [Account!Users -> UserRow] /\ maRow'[u].st = "active"
      /\ \A v \in Account!Users : (v # u => maRow'[v] = maRow[v]) /\ maRow'[v].wallet = maRow[v].wallet
  BY <1>1 DEF AccountInv, AccountTyped, UserRow
<1>4. AccountTyped'
  BY <1>1, <1>2, <1>3 DEF AccountInv, AccountTyped
<1>5. \A x \in AppRequests : x # c /\ maReq[x].at # "idle" => maReq[x].u # u
  BY <1>1 DEF AccountInv, RowsExist
<1>6. WalletsSound'
  <2>1. \A v \in Account!Users : maRow'[v].wallet \in {None, OwnWallet, maKey'[v]}
                                 /\ \A a \in maShown'[v] : a \in {OwnWallet, maKey'[v]}
    BY <1>1, <1>3 DEF AccountInv, WalletsSound
  <2>2. \A x \in AppRequests : maReq'[x].at = "reread" /\ maRow'[maReq'[x].u].st = "active" =>
                                 maRow'[maReq'[x].u].wallet # None
    BY <1>2, <1>3, <1>5 DEF AccountInv, AccountTyped, WalletsSound
  <2> QED BY <2>1, <2>2 DEF WalletsSound
<1>7. AddressSound'
  BY <1>1, <1>3 DEF AccountInv, AddressSound
<1>8. RowsExist'
  BY <1>1, <1>2, <1>3 DEF AccountInv, AccountTyped, RowsExist
<1> QED BY <1>4, <1>6, <1>7, <1>8 DEF AccountInv

(* Whichever request attaches a wallet, the key stored first stays.        *)
LEMMA AttachKeeps ==
  ASSUME AccountAssumption, AccountInv, NEW c \in AppRequests, Account!EnsureGeneratedWallet(c)
  PROVE  AccountInv'
<1>1. /\ maReq[c].at = "attach" /\ Account!Goto(c, "reread")
      /\ UNCHANGED <<maShown, maProof, maRead, maNow, maCache, maHeld>>
  BY DEF Account!EnsureGeneratedWallet, Account!code
<1>2. PICK u \in Account!Users : u = maReq[c].u /\ maRow[u] \in UserRow /\ maRow[u].st # "none"
  BY <1>1, RequestOf
<1>3. PICK a \in Account!Addresses : a = <<c, u>> /\ a # None
  <2>1. <<c, u>> \in AppRequests \X Account!Users
    OBVIOUS
  <2>2. <<c, u>> \in Account!Addresses
    BY <2>1 DEF Account!Addresses
  <2> QED BY <2>2 DEF AccountAssumption
<1>4. /\ maKey \in [Account!Users -> Account!Addresses \cup {None}] /\ maRow \in [Account!Users -> UserRow]
      /\ \A v \in Account!Users : /\ maRow[v].wallet \in {None, OwnWallet, maKey[v]}
                                  /\ \A x \in maShown[v] : x \in {OwnWallet, maKey[v]} /\ x # None
  BY DEF AccountInv, AccountTyped, WalletsSound, AccountAssumption
<1>5. PICK k \in Account!Addresses :
        /\ k = IF maKey[u] = None THEN a ELSE maKey[u]
        /\ maKey' \in [Account!Users -> Account!Addresses \cup {None}]
        /\ \A v \in Account!Users : maKey'[v] = IF v = u THEN k ELSE maKey[v]
  BY <1>1, <1>2, <1>3, <1>4 DEF Account!EnsureGeneratedWallet, Account!AttachSystemWallet
<1>6. k # None
  BY <1>3, <1>4, <1>5
<1>7. /\ maRow' \in [Account!Users -> UserRow]
      /\ \A v \in Account!Users : (v # u => maRow'[v] = maRow[v]) /\ maRow'[v].st = maRow[v].st
      /\ maRow'[u].wallet \in {k, maRow[u].wallet}
      /\ maRow[u].st = "active" => maRow'[u].wallet # None
  <2>1. maRow' = IF maRow[u].st = "active" /\ maRow[u].wallet = None
                 THEN [maRow EXCEPT ![u].wallet = k] ELSE maRow
    BY <1>1, <1>2, <1>5 DEF Account!EnsureGeneratedWallet, Account!AttachSystemWallet, Account!Active
  <2> QED BY <1>2, <1>4, <1>5, <1>6, <2>1 DEF UserRow
<1>8. /\ maReq' \in [AppRequests -> AppRequest]
      /\ \A x \in AppRequests : x # c => maReq'[x] = maReq[x]
      /\ maReq'[c].at = "reread" /\ maReq'[c].u = u
  <2>1. "reread" \in AppStages
    BY DEF AppStages
  <2> QED BY <1>1, <1>2, <2>1, RequestGoes
<1>9. AccountTyped'
  BY <1>1, <1>5, <1>7, <1>8 DEF AccountInv, AccountTyped
<1>10. WalletsSound'
  <2>1. \A v \in Account!Users : maRow'[v].wallet \in {None, OwnWallet, maKey'[v]}
    BY <1>4, <1>5, <1>7
  <2>2. \A v \in Account!Users : \A x \in maShown'[v] : x \in {OwnWallet, maKey'[v]}
    BY <1>1, <1>4, <1>5
  <2>3. \A x \in AppRequests : maReq'[x].at = "reread" /\ maRow'[maReq'[x].u].st = "active" =>
                                 maRow'[maReq'[x].u].wallet # None
    BY <1>7, <1>8 DEF AccountInv, AccountTyped, WalletsSound
  <2> QED BY <2>1, <2>2, <2>3 DEF WalletsSound
<1>11. AddressSound'
  BY <1>1, <1>7 DEF AccountInv, AddressSound
<1>12. RowsExist'
  BY <1>1, <1>2, <1>7, <1>8 DEF AccountInv, AccountTyped, RowsExist
<1> QED BY <1>9, <1>10, <1>11, <1>12 DEF AccountInv

LEMMA AccountNext == AccountAssumption /\ AccountInv /\ [Account!Next]_Account!vars => AccountInv'
<1> SUFFICES ASSUME AccountAssumption, AccountInv, [Account!Next]_Account!vars PROVE AccountInv'
  OBVIOUS
<1>1. CASE UNCHANGED Account!vars
  BY <1>1 DEF AccountInv, AccountTyped, WalletsSound, AddressSound, RowsExist, Account!vars
<1>2. CASE \/ Account!RequestCode \/ Account!VerifyCode \/ Account!Mistype \/ Account!CodeEnds
           \/ Account!Tick \/ \E u \in Account!Users : Account!CacheLapses(u)
  BY <1>2, CodeKeeps
<1>3. ASSUME NEW c \in AppRequests,
             \/ \E u \in Account!Users, d \in AppDevices : Account!Register(c, u, d) \/ Account!Login(c, u, d)
             \/ \E u \in Account!Users, op \in Account!Authed : Account!RequireAuth(c, op, u)
             \/ \E t \in maHeld : Account!Refresh(c, t)
             \/ Account!CheckDevice(c) \/ Account!SaveSession(c) \/ Account!EnsureGeneratedWallet(c)
             \/ Account!Reread(c) \/ Account!WalletAddress(c) \/ Account!WalletGenerate(c)
             \/ Account!UpdateUser(c) \/ Account!IsUserActive(c) \/ Account!SetCache(c)
             \/ Account!Logout(c) \/ Account!DeleteUserAccount(c)
             \/ Account!InvalidateUserActiveCache(c)
      PROVE  AccountInv'
  BY <1>3, RegisterKeeps, ReadingKeeps, AttachKeeps, ShowingKeeps, WritingKeeps
<1> QED BY <1>1, <1>2, <1>3 DEF Account!Next

LEMMA AccountInvEnough == AccountInv => Account!KeysAreKept /\ Account!OneAccountPerEmail
<1> SUFFICES ASSUME AccountInv PROVE Account!KeysAreKept /\ Account!OneAccountPerEmail
  OBVIOUS
<1>1. Account!KeysAreKept
  BY DEF AccountInv, WalletsSound, Account!KeysAreKept
<1>2. Account!Cardinality(Account!ByEmail) = Cardinality(Account!ByEmail)
  BY DEF Account!Cardinality, Cardinality
<1>3. CASE Account!ByEmail = {}
  <2>1. Cardinality(Account!ByEmail) = 0
    BY <1>3, FS_EmptySet
  <2> QED BY <1>1, <1>2, <1>3, <2>1 DEF Account!OneAccountPerEmail
<1>4. CASE Account!ByEmail # {}
  <2>1. PICK u \in Account!Users : maRow[u].st = "active"
    BY <1>4 DEF Account!ByEmail, Account!Active
  <2>2. Account!ByEmail = {u} /\ maRead
    BY <2>1 DEF Account!ByEmail, Account!Active, AccountInv, AddressSound
  <2>3. Cardinality(Account!ByEmail) = 1
    BY <2>2, FS_Singleton
  <2> QED BY <1>1, <1>2, <2>2, <2>3 DEF Account!OneAccountPerEmail
<1> QED BY <1>3, <1>4

(* What a request does to a row that is gone.                              *)
GoneStages == {"check", "refuse", "forget"}
Untouched(c, u) ==
    /\ maRow'[u] = maRow[u] /\ maKey'[u] = maKey[u] /\ maCache'[u] # "yes"
    /\ \A d \in AppRequests : d # c => maReq'[d] = maReq[d]
    /\ maReq'[c].u = u => maReq'[c].at \in GoneStages

LEMMA OthersLeaveIt ==
  ASSUME AccountInv, NEW c \in AppRequests, NEW u \in Account!Users, Account!Gone(u),
         maReq[c].at \notin GoneStages,
         \/ Account!CheckDevice(c) \/ Account!SaveSession(c) \/ Account!EnsureGeneratedWallet(c)
         \/ Account!Reread(c) \/ Account!WalletAddress(c) \/ Account!WalletGenerate(c)
         \/ Account!UpdateUser(c) \/ Account!SetCache(c)
         \/ Account!Logout(c) \/ Account!DeleteUserAccount(c)
  PROVE  Untouched(c, u)
<1>1. maReq[c].at # "idle" /\ maReq[c].u # u
  BY DEF Account!CheckDevice, Account!SaveSession, Account!EnsureGeneratedWallet, Account!Reread,
     Account!WalletAddress, Account!WalletGenerate, Account!UpdateUser, Account!SetCache, Account!Logout,
     Account!DeleteUserAccount, Account!Gone, GoneStages
<1>2. maReq[c].u \in Account!Users /\ maReq[c].op \in Account!Authed \cup {"none", "register", "login", "refresh"}
  BY <1>1, RequestOf DEF AppRequest
<1>3. maReq[c].at = "admit" => maReq[c].op \in AppStages
  BY DEF AccountInv, AccountTyped, AppStages
<1>4. Account!Ends(c) \/ \E at \in AppStages : Account!Goto(c, at)
  BY <1>3 DEF Account!CheckDevice, Account!SaveSession, Account!EnsureGeneratedWallet, Account!Reread,
     Account!WalletAddress, Account!WalletGenerate, Account!UpdateUser, Account!SetCache, Account!Logout,
     Account!DeleteUserAccount, AppStages
<1>5. (\A d \in AppRequests : d # c => maReq'[d] = maReq[d]) /\ maReq'[c].u # u
  <2>1. u # 0
    BY DEF Account!Users
  <2> QED BY <1>1, <1>4, <2>1, RequestGoes, RequestEnds
<1>6. /\ maRow \in [Account!Users -> UserRow] /\ maKey \in [Account!Users -> Account!Addresses \cup {None}]
      /\ maCache \in [Account!Users -> {"none", "yes", "no"}] /\ maCache[u] # "yes"
  BY DEF AccountInv, AccountTyped, Account!Gone
<1>7. maRow'[u] = maRow[u]
  BY <1>1, <1>2, <1>6 DEF Account!CheckDevice, Account!SaveSession, Account!EnsureGeneratedWallet, Account!Reread,
     Account!WalletAddress, Account!WalletGenerate, Account!UpdateUser, Account!SetCache, Account!Logout,
     Account!DeleteUserAccount, Account!AttachSystemWallet, Account!session
<1>8. maKey'[u] = maKey[u]
  BY <1>1, <1>2, <1>6 DEF Account!CheckDevice, Account!SaveSession, Account!EnsureGeneratedWallet, Account!Reread,
     Account!WalletAddress, Account!WalletGenerate, Account!UpdateUser, Account!SetCache, Account!Logout,
     Account!DeleteUserAccount, Account!AttachSystemWallet, Account!wallet
<1>9. maCache'[u] # "yes"
  BY <1>1, <1>2, <1>6 DEF Account!CheckDevice, Account!SaveSession, Account!EnsureGeneratedWallet, Account!Reread,
     Account!WalletAddress, Account!WalletGenerate, Account!UpdateUser, Account!SetCache, Account!Logout,
     Account!DeleteUserAccount
<1> QED BY <1>5, <1>7, <1>8, <1>9 DEF Untouched

(* A request that begins, and the ones that still remember the account.    *)
LEMMA NewcomersLeaveIt ==
  ASSUME AccountInv, NEW c \in AppRequests, NEW u \in Account!Users, Account!Gone(u),
         \/ \E v \in Account!Users, d \in AppDevices : Account!Register(c, v, d) \/ Account!Login(c, v, d)
         \/ \E v \in Account!Users, op \in Account!Authed : Account!RequireAuth(c, op, v)
         \/ \E t \in maHeld : Account!Refresh(c, t)
  PROVE  Untouched(c, u)
<1>1. /\ maRow \in [Account!Users -> UserRow] /\ maCache[u] # "yes" /\ maRow[u].st = "deleted"
      /\ maHeld \subseteq [u : Account!Users, second : Nat, dev : AppDevices \cup {None}]
  BY DEF AccountInv, AccountTyped, Account!Gone
<1>2. UNCHANGED <<maKey, maCache>>
  BY DEF Account!Register, Account!Login, Account!RequireAuth, Account!Refresh, Account!wallet
<1>3. ASSUME NEW v \in Account!Users, NEW d \in AppDevices \cup {None}, NEW at \in AppStages,
             NEW o \in Account!Authed \cup {"none", "register", "login", "refresh"},
             Account!Starts(c, o, at, v, d), v # u \/ at = "check", maRow'[u] = maRow[u]
      PROVE  Untouched(c, u)
  BY <1>1, <1>2, <1>3, RequestStarts DEF Untouched, GoneStages
<1>4. ASSUME NEW v \in Account!Users, NEW d \in AppDevices, Account!Register(c, v, d) PROVE Untouched(c, u)
  <2>1. v # u /\ maRow'[u] = maRow[u] /\ Account!Starts(c, "register", "attach", v, d)
    BY <1>1, <1>4 DEF Account!Register, Account!CreateUser
  <2> QED BY <1>3, <2>1 DEF AppStages
<1>5. ASSUME NEW v \in Account!Users, NEW d \in AppDevices, Account!Login(c, v, d) PROVE Untouched(c, u)
  <2>1. v # u /\ maRow'[u] = maRow[u] /\ Account!Starts(c, "login", Account!EnsureUserWallet(v), v, d)
    BY <1>1, <1>5 DEF Account!Login, Account!ByEmail, Account!Active, Account!session
  <2>2. Account!EnsureUserWallet(v) \in AppStages
    BY DEF Account!EnsureUserWallet, AppStages
  <2> QED BY <1>3, <2>1, <2>2
<1>6. ASSUME NEW v \in Account!Users, NEW op \in Account!Authed, Account!RequireAuth(c, op, v)
      PROVE  Untouched(c, u)
  <2> DEFINE at == IF maCache[v] = "yes" THEN op ELSE "check"
  <2>1. at \in AppStages /\ (v # u \/ at = "check")
    BY <1>1 DEF AppStages
  <2>2. maRow'[u] = maRow[u] /\ Account!Starts(c, op, at, v, None)
    BY <1>6 DEF Account!RequireAuth, Account!session
  <2> QED BY <1>3, <2>1, <2>2
<1>7. ASSUME NEW t \in maHeld, Account!Refresh(c, t) PROVE Untouched(c, u)
  <2>1. /\ t.u # u /\ maRow'[u] = maRow[u] /\ Account!Starts(c, "refresh", "device", t.u, t.dev)
        /\ t.u \in Account!Users /\ t.dev \in AppDevices \cup {None}
    BY <1>1, <1>7 DEF Account!Refresh, Account!Active, Account!session
  <2> QED BY <1>3, <2>1 DEF AppStages
<1> QED BY <1>4, <1>5, <1>6, <1>7

LEMMA RemindersLeaveIt ==
  ASSUME AccountInv, NEW c \in AppRequests, NEW u \in Account!Users, Account!Gone(u),
         maReq[c].at \in GoneStages,
         Account!IsUserActive(c) \/ Account!SetCache(c) \/ Account!InvalidateUserActiveCache(c)
  PROVE  Untouched(c, u)
<1>1. /\ maRow[u].st = "deleted" /\ maCache[u] # "yes" /\ u # 0 /\ UNCHANGED <<maRow, maKey>>
      /\ maCache \in [Account!Users -> {"none", "yes", "no"}]
  BY DEF AccountInv, AccountTyped, Account!Gone, Account!IsUserActive, Account!SetCache, Account!Users,
     Account!InvalidateUserActiveCache, Account!session, Account!wallet
<1>2. CASE Account!IsUserActive(c)
  <2>1. PICK at \in {"admit", "refuse"} : Account!Goto(c, at) /\ (maReq[c].u = u => at = "refuse")
    BY <1>1, <1>2 DEF Account!IsUserActive, Account!Active
  <2>2. at \in AppStages
    BY DEF AppStages
  <2> QED BY <1>1, <1>2, <2>1, <2>2, RequestGoes DEF Untouched, GoneStages, Account!IsUserActive
<1>3. CASE Account!SetCache(c)
  <2>1. maReq[c].at = "refuse" /\ Account!Ends(c) /\ maCache' = [maCache EXCEPT ![maReq[c].u] = "no"]
    BY <1>3 DEF Account!SetCache, GoneStages
  <2> QED BY <1>1, <2>1, RequestEnds DEF Untouched
<1>4. CASE Account!InvalidateUserActiveCache(c)
  <2>1. Account!Ends(c) /\ maCache' = [maCache EXCEPT ![maReq[c].u] = "none"]
    BY <1>4 DEF Account!InvalidateUserActiveCache
  <2> QED BY <1>1, <2>1, RequestEnds DEF Untouched
<1> QED BY <1>2, <1>3, <1>4

LEMMA GoneNext == AccountInv /\ [Account!Next]_Account!vars => Account!StaysGone
<1> SUFFICES ASSUME AccountInv, [Account!Next]_Account!vars, NEW u \in Account!Users, Account!Gone(u)
             PROVE  Account!Gone(u)' /\ UNCHANGED <<maRow[u], maKey[u]>>
  BY DEF Account!StaysGone
<1>1. CASE UNCHANGED <<maRow, maKey, maReq>> /\ maCache'[u] # "yes"
  BY <1>1 DEF Account!Gone
<1>2. ASSUME NEW c \in AppRequests, Untouched(c, u)
      PROVE  Account!Gone(u)' /\ UNCHANGED <<maRow[u], maKey[u]>>
  BY <1>2 DEF Untouched, Account!Gone, GoneStages
<1>3. CASE UNCHANGED Account!vars
  BY <1>1, <1>3 DEF Account!vars, Account!Gone
<1>4. CASE \/ Account!RequestCode \/ Account!VerifyCode \/ Account!Mistype \/ Account!CodeEnds
           \/ Account!Tick \/ \E v \in Account!Users : Account!CacheLapses(v)
  <2>1. UNCHANGED <<maRow, maKey, maReq>>
    BY <1>4 DEF Account!RequestCode, Account!VerifyCode, Account!Mistype, Account!CodeEnds, Account!Tick,
       Account!CacheLapses, Account!session, Account!wallet
  <2>2. maCache'[u] # "yes"
    BY <1>4 DEF Account!RequestCode, Account!VerifyCode, Account!Mistype, Account!CodeEnds, Account!Tick,
       Account!CacheLapses, Account!Gone, AccountInv, AccountTyped
  <2> QED BY <1>1, <2>1, <2>2
<1>5. ASSUME NEW c \in AppRequests,
             \/ \E v \in Account!Users, d \in AppDevices : Account!Register(c, v, d) \/ Account!Login(c, v, d)
             \/ \E v \in Account!Users, op \in Account!Authed : Account!RequireAuth(c, op, v)
             \/ \E t \in maHeld : Account!Refresh(c, t)
      PROVE  Untouched(c, u)
  BY <1>5, NewcomersLeaveIt
<1>6. ASSUME NEW c \in AppRequests,
             \/ Account!CheckDevice(c) \/ Account!SaveSession(c) \/ Account!EnsureGeneratedWallet(c)
             \/ Account!Reread(c) \/ Account!WalletAddress(c) \/ Account!WalletGenerate(c)
             \/ Account!UpdateUser(c) \/ Account!Logout(c) \/ Account!DeleteUserAccount(c)
      PROVE  Untouched(c, u)
  <2>1. maReq[c].at \notin GoneStages
    BY <1>6 DEF Account!CheckDevice, Account!SaveSession, Account!EnsureGeneratedWallet, Account!Reread,
       Account!WalletAddress, Account!WalletGenerate, Account!UpdateUser, Account!Logout,
       Account!DeleteUserAccount, GoneStages
  <2> QED BY <1>6, <2>1, OthersLeaveIt
<1>7. ASSUME NEW c \in AppRequests,
             Account!IsUserActive(c) \/ Account!SetCache(c) \/ Account!InvalidateUserActiveCache(c)
      PROVE  Untouched(c, u)
  <2>1. CASE maReq[c].at \in GoneStages
    BY <1>7, <2>1, RemindersLeaveIt
  <2>2. CASE maReq[c].at \notin GoneStages
    <3>1. Account!SetCache(c)
      BY <1>7, <2>2 DEF Account!IsUserActive, Account!InvalidateUserActiveCache, GoneStages
    <3> QED BY <2>2, <3>1, OthersLeaveIt
  <2> QED BY <2>1, <2>2
<1> QED BY <1>2, <1>3, <1>4, <1>5, <1>6, <1>7 DEF Account!Next

(* Whoever was shown an address that the platform generated finds its key  *)
(* stored, however many requests wanted a wallet at once, and an address   *)
(* has at most one account, opened by who read its mail.                   *)
THEOREM KeysAndAddressesHold ==
  ASSUME AccountAssumption
  PROVE  Account!Spec => [](Account!KeysAreKept /\ Account!OneAccountPerEmail)
BY AccountInit, AccountNext, AccountInvEnough, PTL DEF Account!Spec

(* A deleted account that no request and no cache entry remembers is never *)
(* served again and its row does not change.                               *)
THEOREM DeletedStaysGone ==
  ASSUME AccountAssumption
  PROVE  Account!Spec => Account!GoneIsGone
<1>1. AccountInv /\ [Account!Next]_Account!vars => AccountInv' /\ [Account!StaysGone]_Account!vars
  BY AccountNext, GoneNext
<1> QED BY <1>1, AccountInit, PTL DEF Account!Spec, Account!GoneIsGone

-----------------------------------------------------------------------------
(* The verification of users, for any number of requests, users, faces and *)
(* workers.                                                                *)
CONSTANTS KycRequests, KycUsers, KycUserOf, KycLevelOf, KycFaceOf, KycNoVideo, KycWorkers
VARIABLES krStatus, krKyc, krEvent, krDue, krTask, krProfile, krCleared, krUnchecked
Review == INSTANCE KycReview WITH Requests <- KycRequests, Users <- KycUsers, UserOf <- KycUserOf,
    LevelOf <- KycLevelOf, FaceOf <- KycFaceOf, NoVideo <- KycNoVideo, Workers <- KycWorkers,
    status <- krStatus, kyc <- krKyc, event <- krEvent, due <- krDue, task <- krTask,
    profile <- krProfile, cleared <- krCleared, unchecked <- krUnchecked

(* Levels are the three of kyc_requests, and None is no request.           *)
KycAssumption ==
    /\ KycUserOf \in [KycRequests -> KycUsers] /\ KycLevelOf \in [KycRequests -> 1..3]
    /\ None \notin KycRequests

(* A worker that will write `approved' had it from an analysis that did.   *)
Analysts == \A w \in KycWorkers :
    /\ krTask[w].at # "idle" => krTask[w].req \in KycRequests
    /\ krTask[w].at \in {"count", "status", "profile", "user"} => krTask[w].says \in Review!Decisions
    /\ krTask[w].at = "profile" => krTask[w].says = "approved"
    /\ krTask[w].at \in {"status", "profile", "user"} /\ krTask[w].says = "approved"
          => krTask[w].req \in krCleared
(* What is written of a request or a user was approved.                    *)
Written ==
    /\ \A r \in KycRequests : krStatus[r] = "approved" => r \in krCleared
    /\ \A u \in KycUsers : krKyc[u] = "approved" => \E r \in krCleared : KycUserOf[r] = u
    /\ \A u \in KycUsers : krProfile[u] # None => krProfile[u] \in krCleared /\ KycUserOf[krProfile[u]] = u
ReviewInv == Review!TypeOK /\ Analysts /\ Written

LEMMA ReviewInit == KycAssumption /\ Review!Init => ReviewInv
<1> SUFFICES ASSUME KycAssumption, Review!Init PROVE ReviewInv
  OBVIOUS
<1>1. Review!TypeOK
  BY DEF Review!TypeOK, Review!Init, Review!Idle, Review!Statuses
<1>2. Analysts
  BY DEF Analysts, Review!Init, Review!Idle
<1>3. Written
  BY DEF Written, Review!Init
<1> QED BY <1>1, <1>2, <1>3 DEF ReviewInv

(* What a step may do to the task of one worker, and what it keeps.        *)
TaskRecord == [at : {"idle", "mark", "analyze", "count", "status", "profile", "user"},
               req : KycRequests \cup {None}, device : BOOLEAN, says : Review!Decisions \cup {None}]

LEMMA TaskGoes ==
  ASSUME ReviewInv, NEW w \in KycWorkers, NEW t \in TaskRecord, krTask' = [krTask EXCEPT ![w] = t],
         t.at # "idle" => t.req \in KycRequests,
         t.at \in {"count", "status", "profile", "user"} => t.says \in Review!Decisions,
         t.at = "profile" => t.says = "approved",
         t.at \in {"status", "profile", "user"} /\ t.says = "approved" => t.req \in krCleared',
         krCleared \subseteq krCleared'
  PROVE  /\ Analysts' /\ krTask' \in [KycWorkers -> TaskRecord]
BY DEF ReviewInv, Review!TypeOK, Analysts, TaskRecord

LEMMA TaskOf ==
  ASSUME ReviewInv, NEW w \in KycWorkers
  PROVE  krTask \in [KycWorkers -> TaskRecord] /\ krTask[w] \in TaskRecord
BY DEF ReviewInv, Review!TypeOK, TaskRecord

LEMMA TaskEnds ==
  ASSUME ReviewInv, NEW w \in KycWorkers, Review!Ends(w), krCleared \subseteq krCleared'
  PROVE  Analysts' /\ krTask' \in [KycWorkers -> TaskRecord]
<1>1. Review!Idle \in TaskRecord /\ Review!Idle.at = "idle"
  BY DEF Review!Idle, TaskRecord
<1>2. krTask' = [krTask EXCEPT ![w] = Review!Idle]
  BY DEF Review!Ends
<1> HIDE DEF Review!Idle
<1> QED BY <1>1, <1>2, TaskGoes

(* The steps that write no row.                                            *)
LEMMA TakingKeeps ==
  ASSUME KycAssumption, ReviewInv, NEW w \in KycWorkers, NEW r \in KycRequests,
         Review!TakeEvent(w, r) \/ Review!ProcessPending(w, r)
  PROVE  ReviewInv'
<1>1. UNCHANGED <<krStatus, krKyc, krDue, krProfile, krCleared, krUnchecked>>
  BY DEF Review!TakeEvent, Review!ProcessPending
<1>2. krEvent' \in [KycWorkers -> SUBSET KycRequests]
  BY DEF Review!TakeEvent, Review!ProcessPending, ReviewInv, Review!TypeOK
<1>3. PICK t \in TaskRecord : krTask' = [krTask EXCEPT ![w] = t] /\ t.at = "mark" /\ t.req = r
  <2>1. \A b \in BOOLEAN : /\ [Review!Idle EXCEPT !.at = "mark", !.req = r, !.device = b] \in TaskRecord
                           /\ [Review!Idle EXCEPT !.at = "mark", !.req = r] \in TaskRecord
                           /\ [Review!Idle EXCEPT !.at = "mark", !.req = r, !.device = b].at = "mark"
                           /\ [Review!Idle EXCEPT !.at = "mark", !.req = r, !.device = b].req = r
                           /\ [Review!Idle EXCEPT !.at = "mark", !.req = r].at = "mark"
                           /\ [Review!Idle EXCEPT !.at = "mark", !.req = r].req = r
    BY DEF Review!Idle, TaskRecord
  <2> QED BY <2>1 DEF Review!TakeEvent, Review!ProcessPending
<1>4. Analysts' /\ krTask' \in [KycWorkers -> TaskRecord]
  BY <1>1, <1>3, TaskGoes
<1>5. Review!TypeOK'
  BY <1>1, <1>2, <1>4 DEF ReviewInv, Review!TypeOK, TaskRecord
<1>6. Written'
  BY <1>1 DEF ReviewInv, Written
<1> QED BY <1>4, <1>5, <1>6 DEF ReviewInv

LEMMA OutsideKeeps ==
  ASSUME KycAssumption, ReviewInv, NEW r \in KycRequests,
         \/ \E w \in KycWorkers : Review!Submit(r, w)
         \/ Review!HalfAMinutePasses(r)
         \/ \E d \in Review!Reviewed : Review!Review(r, d)
  PROVE  ReviewInv'
<1>1. UNCHANGED <<krTask, krProfile, krUnchecked>> /\ krCleared \subseteq krCleared' /\ krCleared' \subseteq KycRequests
  BY DEF Review!Submit, Review!HalfAMinutePasses, Review!Review, ReviewInv, Review!TypeOK
<1>2. /\ krEvent' \in [KycWorkers -> SUBSET KycRequests] /\ krDue' \subseteq KycRequests
      /\ krStatus \in [KycRequests -> Review!Statuses]
      /\ krKyc \in [KycUsers -> {"pending", "submitted", "approved", "rejected"}]
      /\ krProfile \in [KycUsers -> KycRequests \cup {None}]
  BY DEF Review!Submit, Review!HalfAMinutePasses, Review!Review, ReviewInv, Review!TypeOK
<1>3. Analysts'
  BY <1>1 DEF ReviewInv, Analysts
<1>4. \A u \in KycUsers : krProfile'[u] # None => krProfile'[u] \in krCleared' /\ KycUserOf[krProfile'[u]] = u
  BY <1>1 DEF ReviewInv, Written
<1>5. CASE \E w \in KycWorkers : Review!Submit(r, w)
  <2>1. /\ krStatus' = [krStatus EXCEPT ![r] = "pending"] /\ UNCHANGED <<krKyc, krCleared>>
    BY <1>5 DEF Review!Submit, Review!Insert
  <2>2. krStatus' \in [KycRequests -> Review!Statuses]
    BY <1>2, <2>1 DEF Review!Statuses, Review!Open
  <2>3. Written'
    BY <1>2, <1>4, <2>1 DEF ReviewInv, Written
  <2>4. Review!TypeOK'
    BY <1>1, <1>2, <2>1, <2>2 DEF ReviewInv, Review!TypeOK
  <2> QED BY <1>3, <2>3, <2>4 DEF ReviewInv
<1>6. CASE Review!HalfAMinutePasses(r)
  <2>1. UNCHANGED <<krStatus, krKyc, krCleared>>
    BY <1>6 DEF Review!HalfAMinutePasses
  <2>2. Written' /\ Review!TypeOK'
    BY <1>1, <1>2, <2>1 DEF ReviewInv, Written, Review!TypeOK
  <2> QED BY <1>3, <2>2 DEF ReviewInv
<1>7. ASSUME NEW d \in Review!Reviewed, Review!Review(r, d) PROVE ReviewInv'
  <2>1. /\ krStatus' = [krStatus EXCEPT ![r] = d]
        /\ krKyc' = [krKyc EXCEPT ![KycUserOf[r]] = IF d = "in_review" THEN "submitted" ELSE d]
        /\ d = "approved" => r \in krCleared'
    BY <1>7 DEF Review!Review
  <2>2. krStatus' \in [KycRequests -> Review!Statuses]
        /\ krKyc' \in [KycUsers -> {"pending", "submitted", "approved", "rejected"}]
    BY <1>2, <2>1 DEF Review!Statuses, Review!Reviewed, Review!Decisions
  <2>3. \A q \in KycRequests : krStatus'[q] = "approved" => q \in krCleared'
    BY <1>1, <1>2, <2>1 DEF ReviewInv, Written
  <2>4. \A u \in KycUsers : krKyc'[u] = "approved" => \E q \in krCleared' : KycUserOf[q] = u
    <3> SUFFICES ASSUME NEW u \in KycUsers, krKyc'[u] = "approved" PROVE \E q \in krCleared' : KycUserOf[q] = u
      OBVIOUS
    <3>1. CASE u = KycUserOf[r]
      BY <1>2, <2>1, <3>1
    <3>2. CASE u # KycUserOf[r]
      BY <1>1, <1>2, <2>1, <3>2 DEF ReviewInv, Written
    <3> QED BY <3>1, <3>2
  <2>5. Review!TypeOK'
    BY <1>1, <1>2, <2>2 DEF ReviewInv, Review!TypeOK
  <2> QED BY <1>3, <1>4, <2>3, <2>4, <2>5 DEF ReviewInv, Written
<1> QED BY <1>5, <1>6, <1>7

LEMMA WorkerKeeps ==
  ASSUME KycAssumption, ReviewInv, NEW w \in KycWorkers,
         \/ Review!Mark(w) \/ Review!Analyze(w) \/ Review!CountAndSave(w) \/ Review!WriteStatus(w)
         \/ Review!SaveBiometricProfile(w) \/ Review!WriteUser(w) \/ Review!GivesUp(w) \/ Review!Stops(w)
  PROVE  ReviewInv'
<1>1. /\ krTask \in [KycWorkers -> TaskRecord] /\ krTask[w] \in TaskRecord
      /\ krStatus \in [KycRequests -> Review!Statuses]
      /\ krKyc \in [KycUsers -> {"pending", "submitted", "approved", "rejected"}]
      /\ krProfile \in [KycUsers -> KycRequests \cup {None}]
      /\ krTask[w].at # "idle" => krTask[w].req \in KycRequests /\ KycUserOf[krTask[w].req] \in KycUsers
  BY TaskOf DEF ReviewInv, Review!TypeOK, Analysts, KycAssumption
<1>2. /\ krCleared \subseteq krCleared' /\ krCleared' \subseteq KycRequests /\ UNCHANGED krDue
      /\ krUnchecked' \subseteq KycRequests /\ krEvent' \in [KycWorkers -> SUBSET KycRequests]
  <2>1. krUnchecked \subseteq KycRequests /\ krCleared \subseteq KycRequests
        /\ krEvent \in [KycWorkers -> SUBSET KycRequests]
    BY DEF ReviewInv, Review!TypeOK
  <2>2. CASE Review!CountAndSave(w)
    <3>1. krTask[w].req \in KycRequests
      BY <1>1, <2>2 DEF Review!CountAndSave, Review!At
    <3>2. krCleared' \in {krCleared, krCleared \cup {krTask[w].req}}
          /\ krUnchecked' \in {krUnchecked, krUnchecked \cup {krTask[w].req}} /\ UNCHANGED <<krDue, krEvent>>
      BY <2>2 DEF Review!CountAndSave
    <3> QED BY <2>1, <3>1, <3>2
  <2>3. CASE Review!Stops(w)
    BY <2>1, <2>3 DEF Review!Stops
  <2> QED BY <2>1, <2>2, <2>3 DEF Review!Mark, Review!Analyze, Review!WriteStatus,
           Review!SaveBiometricProfile, Review!WriteUser, Review!GivesUp
<1>3. ASSUME Analysts', krTask' \in [KycWorkers -> TaskRecord], UNCHANGED <<krStatus, krKyc, krProfile>>
      PROVE  ReviewInv'
  <2>1. Written'
    BY <1>2, <1>3 DEF ReviewInv, Written
  <2>2. Review!TypeOK'
    BY <1>1, <1>2, <1>3 DEF ReviewInv, Review!TypeOK, TaskRecord
  <2> QED BY <1>3, <2>1, <2>2 DEF ReviewInv
<1>4. CASE Review!Mark(w)
  <2>1. PICK t \in TaskRecord : krTask' = [krTask EXCEPT ![w] = t] /\ t.at = "analyze" /\ t.req = krTask[w].req
    <3>1. [krTask[w] EXCEPT !.at = "analyze"] \in TaskRecord /\ krTask' = [krTask EXCEPT ![w] = [krTask[w] EXCEPT !.at = "analyze"]]
      BY <1>1, <1>4 DEF Review!Mark, Review!Goto, TaskRecord
    <3> QED BY <1>1, <3>1 DEF TaskRecord
  <2>2. krTask[w].req \in KycRequests
    BY <1>1, <1>4 DEF Review!Mark, Review!At
  <2>3. Analysts' /\ krTask' \in [KycWorkers -> TaskRecord]
    BY <1>2, <2>1, <2>2, TaskGoes
  <2>4. /\ krStatus' = IF krStatus[krTask[w].req] \in Review!Open
                       THEN [krStatus EXCEPT ![krTask[w].req] = "pending_processing"] ELSE krStatus
        /\ UNCHANGED <<krKyc, krProfile>>
    BY <1>4 DEF Review!Mark
  <2>5. krStatus' \in [KycRequests -> Review!Statuses]
    BY <1>1, <2>2, <2>4 DEF Review!Statuses, Review!Open
  <2>6. \A q \in KycRequests : krStatus'[q] = "approved" => krStatus[q] = "approved"
    BY <1>1, <2>2, <2>4
  <2>7. Written'
    BY <1>2, <2>4, <2>6 DEF ReviewInv, Written
  <2>8. Review!TypeOK'
    BY <1>1, <1>2, <2>3, <2>4, <2>5 DEF ReviewInv, Review!TypeOK, TaskRecord
  <2> QED BY <2>3, <2>7, <2>8 DEF ReviewInv
<1>5. CASE Review!Analyze(w)
  <2>1. PICK d \in Review!Decisions : krTask' = [krTask EXCEPT ![w] = [krTask[w] EXCEPT !.at = "count", !.says = d]]
    BY <1>1, <1>5 DEF Review!Analyze
  <2>2. PICK t \in TaskRecord : krTask' = [krTask EXCEPT ![w] = t] /\ t.at = "count" /\ t.req = krTask[w].req /\ t.says = d
    <3>1. [krTask[w] EXCEPT !.at = "count", !.says = d] \in TaskRecord
      BY <1>1 DEF TaskRecord
    <3> QED BY <1>1, <2>1, <3>1 DEF TaskRecord
  <2>3. krTask[w].req \in KycRequests
    BY <1>1, <1>5 DEF Review!Analyze, Review!At
  <2>4. Analysts' /\ krTask' \in [KycWorkers -> TaskRecord]
    BY <1>2, <2>2, <2>3, TaskGoes
  <2> QED BY <1>3, <1>5, <2>4 DEF Review!Analyze
<1>6. CASE Review!CountAndSave(w)
  <2>1. PICK f \in BOOLEAN :
          LET d == Review!AfterCount(w, ~f /\ Review!SameFace(krTask[w].req) # {}) IN
          /\ krTask' = [krTask EXCEPT ![w] = [krTask[w] EXCEPT !.at = "status", !.says = d]]
          /\ krCleared' = IF d = "approved" THEN krCleared \cup {krTask[w].req} ELSE krCleared
    BY <1>1, <1>6 DEF Review!CountAndSave
  <2>2. PICK d \in Review!Decisions :
          /\ krTask' = [krTask EXCEPT ![w] = [krTask[w] EXCEPT !.at = "status", !.says = d]]
          /\ d = "approved" => krTask[w].req \in krCleared'
    <3>1. krTask[w].says \in Review!Decisions /\ "manual_review" \in Review!Decisions
      BY <1>6 DEF Review!CountAndSave, Review!At, ReviewInv, Analysts, Review!Decisions
    <3>2. Review!AfterCount(w, ~f /\ Review!SameFace(krTask[w].req) # {}) \in Review!Decisions
      BY <3>1 DEF Review!AfterCount
    <3> QED BY <2>1, <3>2
  <2>3. PICK t \in TaskRecord : krTask' = [krTask EXCEPT ![w] = t] /\ t.at = "status" /\ t.req = krTask[w].req /\ t.says = d
    <3>1. [krTask[w] EXCEPT !.at = "status", !.says = d] \in TaskRecord
      BY <1>1 DEF TaskRecord
    <3> QED BY <1>1, <2>2, <3>1 DEF TaskRecord
  <2>4. krTask[w].req \in KycRequests
    BY <1>1, <1>6 DEF Review!CountAndSave, Review!At
  <2>5. Analysts' /\ krTask' \in [KycWorkers -> TaskRecord]
    BY <1>2, <2>2, <2>3, <2>4, TaskGoes
  <2> QED BY <1>3, <1>6, <2>5 DEF Review!CountAndSave
<1>7. CASE Review!WriteStatus(w)
  <2>1. /\ krTask[w].req \in KycRequests /\ krTask[w].says \in Review!Decisions
        /\ krTask[w].says = "approved" => krTask[w].req \in krCleared
    BY <1>7 DEF Review!WriteStatus, Review!At, ReviewInv, Analysts
  <2>2. PICK t \in TaskRecord : /\ krTask' = [krTask EXCEPT ![w] = t] /\ t.req = krTask[w].req /\ t.says = krTask[w].says
                                /\ t.at = IF krTask[w].says = "approved" THEN "profile" ELSE "user"
    <3> DEFINE at == IF krTask[w].says = "approved" THEN "profile" ELSE "user"
    <3>1. [krTask[w] EXCEPT !.at = at] \in TaskRecord /\ krTask' = [krTask EXCEPT ![w] = [krTask[w] EXCEPT !.at = at]]
      BY <1>1, <1>7 DEF Review!WriteStatus, Review!Goto, TaskRecord
    <3> QED BY <1>1, <3>1 DEF TaskRecord
  <2>3. Analysts' /\ krTask' \in [KycWorkers -> TaskRecord]
    BY <1>2, <2>1, <2>2, TaskGoes
  <2>4. krStatus' = [krStatus EXCEPT ![krTask[w].req] = krTask[w].says] /\ UNCHANGED <<krKyc, krProfile>>
    BY <1>7 DEF Review!WriteStatus
  <2>5. krStatus' \in [KycRequests -> Review!Statuses]
    BY <1>1, <2>1, <2>4 DEF Review!Statuses
  <2>6. \A q \in KycRequests : krStatus'[q] = "approved" => q \in krCleared
    BY <1>1, <2>1, <2>4 DEF ReviewInv, Written
  <2>7. Written'
    BY <1>2, <2>4, <2>6 DEF ReviewInv, Written
  <2>8. Review!TypeOK'
    BY <1>1, <1>2, <2>3, <2>4, <2>5 DEF ReviewInv, Review!TypeOK, TaskRecord
  <2> QED BY <2>3, <2>7, <2>8 DEF ReviewInv
<1>8. CASE Review!SaveBiometricProfile(w)
  <2>1. /\ krTask[w].req \in KycRequests /\ krTask[w].req \in krCleared /\ krTask[w].says = "approved"
        /\ KycUserOf[krTask[w].req] \in KycUsers
    BY <1>1, <1>8 DEF Review!SaveBiometricProfile, Review!At, ReviewInv, Analysts
  <2>2. PICK t \in TaskRecord : /\ krTask' = [krTask EXCEPT ![w] = t] /\ t.req = krTask[w].req /\ t.says = krTask[w].says
                                /\ t.at = "user"
    <3>1. [krTask[w] EXCEPT !.at = "user"] \in TaskRecord /\ krTask' = [krTask EXCEPT ![w] = [krTask[w] EXCEPT !.at = "user"]]
      BY <1>1, <1>8 DEF Review!SaveBiometricProfile, Review!Goto, TaskRecord
    <3> QED BY <1>1, <3>1 DEF TaskRecord
  <2>3. Analysts' /\ krTask' \in [KycWorkers -> TaskRecord]
    BY <1>2, <2>1, <2>2, TaskGoes DEF Review!Decisions
  <2>4. /\ krProfile' = [krProfile EXCEPT ![KycUserOf[krTask[w].req]] = krTask[w].req]
        /\ UNCHANGED <<krStatus, krKyc>>
    BY <1>8 DEF Review!SaveBiometricProfile
  <2>5. krProfile' \in [KycUsers -> KycRequests \cup {None}]
    BY <1>1, <2>1, <2>4
  <2>6. \A u \in KycUsers : krProfile'[u] # None => krProfile'[u] \in krCleared' /\ KycUserOf[krProfile'[u]] = u
    BY <1>1, <1>2, <2>1, <2>4 DEF ReviewInv, Written
  <2>7. Written'
    BY <1>2, <2>4, <2>6 DEF ReviewInv, Written
  <2>8. Review!TypeOK'
    BY <1>1, <1>2, <2>3, <2>4, <2>5 DEF ReviewInv, Review!TypeOK, TaskRecord
  <2> QED BY <2>3, <2>7, <2>8 DEF ReviewInv
<1>9. CASE Review!WriteUser(w)
  <2>1. /\ krTask[w].req \in KycRequests /\ krTask[w].says \in Review!Decisions
        /\ krTask[w].says = "approved" => krTask[w].req \in krCleared
        /\ KycUserOf[krTask[w].req] \in KycUsers
    BY <1>1, <1>9 DEF Review!WriteUser, Review!At, ReviewInv, Analysts
  <2>2. Analysts' /\ krTask' \in [KycWorkers -> TaskRecord]
    BY <1>2, <1>9, TaskEnds DEF Review!WriteUser
  <2>3. /\ UNCHANGED <<krStatus, krProfile, krCleared>>
        /\ \/ UNCHANGED krKyc
           \/ krKyc' = [krKyc EXCEPT ![KycUserOf[krTask[w].req]] =
                          IF krTask[w].says = "manual_review" THEN "submitted" ELSE krTask[w].says]
    BY <1>9 DEF Review!WriteUser
  <2>4. krKyc' \in [KycUsers -> {"pending", "submitted", "approved", "rejected"}]
    BY <1>1, <2>1, <2>3 DEF Review!Decisions
  <2>5. \A u \in KycUsers : krKyc'[u] = "approved" => \E q \in krCleared : KycUserOf[q] = u
    BY <1>1, <2>1, <2>3 DEF ReviewInv, Written
  <2>6. Written'
    BY <1>2, <2>3, <2>5 DEF ReviewInv, Written
  <2>7. Review!TypeOK'
    BY <1>1, <1>2, <2>2, <2>3, <2>4 DEF ReviewInv, Review!TypeOK, TaskRecord
  <2> QED BY <2>2, <2>6, <2>7 DEF ReviewInv
<1>10. CASE Review!GivesUp(w) \/ Review!Stops(w)
  <2>1. Analysts' /\ krTask' \in [KycWorkers -> TaskRecord]
    BY <1>2, <1>10, TaskEnds DEF Review!GivesUp, Review!Stops
  <2> QED BY <1>3, <1>10, <2>1 DEF Review!GivesUp, Review!Stops
<1> QED BY <1>4, <1>5, <1>6, <1>7, <1>8, <1>9, <1>10

LEMMA ReviewNext == KycAssumption /\ ReviewInv /\ [Review!Next]_Review!vars => ReviewInv'
<1> SUFFICES ASSUME KycAssumption, ReviewInv, [Review!Next]_Review!vars PROVE ReviewInv'
  OBVIOUS
<1>1. CASE UNCHANGED Review!vars
  BY <1>1 DEF ReviewInv, Review!TypeOK, Analysts, Written, Review!vars
<1>2. CASE Review!Next
  BY <1>2, TakingKeeps, OutsideKeeps, WorkerKeeps DEF Review!Next
<1> QED BY <1>1, <1>2

LEMMA ReviewInvEnough == KycAssumption /\ ReviewInv => Review!VerifiedWasCleared
<1> SUFFICES ASSUME KycAssumption, ReviewInv, NEW u \in KycUsers
             PROVE  LET mine == {r \in krCleared : KycUserOf[r] = u} IN
                    /\ Review!ApprovedLevel(u) > 0 => \E r \in mine : KycLevelOf[r] = Review!ApprovedLevel(u)
                    /\ krKyc[u] = "approved" => mine # {}
                    /\ krProfile[u] # None => krProfile[u] \in mine
  BY DEF Review!VerifiedWasCleared
<1> DEFINE mine == {r \in krCleared : KycUserOf[r] = u}
           levels == {KycLevelOf[r] : r \in {q \in KycRequests : KycUserOf[q] = u /\ krStatus[q] = "approved"}}
<1>1. ASSUME Review!ApprovedLevel(u) > 0 PROVE \E r \in mine : KycLevelOf[r] = Review!ApprovedLevel(u)
  <2>1. levels # {}
    BY <1>1 DEF Review!ApprovedLevel
  <2>2. levels \subseteq 1..3
    BY DEF KycAssumption
  <2>3. \E n \in levels : \A m \in levels : m <= n
    <3>1. CASE 3 \in levels
      BY <2>2, <3>1
    <3>2. CASE 3 \notin levels /\ 2 \in levels
      BY <2>2, <3>2
    <3>3. CASE 3 \notin levels /\ 2 \notin levels
      <4>1. \A m \in levels : m = 1
        BY <2>2, <3>3
      <4> QED BY <2>1, <4>1
    <3> QED BY <3>1, <3>2, <3>3
  <2>4. Review!ApprovedLevel(u) \in levels
    <3>1. Review!ApprovedLevel(u) = CHOOSE n \in levels : \A m \in levels : m <= n
      BY <2>1 DEF Review!ApprovedLevel
    <3> QED BY <2>3, <3>1
  <2>5. PICK r \in KycRequests : KycUserOf[r] = u /\ krStatus[r] = "approved" /\ KycLevelOf[r] = Review!ApprovedLevel(u)
    BY <2>4
  <2> QED BY <2>5 DEF ReviewInv, Written
<1>2. (krKyc[u] = "approved" => mine # {}) /\ (krProfile[u] # None => krProfile[u] \in mine)
  BY DEF ReviewInv, Written
<1> QED BY <1>1, <1>2

(* Of two faces that are kept, or counted and about to be kept, one was not*)
(* seen by the other's check.                                              *)
Holding(w) == krTask[w].at \in {"status", "profile"} /\ krTask[w].says = "approved"
Faces == {q \in KycRequests : \/ \E u \in KycUsers : krProfile[u] = q
                              \/ \E w \in KycWorkers : Holding(w) /\ krTask[w].req = q}
Apart(q, r) ==
    KycUserOf[q] # KycUserOf[r] /\ KycFaceOf[q] = KycFaceOf[r] => {q, r} \cap krUnchecked # {}
FaceInv == \A q, r \in Faces : Apart(q, r)

LEMMA FaceInit == KycAssumption /\ Review!Init => FaceInv
BY DEF FaceInv, Faces, Holding, KycAssumption, Review!Init, Review!Idle

LEMMA FacesStay ==
  ASSUME FaceInv, Faces' \subseteq Faces, krUnchecked \subseteq krUnchecked'
  PROVE  FaceInv'
BY DEF FaceInv, Apart

(* The check of a worker sees what is kept, and what it cannot see marks it.*)
LEMMA CountSees ==
  ASSUME KycAssumption, ReviewInv, FaceInv, NEW w \in KycWorkers, Review!CountAndSave(w)
  PROVE  FaceInv'
<1> DEFINE r == krTask[w].req
<1>1. krTask \in [KycWorkers -> TaskRecord] /\ krTask[w] \in TaskRecord /\ krTask[w].at = "count"
  BY TaskOf DEF Review!CountAndSave, Review!At
<1>2. PICK f \in BOOLEAN :
        LET d == Review!AfterCount(w, ~f /\ Review!SameFace(r) # {}) IN
        /\ krTask' = [krTask EXCEPT ![w] = [krTask[w] EXCEPT !.at = "status", !.says = d]]
        /\ krUnchecked' = IF f \/ Review!UnderWay(w) # {} THEN krUnchecked \cup {r} ELSE krUnchecked
  BY <1>1 DEF Review!CountAndSave
<1>3. PICK d : /\ d = Review!AfterCount(w, ~f /\ Review!SameFace(r) # {})
               /\ krTask' = [krTask EXCEPT ![w] = [krTask[w] EXCEPT !.at = "status", !.says = d]]
  BY <1>2
<1>4. d = "approved" => f \/ Review!SameFace(r) = {}
  BY <1>3 DEF Review!AfterCount
<1>5. /\ krTask'[w].says = d /\ krTask'[w].req = r
      /\ \A v \in KycWorkers : v # w => krTask'[v] = krTask[v]
  BY <1>1, <1>3 DEF TaskRecord
<1>6. UNCHANGED krProfile /\ krUnchecked \subseteq krUnchecked'
  BY <1>2 DEF Review!CountAndSave
<1>7. CASE d # "approved"
  <2>1. Faces' \subseteq Faces
    BY <1>5, <1>6, <1>7 DEF Faces, Holding
  <2> QED BY <1>6, <2>1, FacesStay
<1>8. CASE d = "approved"
  <2>1. Faces' \subseteq Faces \cup {r}
    BY <1>5, <1>6 DEF Faces, Holding
  <2>2. ASSUME NEW q \in Faces, KycUserOf[q] # KycUserOf[r], KycFaceOf[q] = KycFaceOf[r]
        PROVE  r \in krUnchecked'
    <3>1. CASE f
      BY <1>2, <3>1
    <3>2. CASE ~f /\ \E u \in KycUsers : krProfile[u] = q
      <4>1. PICK u \in KycUsers : krProfile[u] = q
        BY <3>2
      <4>2. q # None /\ KycUserOf[q] = u
        BY <4>1 DEF Faces, KycAssumption, ReviewInv, Written
      <4>3. u \in Review!SameFace(r)
        BY <2>2, <4>1, <4>2 DEF Review!SameFace
      <4> QED BY <1>4, <1>8, <3>2, <4>3
    <3>3. CASE \E v \in KycWorkers : Holding(v) /\ krTask[v].req = q
      <4>1. PICK v \in KycWorkers : Holding(v) /\ krTask[v].req = q
        BY <3>3
      <4>2. v \in Review!UnderWay(w)
        BY <1>1, <2>2, <4>1 DEF Review!UnderWay, Holding
      <4> QED BY <1>2, <4>2
    <3> QED BY <3>1, <3>2, <3>3 DEF Faces
  <2>3. ASSUME NEW p \in Faces', NEW q \in Faces', KycUserOf[p] # KycUserOf[q], KycFaceOf[p] = KycFaceOf[q]
        PROVE  {p, q} \cap krUnchecked' # {}
    <3>1. CASE p \in Faces /\ q \in Faces
      BY <1>6, <2>3, <3>1 DEF FaceInv, Apart
    <3>2. CASE p = r /\ q \in Faces
      BY <2>2, <2>3, <3>2
    <3>3. CASE q = r /\ p \in Faces
      BY <2>2, <2>3, <3>3
    <3> QED BY <2>1, <2>3, <3>1, <3>2, <3>3
  <2> QED BY <2>3 DEF FaceInv, Apart
<1> QED BY <1>7, <1>8

LEMMA FaceNext == KycAssumption /\ ReviewInv /\ FaceInv /\ [Review!Next]_Review!vars => FaceInv'
<1> SUFFICES ASSUME KycAssumption, ReviewInv, FaceInv, [Review!Next]_Review!vars PROVE FaceInv'
  OBVIOUS
<1>1. ASSUME UNCHANGED <<krProfile, krUnchecked>>,
             \A w \in KycWorkers : \/ krTask'[w] = krTask[w]
                                   \/ krTask'[w].at \notin {"status", "profile"}
                                   \/ krTask'[w].req = krTask[w].req /\ krTask'[w].says = krTask[w].says
                                      /\ krTask[w].at = "status"
      PROVE  FaceInv'
  <2>1. Faces' \subseteq Faces
    BY <1>1 DEF Faces, Holding
  <2> QED BY <1>1, <2>1, FacesStay
<1>2. CASE UNCHANGED Review!vars
  BY <1>1, <1>2 DEF Review!vars
<1>3. ASSUME NEW r \in KycRequests,
             \/ \E w \in KycWorkers : Review!Submit(r, w)
             \/ Review!HalfAMinutePasses(r) \/ \E d \in Review!Reviewed : Review!Review(r, d)
      PROVE  FaceInv'
  BY <1>1, <1>3 DEF Review!Submit, Review!HalfAMinutePasses, Review!Review
<1>4. \A w \in KycWorkers : krTask \in [KycWorkers -> TaskRecord] /\ krTask[w] \in TaskRecord
  BY TaskOf
<1>5. ASSUME NEW r \in KycRequests, NEW w \in KycWorkers, Review!TakeEvent(w, r) \/ Review!ProcessPending(w, r)
      PROVE  FaceInv'
  <2>1. UNCHANGED <<krProfile, krUnchecked>>
    BY <1>5 DEF Review!TakeEvent, Review!ProcessPending
  <2>2. \A v \in KycWorkers : v # w => krTask'[v] = krTask[v]
    BY <1>4, <1>5 DEF Review!TakeEvent, Review!ProcessPending
  <2>3. krTask'[w].at = "mark"
    BY <1>4, <1>5 DEF Review!TakeEvent, Review!ProcessPending, Review!Idle
  <2> QED BY <1>1, <2>1, <2>2, <2>3
<1>6. ASSUME NEW w \in KycWorkers,
             \/ Review!Mark(w) \/ Review!Analyze(w) \/ Review!WriteStatus(w) \/ Review!WriteUser(w)
             \/ Review!GivesUp(w) \/ Review!Stops(w)
      PROVE  FaceInv'
  <2>1. UNCHANGED <<krProfile, krUnchecked>>
    BY <1>6 DEF Review!Mark, Review!Analyze, Review!WriteStatus, Review!WriteUser, Review!GivesUp, Review!Stops
  <2>2. \A v \in KycWorkers : v # w => krTask'[v] = krTask[v]
    BY <1>4, <1>6 DEF Review!Mark, Review!Analyze, Review!WriteStatus, Review!WriteUser, Review!GivesUp,
       Review!Stops, Review!Goto, Review!Ends
  <2>3. CASE Review!WriteStatus(w)
    <3>1. krTask[w].at = "status" /\ krTask'[w].req = krTask[w].req /\ krTask'[w].says = krTask[w].says
      BY <1>4, <2>3 DEF Review!WriteStatus, Review!At, Review!Goto, TaskRecord
    <3> QED BY <1>1, <2>1, <2>2, <3>1
  <2>4. CASE ~Review!WriteStatus(w)
    <3>1. krTask'[w].at \in {"analyze", "count", "idle"}
      <4>1. CASE Review!Mark(w)
        BY <1>4, <4>1 DEF Review!Mark, Review!Goto, TaskRecord
      <4>2. CASE Review!Analyze(w)
        BY <1>4, <4>2 DEF Review!Analyze, TaskRecord
      <4>3. CASE Review!WriteUser(w) \/ Review!GivesUp(w) \/ Review!Stops(w)
        BY <1>4, <4>3 DEF Review!WriteUser, Review!GivesUp, Review!Stops, Review!Ends, Review!Idle
      <4> QED BY <1>6, <2>4, <4>1, <4>2, <4>3
    <3> QED BY <1>1, <2>1, <2>2, <3>1
  <2> QED BY <2>3, <2>4
<1>7. ASSUME NEW w \in KycWorkers, Review!SaveBiometricProfile(w) PROVE FaceInv'
  <2> DEFINE r == krTask[w].req
  <2>1. /\ r \in KycRequests /\ KycUserOf[r] \in KycUsers /\ Holding(w) /\ UNCHANGED krUnchecked
        /\ krProfile \in [KycUsers -> KycRequests \cup {None}]
        /\ krProfile' = [krProfile EXCEPT ![KycUserOf[r]] = r]
    BY <1>7 DEF Review!SaveBiometricProfile, Review!At, ReviewInv, Analysts, Holding, KycAssumption, Review!TypeOK
  <2>2. krTask'[w].at = "user" /\ \A v \in KycWorkers : v # w => krTask'[v] = krTask[v]
    BY <1>4, <1>7 DEF Review!SaveBiometricProfile, Review!Goto, TaskRecord
  <2>3. Faces' \subseteq Faces
    BY <2>1, <2>2 DEF Faces, Holding
  <2> QED BY <2>1, <2>3, FacesStay
<1> QED BY <1>2, <1>3, <1>5, <1>6, <1>7, CountSees DEF Review!Next

(* However events, polls and reviews cross, the level of a user and what   *)
(* the account says are backed by an analysis or a review that approved,   *)
(* and a face is kept only of a request that was.                          *)
THEOREM VerifiedAreCleared ==
  ASSUME KycAssumption
  PROVE  Review!Spec => []Review!VerifiedWasCleared
BY ReviewInit, ReviewNext, ReviewInvEnough, PTL DEF Review!Spec

(* However many replicas count and write, a face is kept for two accounts  *)
(* only if the check of one failed or was made before the other's face was *)
(* kept (workers/kyc.go).                                                  *)
THEOREM FacesServeOne ==
  ASSUME KycAssumption
  PROVE  Review!Spec => []Review!FaceServesOneAccount
<1>1. ReviewInv /\ FaceInv /\ [Review!Next]_Review!vars => ReviewInv' /\ FaceInv'
  BY ReviewNext, FaceNext
<1>2. ReviewInv /\ FaceInv => Review!FaceServesOneAccount
  <2> SUFFICES ASSUME ReviewInv, FaceInv, NEW u \in KycUsers, NEW v \in KycUsers, u # v,
                      None \notin {krProfile[u], krProfile[v]},
                      KycFaceOf[krProfile[u]] = KycFaceOf[krProfile[v]]
               PROVE  {krProfile[u], krProfile[v]} \cap krUnchecked # {}
    BY DEF Review!FaceServesOneAccount
  <2>1. /\ krProfile[u] \in KycRequests /\ KycUserOf[krProfile[u]] = u
        /\ krProfile[v] \in KycRequests /\ KycUserOf[krProfile[v]] = v
    BY DEF ReviewInv, Written, Review!TypeOK
  <2>2. krProfile[u] \in Faces /\ krProfile[v] \in Faces
    BY <2>1 DEF Faces
  <2> QED BY <2>1, <2>2 DEF FaceInv, Apart
<1> QED BY <1>1, <1>2, ReviewInit, FaceInit, PTL DEF Review!Spec

-----------------------------------------------------------------------------
(* The way in of the server, for any number of requests and any limits.    *)
CONSTANTS GateRequests, GateLimit, GateInvalid, GateWindow, GateThreshold, GateViolations, GateBans,
          GateReset, GateTime, GateChanges
VARIABLES rgNow, rgBucket, rgEntry, rgReq, rgKey, rgChanges, rgServed, rgBans
Gate == INSTANCE RequestGate WITH Requests <- GateRequests, Limit <- GateLimit, InvalidLimit <- GateInvalid,
    Window <- GateWindow, Threshold <- GateThreshold, ViolationWindow <- GateViolations, Bans <- GateBans,
    OffenseReset <- GateReset, MaxTime <- GateTime, MaxKeyChanges <- GateChanges, now <- rgNow,
    bucket <- rgBucket, entry <- rgEntry, req <- rgReq, key <- rgKey, changes <- rgChanges,
    served <- rgServed, bans <- rgBans

(* A bad key has no better limit than a good one, and of the three bans    *)
(* (penaltybox.go) the first is the shortest and none is shorter than the  *)
(* one before.                                                             *)
GateAssumption ==
    /\ GateLimit \in Nat /\ GateInvalid \in Nat /\ GateInvalid <= GateLimit /\ GateWindow \in Nat
    /\ GateReset \in Nat /\ GateBans \in [1..3 -> Nat]
    /\ GateBans[1] < GateBans[2] /\ GateBans[2] <= GateBans[3]

BoxEntry == [there : BOOLEAN, start : Nat, violations : Nat, until : Nat, offenses : 0..3, last : Nat]
Ban == [start : Nat, for : Nat]
GateTyped ==
    /\ rgNow \in Nat /\ rgServed \in Nat /\ rgBucket \in [reset : Nat, count : Nat]
    /\ rgEntry \in BoxEntry /\ rgBans \in Seq(Ban)
    /\ rgReq \in [GateRequests -> [at : {"idle", "box", "key", "count", "violate"}, valid : BOOLEAN]]

(* Who was let in was counted.                                             *)
CountSound == rgServed <= rgBucket.count /\ rgServed <= GateLimit

(* A ban b that is not over at t is in the entry e, with no fewer offenses *)
(* than it was for; the last one is remembered until both it is over and   *)
(* its memory is due to fade.                                              *)
Holds(t, e, b) == t < b.start + b.for =>
    e.there /\ e.until >= b.start + b.for /\ e.offenses \in 1..3 /\ b.for <= GateBans[e.offenses]
Recalls(t, e, b) == t - b.start <= GateReset \/ t - b.start <= b.for =>
    /\ e.there /\ e.until = b.start + b.for /\ e.offenses \in 1..3 /\ b.for = GateBans[e.offenses]
    /\ e.last >= b.start
BoxSound ==
    /\ rgEntry.last <= rgNow
    /\ \A i \in 1..Len(rgBans) : rgBans[i].start <= rgNow /\ Holds(rgNow, rgEntry, rgBans[i])
    /\ rgBans # <<>> => Recalls(rgNow, rgEntry, rgBans[Len(rgBans)])
GateInv == GateTyped /\ CountSound /\ BoxSound /\ Gate!RepeatIsLonger

LEMMA GateInit == GateAssumption /\ Gate!Init => GateInv
<1> SUFFICES ASSUME GateAssumption, Gate!Init PROVE GateInv
  OBVIOUS
<1>1. rgBans = <<>> /\ Len(rgBans) = 0 /\ rgBans \in Seq(Ban)
  BY DEF Gate!Init
<1>2. GateTyped
  BY <1>1 DEF GateTyped, Gate!Init, Gate!NoEntry, Gate!Idle, BoxEntry
<1>3. CountSound
  BY DEF CountSound, Gate!Init, GateAssumption
<1>4. BoxSound
  BY <1>1 DEF BoxSound, Gate!Init, Gate!NoEntry
<1>5. Gate!RepeatIsLonger
  BY <1>1 DEF Gate!RepeatIsLonger
<1> QED BY <1>2, <1>3, <1>4, <1>5 DEF GateInv

(* What is sound of an entry, whoever reads it now.                        *)
Sound(e) ==
    /\ e \in BoxEntry /\ e.last <= rgNow
    /\ \A i \in 1..Len(rgBans) : Holds(rgNow, e, rgBans[i])
    /\ rgBans # <<>> => Recalls(rgNow, e, rgBans[Len(rgBans)])

LEMMA BanOf ==
  ASSUME GateInv, NEW i \in 1..Len(rgBans)
  PROVE  rgBans[i] \in Ban /\ rgBans[i].start \in Nat /\ rgBans[i].for \in Nat /\ rgBans[i].start <= rgNow
<1>1. rgBans \in Seq(Ban) /\ rgBans[i].start <= rgNow
  BY DEF GateInv, GateTyped, BoxSound
<1>2. rgBans[i] \in Ban
  BY <1>1
<1> QED BY <1>1, <1>2 DEF Ban

LEMMA LastBan ==
  ASSUME GateInv, rgBans # <<>>
  PROVE  Len(rgBans) \in 1..Len(rgBans)
BY DEF GateInv, GateTyped

(* The cleanup takes an entry away only when every ban is over and the     *)
(* memory of the last is due to fade.                                      *)
LEMMA CleanupKeeps ==
  ASSUME GateAssumption, GateInv
  PROVE  Sound(Gate!CleanupLocked)
<1>1. rgEntry \in BoxEntry /\ rgNow \in Nat /\ rgEntry.last \in Nat /\ rgEntry.until \in Nat
      /\ rgEntry.last <= rgNow /\ GateReset \in Nat
  BY DEF GateInv, GateTyped, BoxSound, BoxEntry, GateAssumption
<1>2. CASE rgEntry.there /\ rgNow > rgEntry.until /\ rgNow - rgEntry.last > GateReset
  <2>1. Gate!CleanupLocked = Gate!NoEntry
    BY <1>2 DEF Gate!CleanupLocked
  <2>2. Gate!NoEntry \in BoxEntry /\ Gate!NoEntry.last <= rgNow
    BY <1>1 DEF Gate!NoEntry, BoxEntry
  <2>3. ASSUME NEW i \in 1..Len(rgBans) PROVE Holds(rgNow, Gate!NoEntry, rgBans[i])
    <3>1. Holds(rgNow, rgEntry, rgBans[i])
      BY DEF GateInv, BoxSound
    <3> QED BY <1>1, <1>2, <3>1, BanOf DEF Holds
  <2>4. ASSUME rgBans # <<>> PROVE Recalls(rgNow, Gate!NoEntry, rgBans[Len(rgBans)])
    <3>1. Recalls(rgNow, rgEntry, rgBans[Len(rgBans)])
      BY <2>4 DEF GateInv, BoxSound
    <3>2. rgBans[Len(rgBans)].start \in Nat /\ rgBans[Len(rgBans)].for \in Nat
      BY <2>4, LastBan, BanOf
    <3> QED BY <1>1, <1>2, <3>1, <3>2 DEF Recalls
  <2> QED BY <2>1, <2>2, <2>3, <2>4 DEF Sound
<1>3. CASE ~(rgEntry.there /\ rgNow > rgEntry.until /\ rgNow - rgEntry.last > GateReset)
  <2>1. Gate!CleanupLocked = rgEntry
    BY <1>3 DEF Gate!CleanupLocked
  <2> QED BY <1>1, <2>1 DEF Sound, GateInv, BoxSound
<1> QED BY <1>2, <1>3

(* A violation finds what is left of the entry.                            *)
LEMMA LapsedKeeps ==
  ASSUME GateAssumption, GateInv
  PROVE  Sound(Gate!Lapsed) /\ Gate!Lapsed.there /\ Gate!Lapsed.last = rgNow
<1>1. PICK C \in BoxEntry : C = Gate!CleanupLocked /\ Sound(C)
  BY CleanupKeeps DEF Sound
<1>2. rgNow \in Nat /\ GateReset \in Nat
  BY DEF GateInv, GateTyped, GateAssumption
<1>3. PICK e \in BoxEntry : /\ e = IF C.there THEN C ELSE [Gate!NoEntry EXCEPT !.there = TRUE, !.start = rgNow]
                            /\ e.there /\ e.until = (IF C.there THEN C.until ELSE 0)
                            /\ e.offenses = (IF C.there THEN C.offenses ELSE 0)
  <2> DEFINE n == [Gate!NoEntry EXCEPT !.there = TRUE, !.start = rgNow]
  <2>1. PICK z \in BoxEntry : z = Gate!NoEntry /\ z.until = 0 /\ z.offenses = 0
    <3>1. Gate!NoEntry \in BoxEntry
      BY DEF Gate!NoEntry, BoxEntry
    <3>2. Gate!NoEntry.until = 0 /\ Gate!NoEntry.offenses = 0
      BY DEF Gate!NoEntry
    <3> QED BY <3>1, <3>2
  <2>2. [z EXCEPT !.there = TRUE, !.start = rgNow] \in BoxEntry
        /\ [z EXCEPT !.there = TRUE, !.start = rgNow].there
        /\ [z EXCEPT !.there = TRUE, !.start = rgNow].until = 0
        /\ [z EXCEPT !.there = TRUE, !.start = rgNow].offenses = 0
    BY <1>2, <2>1 DEF BoxEntry
  <2>3. n \in BoxEntry /\ n.there /\ n.until = 0 /\ n.offenses = 0
    BY <2>1, <2>2
  <2> HIDE DEF n
  <2>4. CASE C.there
    BY <2>4
  <2>5. CASE ~C.there
    BY <2>3, <2>5 DEF n
  <2> QED BY <2>4, <2>5
<1>4. PICK w \in BoxEntry : /\ w = IF rgNow - e.start > GateViolations THEN [e EXCEPT !.start = rgNow, !.violations = 0] ELSE e
                            /\ w.there /\ w.until = e.until /\ w.offenses = e.offenses
  <2> DEFINE n == [e EXCEPT !.start = rgNow, !.violations = 0]
  <2>1. n \in BoxEntry /\ n.there = e.there /\ n.until = e.until /\ n.offenses = e.offenses
    BY <1>2 DEF BoxEntry
  <2> QED BY <1>3, <2>1
<1>5. Gate!Lapsed = [w EXCEPT !.last = rgNow,
                              !.offenses = IF e.until # 0 /\ rgNow > e.until + GateReset THEN 0 ELSE w.offenses]
  BY <1>1, <1>3, <1>4 DEF Gate!Lapsed, BoxEntry
<1>6. PICK L \in BoxEntry : /\ L = Gate!Lapsed /\ L.there /\ L.last = rgNow /\ L.until = e.until
                            /\ L.offenses = IF e.until # 0 /\ rgNow > e.until + GateReset THEN 0 ELSE e.offenses
  <2>1. Gate!Lapsed \in BoxEntry
    <3>1. PICK o \in 0..3 : o = IF e.until # 0 /\ rgNow > e.until + GateReset THEN 0 ELSE w.offenses
      BY DEF BoxEntry
    <3>2. [w EXCEPT !.last = rgNow, !.offenses = o] \in BoxEntry
      BY <1>2 DEF BoxEntry
    <3> QED BY <1>5, <3>1, <3>2
  <2> QED BY <1>4, <1>5, <2>1 DEF BoxEntry
<1>7. C.until \in Nat /\ e.until \in Nat
  BY DEF BoxEntry
<1>8. ASSUME NEW i \in 1..Len(rgBans) PROVE Holds(rgNow, L, rgBans[i])
  <2>1. Holds(rgNow, C, rgBans[i])
    BY <1>1 DEF Sound
  <2> QED BY <1>2, <1>3, <1>6, <1>7, <2>1, BanOf DEF Holds
<1>9. ASSUME rgBans # <<>> PROVE Recalls(rgNow, L, rgBans[Len(rgBans)])
  <2>1. Recalls(rgNow, C, rgBans[Len(rgBans)])
    BY <1>1, <1>9 DEF Sound
  <2>2. /\ rgBans[Len(rgBans)].start \in Nat /\ rgBans[Len(rgBans)].for \in Nat
        /\ rgBans[Len(rgBans)].start <= rgNow
    BY <1>9, LastBan, BanOf
  <2> QED BY <1>2, <1>3, <1>6, <1>7, <2>1, <2>2 DEF Recalls
<1> QED BY <1>2, <1>6, <1>8, <1>9 DEF Sound

(* A step that leaves the time and the bans, with a sound entry after it.  *)
LEMMA EntryKeeps ==
  ASSUME GateInv, UNCHANGED <<rgNow, rgBans>>, Sound(rgEntry'), CountSound',
         rgServed' \in Nat, rgBucket' \in [reset : Nat, count : Nat],
         rgReq' \in [GateRequests -> [at : {"idle", "box", "key", "count", "violate"}, valid : BOOLEAN]]
  PROVE  GateInv'
<1>1. GateTyped'
  BY DEF GateInv, GateTyped, Sound
<1>2. BoxSound'
  BY DEF GateInv, BoxSound, Sound
<1>3. Gate!RepeatIsLonger'
  BY DEF GateInv, Gate!RepeatIsLonger
<1> QED BY <1>1, <1>2, <1>3 DEF GateInv

LEMMA EntryStepKeeps ==
  ASSUME GateAssumption, GateInv, NEW r \in GateRequests,
         Gate!Begin(r) \/ Gate!Banned(r) \/ Gate!ValidateDeveloperAPIKey(r)
  PROVE  GateInv'
<1>1. UNCHANGED <<rgNow, rgBucket, rgServed, rgBans>>
  BY DEF Gate!Begin, Gate!Banned, Gate!ValidateDeveloperAPIKey
<1>2. rgReq' \in [GateRequests -> [at : {"idle", "box", "key", "count", "violate"}, valid : BOOLEAN]]
  <2>1. rgReq \in [GateRequests -> [at : {"idle", "box", "key", "count", "violate"}, valid : BOOLEAN]]
    BY DEF GateInv, GateTyped
  <2>2. CASE Gate!Begin(r)
    BY <2>1, <2>2 DEF Gate!Begin, Gate!Goto
  <2>3. CASE Gate!Banned(r)
    <3>1. Gate!Answers(r) \/ Gate!Goto(r, "key")
      BY <2>3 DEF Gate!Banned
    <3>2. Gate!Idle \in [at : {"idle", "box", "key", "count", "violate"}, valid : BOOLEAN]
      BY DEF Gate!Idle
    <3> QED BY <2>1, <3>1, <3>2 DEF Gate!Goto, Gate!Answers
  <2>4. CASE Gate!ValidateDeveloperAPIKey(r)
    <3>1. PICK v \in BOOLEAN : rgReq' = [rgReq EXCEPT ![r].at = "count", ![r].valid = v]
      BY <2>4 DEF Gate!ValidateDeveloperAPIKey
    <3> QED BY <2>1, <3>1
  <2> QED BY <2>2, <2>3, <2>4
<1>3. Sound(rgEntry')
  <2>1. CASE Gate!Begin(r) \/ Gate!ValidateDeveloperAPIKey(r)
    BY <2>1 DEF Gate!Begin, Gate!ValidateDeveloperAPIKey, GateInv, GateTyped, BoxSound, Sound
  <2>2. CASE Gate!Banned(r)
    <3>1. PICK C \in BoxEntry : C = Gate!CleanupLocked /\ Sound(C)
      BY CleanupKeeps DEF Sound
    <3>2. rgNow \in Nat
      BY DEF GateInv, GateTyped
    <3>3. CASE C.there
      <4>1. rgEntry' = [C EXCEPT !.last = rgNow]
        BY <2>2, <3>1, <3>3 DEF Gate!Banned
      <4>2. /\ rgEntry' \in BoxEntry /\ rgEntry'.last = rgNow /\ rgEntry'.there = C.there
            /\ rgEntry'.until = C.until /\ rgEntry'.offenses = C.offenses
        BY <3>2, <4>1 DEF BoxEntry
      <4>3. \A i \in 1..Len(rgBans) : Holds(rgNow, rgEntry', rgBans[i])
        BY <3>1, <4>2 DEF Sound, Holds
      <4>4. rgBans # <<>> => Recalls(rgNow, rgEntry', rgBans[Len(rgBans)])
        BY <3>1, <4>2, LastBan, BanOf DEF Sound, Recalls
      <4> QED BY <3>2, <4>2, <4>3, <4>4 DEF Sound
    <3>4. CASE ~C.there
      <4>1. rgEntry' = Gate!NoEntry
        BY <2>2, <3>1, <3>4 DEF Gate!Banned
      <4>2. rgEntry' \in BoxEntry /\ rgEntry'.last <= rgNow
        BY <3>2, <4>1 DEF Gate!NoEntry, BoxEntry
      <4>3. \A i \in 1..Len(rgBans) : Holds(rgNow, rgEntry', rgBans[i])
        BY <3>1, <3>4 DEF Sound, Holds
      <4>4. rgBans # <<>> => Recalls(rgNow, rgEntry', rgBans[Len(rgBans)])
        BY <3>1, <3>4 DEF Sound, Recalls
      <4> QED BY <4>2, <4>3, <4>4 DEF Sound
    <3> QED BY <3>3, <3>4
  <2> QED BY <2>1, <2>2
<1>4. CountSound' /\ rgServed' \in Nat /\ rgBucket' \in [reset : Nat, count : Nat]
  BY <1>1 DEF GateInv, GateTyped, CountSound
<1> QED BY <1>1, <1>2, <1>3, <1>4, EntryKeeps

LEMMA AllowNKeeps ==
  ASSUME GateAssumption, GateInv, NEW r \in GateRequests, Gate!AllowN(r)
  PROVE  GateInv'
<1>1. UNCHANGED <<rgNow, rgEntry, rgBans>>
  BY DEF Gate!AllowN
<1>2. Sound(rgEntry')
  BY <1>1 DEF GateInv, GateTyped, BoxSound, Sound
<1>3. /\ rgReq \in [GateRequests -> [at : {"idle", "box", "key", "count", "violate"}, valid : BOOLEAN]]
      /\ rgBucket \in [reset : Nat, count : Nat] /\ rgServed \in Nat /\ rgNow \in Nat
      /\ rgBucket.count \in Nat /\ rgServed <= rgBucket.count /\ rgServed <= GateLimit
      /\ GateLimit \in Nat /\ GateWindow \in Nat /\ GateInvalid \in Nat /\ GateInvalid <= GateLimit
  BY DEF GateInv, GateTyped, CountSound, GateAssumption
<1>4. rgReq' \in [GateRequests -> [at : {"idle", "box", "key", "count", "violate"}, valid : BOOLEAN]]
  <2>1. Gate!Answers(r) \/ Gate!Goto(r, "violate")
    BY DEF Gate!AllowN
  <2>2. Gate!Idle \in [at : {"idle", "box", "key", "count", "violate"}, valid : BOOLEAN]
    BY DEF Gate!Idle
  <2> QED BY <1>3, <2>1, <2>2 DEF Gate!Goto, Gate!Answers
<1>5. PICK m \in Nat : m = Gate!SmartRateLimitMax(rgReq[r].valid) /\ m <= GateLimit
  BY <1>3 DEF Gate!SmartRateLimitMax
<1>6. CASE Gate!Fresh
  <2>1. rgBucket' = [reset |-> rgNow + GateWindow, count |-> 1]
        /\ rgServed' = IF 1 <= m THEN 1 ELSE 0
    BY <1>5, <1>6 DEF Gate!AllowN
  <2>2. CountSound' /\ rgServed' \in Nat /\ rgBucket' \in [reset : Nat, count : Nat]
    BY <1>3, <1>5, <2>1 DEF CountSound
  <2> QED BY <1>1, <1>2, <1>4, <2>2, EntryKeeps
<1>7. CASE ~Gate!Fresh
  <2>1. PICK n \in Nat : /\ n = IF rgBucket.count > GateLimit THEN rgBucket.count ELSE rgBucket.count + 1
                         /\ rgBucket' = [rgBucket EXCEPT !.count = n]
    BY <1>3, <1>7 DEF Gate!AllowN
  <2>2. rgBucket'.count = n /\ rgBucket' \in [reset : Nat, count : Nat]
    BY <1>3, <2>1
  <2>3. rgServed' = IF n <= m THEN rgServed + 1 ELSE rgServed
    BY <1>5, <1>7, <2>2 DEF Gate!AllowN
  <2>4. CountSound' /\ rgServed' \in Nat
    BY <1>3, <1>5, <2>1, <2>2, <2>3 DEF CountSound
  <2> QED BY <1>1, <1>2, <1>4, <2>2, <2>4, EntryKeeps
<1> QED BY <1>6, <1>7

(* A later ban is no shorter.                                              *)
LEMMA BansGrow ==
  ASSUME GateAssumption, NEW k \in 1..3, NEW m \in 1..3, k <= m
  PROVE  GateBans[k] <= GateBans[m]
<1>1. GateBans[1] \in Nat /\ GateBans[2] \in Nat /\ GateBans[3] \in Nat
      /\ GateBans[1] <= GateBans[2] /\ GateBans[2] <= GateBans[3] /\ GateBans[1] <= GateBans[3]
  BY DEF GateAssumption
<1>2. CASE k = m
  BY <1>1, <1>2 DEF GateAssumption
<1>3. CASE k = 1 /\ m \in {2, 3}
  BY <1>1, <1>3
<1>4. CASE k = 2 /\ m = 3
  BY <1>1, <1>4
<1> QED BY <1>2, <1>3, <1>4

(* A violation under the threshold is counted; at the threshold the ban is *)
(* longer than the last one that is remembered.                            *)
LEMMA ViolationKeeps ==
  ASSUME GateAssumption, GateInv, NEW r \in GateRequests, Gate!RecordViolation(r)
  PROVE  GateInv'
<1>1. PICK L \in BoxEntry : L = Gate!Lapsed /\ Sound(L) /\ L.there /\ L.last = rgNow
  BY LapsedKeeps DEF Sound
<1>2. UNCHANGED <<rgNow, rgBucket, rgServed>>
  BY DEF Gate!RecordViolation
<1>3. rgReq' \in [GateRequests -> [at : {"idle", "box", "key", "count", "violate"}, valid : BOOLEAN]]
  BY DEF Gate!RecordViolation, Gate!Answers, Gate!Idle, GateInv, GateTyped
<1>4. CountSound' /\ rgServed' \in Nat /\ rgBucket' \in [reset : Nat, count : Nat]
  BY <1>2 DEF GateInv, GateTyped, CountSound
<1>5. rgNow \in Nat /\ rgBans \in Seq(Ban) /\ L.violations \in Nat /\ L.offenses \in 0..3
  BY DEF GateInv, GateTyped, BoxEntry
<1>6. CASE L.violations + 1 < GateThreshold
  <2>1. rgEntry' = [L EXCEPT !.violations = L.violations + 1] /\ UNCHANGED rgBans
    BY <1>1, <1>6 DEF Gate!RecordViolation
  <2>2. /\ rgEntry' \in BoxEntry /\ rgEntry'.last = L.last /\ rgEntry'.there = L.there
        /\ rgEntry'.until = L.until /\ rgEntry'.offenses = L.offenses
    BY <1>5, <2>1 DEF BoxEntry
  <2>3. Sound(rgEntry')
    BY <1>1, <2>2 DEF Sound, Holds, Recalls
  <2> QED BY <1>2, <1>3, <1>4, <2>1, <2>3, EntryKeeps
<1>7. CASE ~(L.violations + 1 < GateThreshold)
  <2>1. PICK m \in 1..3 : m = IF L.offenses + 1 > 3 THEN 3 ELSE L.offenses + 1
    BY <1>5
  <2>2. PICK d \in Nat : d = GateBans[m] /\ d = Gate!BanDuration(L.offenses + 1)
    BY <2>1 DEF Gate!BanDuration, GateAssumption
  <2>3. PICK b \in Ban : b = [start |-> rgNow, for |-> d] /\ b.start = rgNow /\ b.for = d
    <3>1. [start |-> rgNow, for |-> d] \in Ban
      BY <1>5 DEF Ban
    <3> QED BY <3>1
  <2>4. /\ rgEntry' = [L EXCEPT !.offenses = m, !.violations = 0, !.start = rgNow, !.until = rgNow + d]
        /\ rgBans' = Append(rgBans, b)
    BY <1>1, <1>7, <2>1, <2>2, <2>3 DEF Gate!RecordViolation
  <2>5. /\ rgEntry' \in BoxEntry /\ rgEntry'.last = rgNow /\ rgEntry'.there
        /\ rgEntry'.until = rgNow + d /\ rgEntry'.offenses = m
    <3>1. rgNow + d \in Nat /\ m \in 0..3
      BY <1>5, <2>1
    <3> QED BY <1>1, <1>5, <2>4, <3>1 DEF BoxEntry
  <2>6. /\ rgBans' \in Seq(Ban) /\ Len(rgBans') = Len(rgBans) + 1 /\ Len(rgBans) \in Nat
        /\ rgBans'[Len(rgBans) + 1] = b /\ \A i \in 1..Len(rgBans) : rgBans'[i] = rgBans[i]
        /\ rgBans' # <<>>
    BY <1>5, <2>4
  <2>7. \A k \in 1..3 : /\ GateBans[k] \in Nat
                        /\ (k <= m => GateBans[k] <= d)
    BY <2>1, <2>2, BansGrow DEF GateAssumption
  <2>8. ASSUME NEW i \in 1..Len(rgBans) PROVE Holds(rgNow, rgEntry', rgBans[i])
    <3>1. Holds(rgNow, L, rgBans[i])
      BY <1>1 DEF Sound
    <3>2. /\ rgBans[i].start \in Nat /\ rgBans[i].for \in Nat /\ rgBans[i].start <= rgNow
      BY BanOf
    <3>3. ASSUME rgNow < rgBans[i].start + rgBans[i].for
          PROVE  rgBans[i].for <= d
      <4>1. L.offenses \in 1..3 /\ rgBans[i].for <= GateBans[L.offenses]
        BY <3>1, <3>3, Zenon DEF Holds
      <4>2. L.offenses <= m /\ GateBans[L.offenses] \in Nat
        BY <2>1, <2>7, <4>1
      <4>3. GateBans[L.offenses] <= d
        BY <2>7, <4>1, <4>2, Zenon
      <4> QED BY <2>2, <3>2, <4>1, <4>2, <4>3
    <3>4. rgEntry'.there /\ rgEntry'.until = rgNow + d /\ rgEntry'.offenses \in 1..3
          /\ GateBans[rgEntry'.offenses] = d
      BY <2>1, <2>2, <2>5
    <3>5. rgNow + d >= rgBans[i].start + d
      BY <1>5, <3>2
    <3> QED BY <1>5, <3>2, <3>3, <3>4, <3>5 DEF Holds
  <2>9. Holds(rgNow, rgEntry', b) /\ Recalls(rgNow, rgEntry', b)
    <3>1. rgEntry'.there /\ rgEntry'.until = rgNow + d /\ rgEntry'.offenses \in 1..3
          /\ GateBans[rgEntry'.offenses] = d /\ rgEntry'.last = rgNow
      BY <2>1, <2>2, <2>5
    <3> QED BY <1>5, <2>3, <3>1 DEF Holds, Recalls
  <2>10. BoxSound'
    <3>1. \A i \in 1..Len(rgBans') : rgBans'[i].start <= rgNow /\ Holds(rgNow, rgEntry', rgBans'[i])
      <4> SUFFICES ASSUME NEW i \in 1..Len(rgBans')
                   PROVE  rgBans'[i].start <= rgNow /\ Holds(rgNow, rgEntry', rgBans'[i])
        OBVIOUS
      <4>1. CASE i = Len(rgBans) + 1
        BY <1>5, <2>3, <2>6, <2>9, <4>1
      <4>2. CASE i # Len(rgBans) + 1
        <5>1. i \in 1..Len(rgBans)
          BY <2>6, <4>2
        <5> QED BY <2>6, <2>8, <5>1, BanOf
      <4> QED BY <4>1, <4>2
    <3> QED BY <1>2, <1>5, <2>5, <2>6, <2>9, <3>1 DEF BoxSound
  <2>11. Gate!RepeatIsLonger'
    <3> SUFFICES ASSUME NEW i \in 1..(Len(rgBans') - 1),
                        \/ rgBans'[i + 1].start - rgBans'[i].start <= GateReset
                        \/ rgBans'[i + 1].start - rgBans'[i].start <= rgBans'[i].for
                 PROVE  rgBans'[i + 1].for > rgBans'[i].for \/ rgBans'[i + 1].for = GateBans[3]
      BY DEF Gate!RepeatIsLonger
    <3>1. CASE i = Len(rgBans)
      <4>1. rgBans # <<>> /\ i \in 1..Len(rgBans) /\ rgBans'[i + 1] = b /\ rgBans'[i] = rgBans[Len(rgBans)]
        BY <1>5, <2>6, <3>1
      <4>2. L.offenses \in 1..3 /\ rgBans[Len(rgBans)].for = GateBans[L.offenses]
        BY <1>1, <2>3, <4>1 DEF Sound, Recalls
      <4>3. L.offenses = 1 \/ m = 3
        BY <2>1, <4>2
      <4>4. CASE L.offenses = 1
        <5>1. m = 2 /\ GateBans[1] < GateBans[2]
          BY <2>1, <4>4 DEF GateAssumption
        <5> QED BY <2>2, <2>3, <2>7, <4>1, <4>2, <4>4, <5>1
      <4>5. CASE m = 3
        BY <2>2, <2>3, <4>1, <4>5
      <4> QED BY <4>3, <4>4, <4>5
    <3>2. CASE i # Len(rgBans)
      <4>1. i \in 1..(Len(rgBans) - 1) /\ i \in 1..Len(rgBans) /\ i + 1 \in 1..Len(rgBans)
        BY <2>6, <3>2
      <4>2. rgBans'[i] = rgBans[i] /\ rgBans'[i + 1] = rgBans[i + 1]
        BY <2>6, <4>1
      <4> QED BY <4>1, <4>2 DEF GateInv, Gate!RepeatIsLonger
    <3> QED BY <3>1, <3>2
  <2>12. GateTyped'
    BY <1>2, <1>3, <1>4, <1>5, <2>5, <2>6 DEF GateTyped
  <2> QED BY <1>4, <2>10, <2>11, <2>12 DEF GateInv
<1> QED BY <1>6, <1>7

LEMMA GateNext == GateAssumption /\ GateInv /\ [Gate!Next]_Gate!vars => GateInv'
<1> SUFFICES ASSUME GateAssumption, GateInv, [Gate!Next]_Gate!vars PROVE GateInv'
  OBVIOUS
<1>1. CASE UNCHANGED <<rgNow, rgBucket, rgEntry, rgReq, rgServed, rgBans>>
  BY <1>1 DEF GateInv, GateTyped, CountSound, BoxSound, Gate!RepeatIsLonger
<1>2. CASE UNCHANGED Gate!vars
  BY <1>1, <1>2 DEF Gate!vars
<1>3. CASE Gate!RotateDeveloperAPIKey \/ Gate!SetDeveloperAPIKeyStatus
  BY <1>1, <1>3 DEF Gate!RotateDeveloperAPIKey, Gate!SetDeveloperAPIKeyStatus, Gate!Change
<1>4. CASE Gate!Tick
  <2>1. rgNow' = rgNow + 1 /\ rgNow \in Nat /\ UNCHANGED <<rgBucket, rgEntry, rgReq, rgServed, rgBans>>
    BY <1>4 DEF Gate!Tick, GateInv, GateTyped
  <2>2. GateTyped' /\ CountSound' /\ Gate!RepeatIsLonger'
    <3>1. GateTyped'
      BY <2>1 DEF GateInv, GateTyped
    <3>2. CountSound'
      BY <2>1 DEF GateInv, CountSound
    <3>3. Gate!RepeatIsLonger'
      BY <2>1 DEF GateInv, Gate!RepeatIsLonger
    <3> QED BY <3>1, <3>2, <3>3
  <2>3. rgEntry.last \in Nat /\ GateReset \in Nat
    BY DEF GateInv, GateTyped, BoxEntry, GateAssumption
  <2>4. ASSUME NEW i \in 1..Len(rgBans) PROVE rgBans[i].start <= rgNow + 1 /\ Holds(rgNow + 1, rgEntry, rgBans[i])
    <3>1. Holds(rgNow, rgEntry, rgBans[i])
      BY DEF GateInv, BoxSound
    <3> QED BY <2>1, <3>1, BanOf DEF Holds
  <2>5. ASSUME rgBans # <<>> PROVE Recalls(rgNow + 1, rgEntry, rgBans[Len(rgBans)])
    <3>1. Recalls(rgNow, rgEntry, rgBans[Len(rgBans)])
      BY <2>5 DEF GateInv, BoxSound
    <3>2. /\ rgBans[Len(rgBans)].start \in Nat /\ rgBans[Len(rgBans)].for \in Nat
          /\ rgBans[Len(rgBans)].start <= rgNow
      BY <2>5, LastBan, BanOf
    <3> QED BY <2>1, <2>3, <3>1, <3>2 DEF Recalls
  <2>6. BoxSound'
    BY <2>1, <2>3, <2>4, <2>5 DEF GateInv, BoxSound
  <2> QED BY <2>2, <2>6 DEF GateInv
<1>5. ASSUME NEW r \in GateRequests,
             \/ Gate!Begin(r) \/ Gate!Banned(r) \/ Gate!ValidateDeveloperAPIKey(r)
             \/ Gate!AllowN(r) \/ Gate!RecordViolation(r)
      PROVE  GateInv'
  BY <1>5, EntryStepKeeps, AllowNKeeps, ViolationKeeps
<1> QED BY <1>2, <1>3, <1>4, <1>5 DEF Gate!Next

LEMMA GateInvEnough == GateInv => Gate!LimitHolds /\ Gate!ToldBansHold /\ Gate!RepeatIsLonger
BY DEF GateInv, CountSound, BoxSound, Holds, Gate!LimitHolds, Gate!ToldBansHold

(* However the requests of a window interleave, no more are let in than    *)
(* the limit; a ban that was told of is kept to its end; and who offends   *)
(* while the last ban is remembered is banned for longer.                  *)
THEOREM LimitsAndBansHold ==
  ASSUME GateAssumption
  PROVE  Gate!Spec => [](Gate!LimitHolds /\ Gate!ToldBansHold /\ Gate!RepeatIsLonger)
BY GateInit, GateNext, GateInvEnough, PTL DEF Gate!Spec

-----------------------------------------------------------------------------
(* A capability at its providers, for any number of executions, providers, *)
(* priorities, costs and qualities.                                        *)
CONSTANTS Executions, Providers, ActiveOnes, Adapters, RoutePriority, RouteCost, RouteQuality, RouteSeed
VARIABLES crRow, crRate, crJob, crAnswer, crRepeats, crRan, crTried, crSamples, crLost, crUnlisted
Route == INSTANCE CapabilityRoute WITH Events <- Executions, Active <- ActiveOnes, Adapter <- Adapters,
    Priority <- RoutePriority, Cost <- RouteCost, Quality <- RouteQuality, Seed <- RouteSeed,
    row <- crRow, rate <- crRate, job <- crJob, answer <- crAnswer, repeats <- crRepeats, ran <- crRan,
    tried <- crTried, samples <- crSamples, lost <- crLost, unlisted <- crUnlisted

RouteAssumption == ActiveOnes \subseteq Providers /\ IsFiniteSet(ActiveOnes) /\ None \notin Providers

ExecutionRow == [provider : Providers \cup {None},
                 status : {"none", "completed", "real_completed", "mock_fallback"}]
RouteJob == [at : {"idle", "call", "list", "try", "reassign", "complete", "metric", "end"},
             first : Providers \cup {None}, mode : Route!Modes, left : Seq(ActiveOnes),
             by : Providers \cup {None}]
RouteTyped ==
    /\ crRow \in [Executions -> ExecutionRow] /\ crJob \in [Executions -> RouteJob]
    /\ crAnswer \in [Executions -> ExecutionRow] /\ crRepeats \in [Executions -> SUBSET ExecutionRow]
    /\ crSamples \subseteq Executions \X Providers \X BOOLEAN

(* Nobody has run an execution while its request still looks for one who   *)
(* will, and the providers it has still to ask are those it has not.       *)
NobodyRan(e) == \A p \in Providers : <<e, p>> \notin crRan
StillToAsk(e, left) ==
    /\ \A i, j \in 1..Len(left) : left[i] = left[j] => i = j
    /\ \A i \in 1..Len(left) : <<e, left[i], FALSE>> \notin crSamples
    /\ e \in crUnlisted \/ \A p \in ActiveOnes : <<e, p>> \in crTried \/ \E i \in 1..Len(left) : left[i] = p
AskedAll(e) == e \in crUnlisted \/ \A p \in ActiveOnes : <<e, p>> \in crTried

Seeking(e) ==
    /\ crRow[e].status = "none" => crJob[e].at = "idle"
    /\ crRow[e].status = "none" \/ crJob[e].at \in {"call", "list", "try"} => NobodyRan(e)
    /\ crRow[e].status = "none" \/ crJob[e].at \in {"call", "list"} =>
          \A p \in Providers, b \in BOOLEAN : <<e, p, b>> \notin crSamples
    /\ crJob[e].at # "idle" => crJob[e].first \in Providers
    /\ crJob[e].at \in {"call", "list", "try", "reassign"} => crRow[e].provider = crJob[e].first
    /\ crJob[e].at \in {"list", "try"} => <<e, crJob[e].first>> \in crTried
    /\ crJob[e].at = "try" => StillToAsk(e, crJob[e].left)
(* What the request remembers of who ran it, and what it has written.      *)
Found(e) ==
    /\ crJob[e].at = "reassign" => crJob[e].by # None
    /\ crJob[e].at \in {"reassign", "complete", "metric", "end"} =>
          IF crJob[e].by = None THEN NobodyRan(e) /\ AskedAll(e) ELSE <<e, crJob[e].by>> \in crRan
    /\ crJob[e].at = "complete" /\ crJob[e].by # None => crRow[e].provider = crJob[e].by \/ e \in crLost
(* What was written and told is true.                                      *)
Told(e) ==
    /\ crRow[e].status = "real_completed" => e \in crLost \/ <<e, crRow[e].provider>> \in crRan
    /\ crAnswer[e].status # "none" => crJob[e].at = "idle" /\ crRow[e].status # "none"
    /\ crAnswer[e].status = "real_completed" => <<e, crAnswer[e].provider>> \in crRan
    /\ crAnswer[e].status = "mock_fallback" => NobodyRan(e) /\ AskedAll(e)
    /\ \A t \in crRepeats[e] : t.status = "real_completed" => e \in crLost \/ <<e, t.provider>> \in crRan
    /\ \A p \in Providers, b \in BOOLEAN : <<e, p, b>> \in crSamples => (b <=> <<e, p>> \in crRan)
RouteInv == RouteTyped /\ \A e \in Executions : Seeking(e) /\ Found(e) /\ Told(e)

LEMMA RouteInit == RouteAssumption /\ Route!Init => RouteInv
<1> SUFFICES ASSUME RouteAssumption, Route!Init PROVE RouteInv
  OBVIOUS
<1>1. Route!NoRow \in ExecutionRow /\ Route!NoRow.status = "none"
  BY DEF Route!NoRow, ExecutionRow
<1>2. Route!Idle \in RouteJob /\ Route!Idle.at = "idle"
  BY DEF Route!Idle, RouteJob, Route!Modes
<1>3. RouteTyped
  BY <1>1, <1>2 DEF RouteTyped, Route!Init
<1>4. ASSUME NEW e \in Executions PROVE Seeking(e) /\ Found(e) /\ Told(e)
  BY <1>1, <1>2, <1>4 DEF Route!Init, Seeking, Found, Told, NobodyRan
<1> QED BY <1>3, <1>4 DEF RouteInv

(* A step for one execution leaves the others as they are.                 *)
Only(e) == \A d \in Executions \ {e} :
    /\ crRow'[d] = crRow[d] /\ crJob'[d] = crJob[d] /\ crAnswer'[d] = crAnswer[d]
    /\ crRepeats'[d] = crRepeats[d]
    /\ \A p : (<<d, p>> \in crRan' <=> <<d, p>> \in crRan) /\ (<<d, p>> \in crTried' <=> <<d, p>> \in crTried)
    /\ \A p, b : <<d, p, b>> \in crSamples' <=> <<d, p, b>> \in crSamples
    /\ (d \in crLost' <=> d \in crLost) /\ (d \in crUnlisted' <=> d \in crUnlisted)

LEMMA OthersKeep ==
  ASSUME RouteInv, NEW e \in Executions, Only(e), NEW d \in Executions, d # e
  PROVE  Seeking(d)' /\ Found(d)' /\ Told(d)'
<1>1. NobodyRan(d)' <=> NobodyRan(d)
  BY DEF Only, NobodyRan
<1>2. AskedAll(d)' <=> AskedAll(d)
  BY DEF Only, AskedAll
<1>3. \A left : StillToAsk(d, left)' <=> StillToAsk(d, left)
  BY DEF Only, StillToAsk
<1>4. Seeking(d)'
  BY <1>1, <1>3 DEF Only, RouteInv, Seeking
<1>5. Found(d)'
  BY <1>1, <1>2 DEF Only, RouteInv, Found
<1>6. Told(d)'
  BY <1>1, <1>2 DEF Only, RouteInv, Told
<1> QED BY <1>4, <1>5, <1>6

LEMMA OneKeeps ==
  ASSUME RouteInv, NEW e \in Executions, Only(e), RouteTyped', Seeking(e)', Found(e)', Told(e)'
  PROVE  RouteInv'
BY OthersKeep DEF RouteInv

LEMMA JobOf ==
  ASSUME RouteInv, NEW e \in Executions
  PROVE  /\ crJob \in [Executions -> RouteJob] /\ crJob[e] \in RouteJob
         /\ crRow \in [Executions -> ExecutionRow] /\ crRow[e] \in ExecutionRow
         /\ crSamples \subseteq Executions \X Providers \X BOOLEAN
         /\ Seeking(e) /\ Found(e) /\ Told(e)
BY DEF RouteInv, RouteTyped

(* The request goes on.                                                    *)
LEMMA GoesOn ==
  ASSUME RouteInv, NEW e \in Executions, NEW b \in Providers \cup {None},
         NEW at \in {"idle", "call", "list", "try", "reassign", "complete", "metric", "end"},
         Route!Goto(e, at, b)
  PROVE  /\ crJob' \in [Executions -> RouteJob] /\ \A d \in Executions : d # e => crJob'[d] = crJob[d]
         /\ crJob'[e].at = at /\ crJob'[e].by = b /\ crJob'[e].first = crJob[e].first
         /\ crJob'[e].left = crJob[e].left
<1>1. crJob' = [crJob EXCEPT ![e] = [crJob[e] EXCEPT !.at = at, !.by = b]]
  BY JobOf DEF Route!Goto
<1>2. crJob[e] \in RouteJob /\ [crJob[e] EXCEPT !.at = at, !.by = b] \in RouteJob
  BY JobOf DEF RouteJob
<1>3. PICK j \in RouteJob : /\ j = [crJob[e] EXCEPT !.at = at, !.by = b] /\ j.at = at /\ j.by = b
                            /\ j.first = crJob[e].first /\ j.left = crJob[e].left
  BY <1>2 DEF RouteJob
<1> QED BY <1>1, <1>3, JobOf

-----------------------------------------------------------------------------
LEMMA ExecuteKeeps ==
  ASSUME RouteAssumption, RouteInv, NEW e \in Executions, NEW p \in Providers, Route!Execute(e, p)
  PROVE  RouteInv'
<1>1. /\ crRow[e].status = "none" /\ crRow' = [crRow EXCEPT ![e] = [provider |-> p, status |-> "completed"]]
      /\ UNCHANGED <<crAnswer, crRepeats, crRan, crTried, crSamples, crLost, crUnlisted>>
  BY DEF Route!Execute, Route!NoRow
<1>2. PICK j \in RouteJob : crJob' = [crJob EXCEPT ![e] = j] /\ j.at = "call" /\ j.first = p
  <2>1. PICK m \in Route!Modes : crJob' = [crJob EXCEPT ![e] = [Route!Idle EXCEPT !.at = "call", !.first = p, !.mode = m]]
    BY DEF Route!Execute
  <2>2. Route!Idle \in RouteJob
    BY DEF Route!Idle, RouteJob, Route!Modes
  <2>3. [Route!Idle EXCEPT !.at = "call", !.first = p, !.mode = m] \in RouteJob
        /\ [Route!Idle EXCEPT !.at = "call", !.first = p, !.mode = m].at = "call"
        /\ [Route!Idle EXCEPT !.at = "call", !.first = p, !.mode = m].first = p
    BY <2>2 DEF RouteJob
  <2> QED BY <2>1, <2>3
<1>3. /\ crRow' \in [Executions -> ExecutionRow] /\ crRow'[e].provider = p /\ crRow'[e].status = "completed"
      /\ \A d \in Executions : d # e => crRow'[d] = crRow[d] /\ crJob'[d] = crJob[d]
      /\ crJob' \in [Executions -> RouteJob] /\ crJob'[e] = j
  <2>1. [provider |-> p, status |-> "completed"] \in ExecutionRow
    BY DEF ExecutionRow
  <2> QED BY <1>1, <1>2, <2>1, JobOf
<1>4. RouteTyped'
  BY <1>1, <1>3 DEF RouteInv, RouteTyped
<1>5. Only(e)
  BY <1>1, <1>3 DEF Only
<1>6. Seeking(e) /\ Told(e)
  BY JobOf
<1>7. Seeking(e)'
  BY <1>1, <1>2, <1>3, <1>6 DEF Seeking, NobodyRan
<1>8. Found(e)'
  BY <1>2, <1>3 DEF Found
<1>9. crAnswer[e].status = "none"
  BY <1>1, <1>6 DEF Told
<1>10. Told(e)'
  BY <1>1, <1>3, <1>6, <1>9 DEF Told
<1> QED BY <1>4, <1>5, <1>7, <1>8, <1>10, OneKeeps

LEMMA RepeatKeeps ==
  ASSUME RouteInv, NEW e \in Executions, Route!Repeat(e)
  PROVE  RouteInv'
<1>1. /\ crRepeats' = [crRepeats EXCEPT ![e] = crRepeats[e] \cup {crRow[e]}]
      /\ UNCHANGED <<crRow, crJob, crAnswer, crRan, crTried, crSamples, crLost, crUnlisted>>
  BY DEF Route!Repeat, RouteInv, RouteTyped
<1>2. /\ crRepeats' \in [Executions -> SUBSET ExecutionRow] /\ crRepeats'[e] = crRepeats[e] \cup {crRow[e]}
      /\ \A d \in Executions : d # e => crRepeats'[d] = crRepeats[d]
  BY <1>1 DEF RouteInv, RouteTyped
<1>3. RouteTyped'
  <2>1. RouteTyped
    BY DEF RouteInv
  <2>2. crRow' = crRow /\ crJob' = crJob /\ crAnswer' = crAnswer /\ crSamples' = crSamples
    BY <1>1
  <2> QED BY <1>2, <2>1, <2>2, Zenon DEF RouteTyped
<1>4. Only(e)
  BY <1>1, <1>2 DEF Only
<1>5. Seeking(e)'
  <2>1. Seeking(e)
    BY JobOf
  <2>2. crRow' = crRow /\ crJob' = crJob /\ crTried' = crTried /\ crSamples' = crSamples
    BY <1>1
  <2>3. (NobodyRan(e) <=> NobodyRan(e)') /\ (StillToAsk(e, crJob[e].left) <=> StillToAsk(e, crJob[e].left)')
    BY <1>1 DEF NobodyRan, StillToAsk
  <2> QED BY <2>1, <2>2, <2>3 DEF Seeking
<1>6. Found(e)'
  BY <1>1, JobOf DEF Found, NobodyRan, AskedAll
<1>7. Told(e)'
  BY <1>1, <1>2, JobOf DEF Told, NobodyRan, AskedAll
<1> QED BY <1>3, <1>4, <1>5, <1>6, <1>7, OneKeeps

(* Who is called has no sample yet, so when it gives an output, no sample  *)
(* says that it failed.                                                    *)
LEMMA CallKeeps ==
  ASSUME RouteAssumption, RouteInv, NEW e \in Executions, Route!Call(e)
  PROVE  RouteInv'
<1>1. /\ crJob[e].at = "call" /\ crJob[e].first \in Providers /\ crRow[e].provider = crJob[e].first
      /\ crRow[e].status # "none" /\ NobodyRan(e) /\ crAnswer[e].status = "none"
      /\ \A q \in Providers, b \in BOOLEAN : <<e, q, b>> \notin crSamples
      /\ UNCHANGED <<crRow, crAnswer, crRepeats, crSamples, crLost, crUnlisted>>
  BY JobOf DEF Route!Call, Seeking, Told
<1>2. PICK p \in Providers : p = crJob[e].first
  BY <1>1
<1>3. PICK ok \in BOOLEAN :
        /\ crTried' = crTried \cup {<<e, p>>} /\ crRan' = IF ok THEN crRan \cup {<<e, p>>} ELSE crRan
        /\ IF ok THEN Route!Goto(e, "complete", p) ELSE Route!Goto(e, "list", None)
  BY <1>2 DEF Route!Call, Route!Called
<1>4. PICK b \in Providers \cup {None}, at \in {"complete", "list"} :
        /\ Route!Goto(e, at, b) /\ b = (IF ok THEN p ELSE None) /\ at = (IF ok THEN "complete" ELSE "list")
  BY <1>3
<1>5. /\ crJob' \in [Executions -> RouteJob] /\ \A d \in Executions : d # e => crJob'[d] = crJob[d]
      /\ crJob'[e].at = at /\ crJob'[e].by = b /\ crJob'[e].first = p
  BY <1>2, <1>4, GoesOn
<1>6. RouteTyped'
  BY <1>1, <1>5 DEF RouteInv, RouteTyped
<1>7. Only(e)
  BY <1>1, <1>3, <1>5 DEF Only
<1>8. ~ok => NobodyRan(e)'
  BY <1>1, <1>3 DEF NobodyRan
<1>9. Seeking(e)'
  BY <1>1, <1>2, <1>3, <1>4, <1>5, <1>8 DEF Seeking
<1>10. Found(e)'
  BY <1>1, <1>2, <1>3, <1>4, <1>5, <1>8 DEF Found, RouteAssumption
<1>11. Told(e)'
  <2>1. Told(e) /\ crRan \subseteq crRan'
    BY <1>3, JobOf
  <2> QED BY <1>1, <2>1 DEF Told
<1> QED BY <1>6, <1>7, <1>9, <1>10, <1>11, OneKeeps

(* The candidates are all the active providers, each once.                 *)
LEMMA EachCandidateOnce ==
  ASSUME RouteAssumption, NEW mode \in Route!Modes, NEW s \in Route!Candidates(mode)
  PROVE  /\ s \in Seq(ActiveOnes) /\ \A p \in ActiveOnes : \E i \in 1..Len(s) : s[i] = p
         /\ \A i, j \in 1..Len(s) : s[i] = s[j] => i = j
<1>1. PICK n \in Nat : n = Cardinality(ActiveOnes)
  BY FS_CardinalityType DEF RouteAssumption
<1>2. Route!Cardinality(ActiveOnes) = n
  BY <1>1 DEF Route!Cardinality, Cardinality
<1>3. s \in [1..n -> ActiveOnes] /\ \A p \in ActiveOnes : \E i \in 1..n : s[i] = p
  BY <1>2 DEF Route!Candidates
<1>4. s \in Seq(ActiveOnes) /\ Len(s) = n
  BY <1>1, <1>3
<1>5. s \in Surjection(1..n, ActiveOnes)
  BY <1>3 DEF Surjection
<1>6. IsFiniteSet(1..n) /\ Cardinality(1..n) = n
  <2>0. 1 \in Int /\ n \in Int
    BY <1>1
  <2>1. IsFiniteSet(1..n) /\ Cardinality(1..n) = IF 1 > n THEN 0 ELSE n - 1 + 1
    BY <2>0, FS_Interval, Zenon
  <2> QED BY <1>1, <2>1
<1>7. s \in Injection(1..n, ActiveOnes)
  BY <1>1, <1>5, <1>6, FS_SurjSameCardinalityImpliesInj DEF RouteAssumption
<1>8. \A i, j \in 1..n : s[i] = s[j] => i = j
  BY <1>3, <1>7 DEF Injection, IsInjective
<1> QED BY <1>3, <1>4, <1>8

LEMMA ListKeeps ==
  ASSUME RouteAssumption, RouteInv, NEW e \in Executions, Route!List(e)
  PROVE  RouteInv'
<1>1. /\ crJob[e].at = "list" /\ crJob[e].first \in Providers /\ crRow[e].provider = crJob[e].first
      /\ crRow[e].status # "none" /\ NobodyRan(e) /\ crAnswer[e].status = "none"
      /\ <<e, crJob[e].first>> \in crTried
      /\ \A q \in Providers, b \in BOOLEAN : <<e, q, b>> \notin crSamples
      /\ UNCHANGED <<crRow, crAnswer, crRepeats, crRan, crTried, crSamples, crLost>>
  BY JobOf DEF Route!List, Seeking, Told
<1>2. crJob \in [Executions -> RouteJob] /\ crJob[e] \in RouteJob
  BY JobOf
<1>3. PICK s \in Route!Candidates(crJob[e].mode), fails \in BOOLEAN :
        /\ crJob' = [crJob EXCEPT ![e] = [crJob[e] EXCEPT !.at = "try", !.left = IF fails THEN <<>> ELSE s]]
        /\ crUnlisted' = IF fails THEN crUnlisted \cup {e} ELSE crUnlisted
  BY <1>2 DEF Route!List
<1>4. crJob[e].mode \in Route!Modes
  BY <1>2 DEF RouteJob
<1>5. PICK left \in Seq(ActiveOnes) :
        /\ left = IF fails THEN <<>> ELSE s
        /\ \A i, j \in 1..Len(left) : left[i] = left[j] => i = j
        /\ fails \/ \A p \in ActiveOnes : \E i \in 1..Len(left) : left[i] = p
  <2>1. CASE fails
    <3>1. <<>> \in Seq(ActiveOnes) /\ Len(<<>>) = 0
      OBVIOUS
    <3>2. \A i, j \in 1..Len(<<>>) : <<>>[i] = <<>>[j] => i = j
      BY <3>1
    <3> QED BY <2>1, <3>1, <3>2
  <2>2. CASE ~fails
    BY <1>4, <2>2, EachCandidateOnce
  <2> QED BY <2>1, <2>2
<1>6. PICK j \in RouteJob : /\ crJob' = [crJob EXCEPT ![e] = j] /\ j.at = "try" /\ j.left = left
                            /\ j.first = crJob[e].first
  <2>1. crJob' = [crJob EXCEPT ![e] = [crJob[e] EXCEPT !.at = "try", !.left = left]]
    BY <1>3, <1>5
  <2>2. [crJob[e] EXCEPT !.at = "try", !.left = left] \in RouteJob
    BY <1>2 DEF RouteJob
  <2> QED BY <1>2, <2>1, <2>2 DEF RouteJob
<1>7. crJob' \in [Executions -> RouteJob] /\ crJob'[e] = j /\ \A d \in Executions : d # e => crJob'[d] = crJob[d]
  BY <1>2, <1>6
<1>8. RouteTyped'
  BY <1>1, <1>7 DEF RouteInv, RouteTyped
<1>9. Only(e)
  BY <1>1, <1>3, <1>7 DEF Only
<1>10. StillToAsk(e, left)'
  <2>1. \A i \in 1..Len(left) : left[i] \in Providers
    BY <1>5 DEF RouteAssumption
  <2>2. \A i \in 1..Len(left) : <<e, left[i], FALSE>> \notin crSamples
    BY <1>1, <2>1
  <2> QED BY <1>1, <1>3, <1>5, <1>6, <1>7, <2>2 DEF StillToAsk
<1>11. NobodyRan(e)'
  BY <1>1 DEF NobodyRan
<1>12. Seeking(e)'
  BY <1>1, <1>6, <1>7, <1>10, <1>11 DEF Seeking
<1>13. Found(e)'
  BY <1>6, <1>7 DEF Found
<1>14. Told(e)'
  BY <1>1, JobOf DEF Told
<1> QED BY <1>8, <1>9, <1>12, <1>13, <1>14, OneKeeps

(* Whoever is dropped was asked.                                           *)
LEMMA AskedOneLess ==
  ASSUME RouteInv, NEW e \in Executions, NEW left \in Seq(ActiveOnes), left # <<>>, StillToAsk(e, left),
         crTried \subseteq crTried', <<e, Head(left)>> \in crTried', UNCHANGED crUnlisted,
         crSamples' \subseteq crSamples \cup {<<e, Head(left), FALSE>>}
  PROVE  StillToAsk(e, Tail(left))'
<1>1. PICK rest \in Seq(ActiveOnes) : /\ rest = Tail(left) /\ Len(rest) = Len(left) - 1
                                      /\ \A i \in 1..Len(rest) : rest[i] = left[i + 1]
  BY HeadTailProperties
<1>2. Head(left) = left[1] /\ Len(left) \in Nat /\ Len(left) >= 1 /\ 1 \in 1..Len(left)
  OBVIOUS
<1>3. \A i \in 1..Len(rest) : i + 1 \in 1..Len(left) /\ i + 1 # 1
  BY <1>1, <1>2
<1>4. \A i, j \in 1..Len(rest) : rest[i] = rest[j] => i = j
  <2> SUFFICES ASSUME NEW i \in 1..Len(rest), NEW j \in 1..Len(rest), rest[i] = rest[j] PROVE i = j
    OBVIOUS
  <2>1. i + 1 = j + 1
    BY <1>1, <1>3 DEF StillToAsk
  <2> QED BY <2>1
<1>5. \A i \in 1..Len(rest) : <<e, rest[i], FALSE>> \notin crSamples'
  <2> SUFFICES ASSUME NEW i \in 1..Len(rest) PROVE <<e, rest[i], FALSE>> \notin crSamples'
    OBVIOUS
  <2>1. rest[i] = left[i + 1] /\ i + 1 \in 1..Len(left) /\ left[i + 1] # left[1]
    BY <1>1, <1>2, <1>3 DEF StillToAsk
  <2>2. <<e, left[i + 1], FALSE>> \notin crSamples
    BY <2>1 DEF StillToAsk
  <2> QED BY <1>2, <2>1, <2>2
<1>6. ASSUME e \notin crUnlisted, NEW p \in ActiveOnes
      PROVE  <<e, p>> \in crTried' \/ \E i \in 1..Len(rest) : rest[i] = p
  <2>1. CASE <<e, p>> \in crTried
    BY <2>1
  <2>2. ASSUME NEW i \in 1..Len(left), left[i] = p PROVE <<e, p>> \in crTried' \/ \E k \in 1..Len(rest) : rest[k] = p
    <3>1. CASE i = 1
      BY <1>2, <2>2, <3>1
    <3>2. CASE i # 1
      <4>1. i - 1 \in 1..Len(rest) /\ (i - 1) + 1 = i
        BY <1>1, <1>2, <3>2
      <4> QED BY <1>1, <2>2, <4>1
    <3> QED BY <3>1, <3>2
  <2> QED BY <1>6, <2>1, <2>2 DEF StillToAsk
<1> QED BY <1>1, <1>4, <1>5, <1>6 DEF StillToAsk

LEMMA TryKeeps ==
  ASSUME RouteAssumption, RouteInv, NEW e \in Executions, Route!Try(e)
  PROVE  RouteInv'
<1>1. /\ crJob[e].at = "try" /\ crJob[e].first \in Providers /\ crRow[e].provider = crJob[e].first
      /\ crRow[e].status # "none" /\ NobodyRan(e) /\ crAnswer[e].status = "none"
      /\ <<e, crJob[e].first>> \in crTried /\ StillToAsk(e, crJob[e].left)
      /\ UNCHANGED <<crRow, crAnswer, crRepeats, crUnlisted>>
  BY JobOf DEF Route!Try, Seeking, Told
<1>2. PICK left \in Seq(ActiveOnes) : left = crJob[e].left /\ StillToAsk(e, left)
  BY <1>1, JobOf DEF RouteJob
<1>3. crJob \in [Executions -> RouteJob] /\ crJob[e] \in RouteJob /\ Told(e)
      /\ crSamples \subseteq Executions \X Providers \X BOOLEAN
  BY JobOf
<1>4. CASE /\ left = <<>> /\ Route!Goto(e, "complete", None)
           /\ UNCHANGED <<crRate, crRan, crTried, crSamples, crLost>>
  <2>1. /\ crJob' \in [Executions -> RouteJob] /\ \A d \in Executions : d # e => crJob'[d] = crJob[d]
        /\ crJob'[e].at = "complete" /\ crJob'[e].by = None /\ crJob'[e].first = crJob[e].first
    BY <1>4, GoesOn
  <2>2. RouteTyped' /\ Only(e)
    BY <1>1, <1>4, <2>1 DEF RouteInv, RouteTyped, Only
  <2>3. NobodyRan(e)' /\ AskedAll(e)'
    <3>1. Len(left) = 0
      BY <1>4
    <3> QED BY <1>1, <1>2, <1>4, <3>1 DEF NobodyRan, AskedAll, StillToAsk
  <2>4. Seeking(e)' /\ Found(e)'
    BY <1>1, <2>1, <2>3 DEF Seeking, Found
  <2>5. Told(e)'
    BY <1>1, <1>3, <1>4 DEF Told
  <2> QED BY <2>2, <2>4, <2>5, OneKeeps
<1>5. ASSUME left # <<>>, crJob' = [crJob EXCEPT ![e] = [crJob[e] EXCEPT !.left = Tail(left)]],
             crTried' \in {crTried, crTried \cup {<<e, Head(left)>>}}, <<e, Head(left)>> \in crTried', UNCHANGED crRan,
             \/ UNCHANGED <<crSamples, crLost>>
             \/ crSamples' = crSamples \cup {<<e, Head(left), FALSE>>} /\ UNCHANGED crLost
             \/ crLost' = crLost \cup {e} /\ UNCHANGED crSamples
      PROVE  RouteInv'
  <2>1. Head(left) \in ActiveOnes /\ Tail(left) \in Seq(ActiveOnes) /\ Head(left) \in Providers
    BY <1>5, HeadTailProperties DEF RouteAssumption
  <2>2. PICK j \in RouteJob : /\ crJob' = [crJob EXCEPT ![e] = j] /\ j.at = "try" /\ j.first = crJob[e].first
                              /\ j.left = Tail(left)
    <3>1. [crJob[e] EXCEPT !.left = Tail(left)] \in RouteJob
      BY <1>3, <2>1 DEF RouteJob
    <3> QED BY <1>1, <1>3, <1>5, <3>1 DEF RouteJob
  <2>3. crJob' \in [Executions -> RouteJob] /\ crJob'[e] = j /\ \A d \in Executions : d # e => crJob'[d] = crJob[d]
    BY <1>3, <2>2
  <2>4. crTried \subseteq crTried' /\ crSamples' \subseteq crSamples \cup {<<e, Head(left), FALSE>>}
    BY <1>5
  <2>5. StillToAsk(e, Tail(left))'
    BY <1>1, <1>2, <1>5, <2>4, AskedOneLess
  <2>6. RouteTyped'
    <3>1. <<e, Head(left), FALSE>> \in Executions \X Providers \X BOOLEAN
      BY <2>1
    <3>2. crSamples' \subseteq Executions \X Providers \X BOOLEAN
      BY <1>3, <2>4, <3>1
    <3> QED BY <1>1, <2>3, <3>2 DEF RouteInv, RouteTyped
  <2>7. Only(e)
    <3>1. ASSUME NEW d \in Executions \ {e}
          PROVE  /\ \A p : <<d, p>> \in crTried' <=> <<d, p>> \in crTried
                 /\ \A p, b : <<d, p, b>> \in crSamples' <=> <<d, p, b>> \in crSamples
                 /\ (d \in crLost' <=> d \in crLost)
      <4>1. \A p : <<d, p>> \in crTried' <=> <<d, p>> \in crTried
        BY <1>5, <3>1
      <4>2. \A p, b : <<d, p, b>> \in crSamples' <=> <<d, p, b>> \in crSamples
        <5>1. \A p, b : <<d, p, b>> # <<e, Head(left), FALSE>>
          BY <3>1
        <5>2. crSamples' = crSamples \/ crSamples' = crSamples \cup {<<e, Head(left), FALSE>>}
          BY <1>5
        <5>3. CASE crSamples' = crSamples
          BY <5>3
        <5>4. CASE crSamples' = crSamples \cup {<<e, Head(left), FALSE>>}
          <6>1. \A s : s \in crSamples' <=> s \in crSamples \/ s = <<e, Head(left), FALSE>>
            BY <5>4
          <6> QED BY <5>1, <6>1
        <5> QED BY <5>2, <5>3, <5>4
      <4>3. d \in crLost' <=> d \in crLost
        BY <1>5, <3>1
      <4> QED BY <4>1, <4>2, <4>3
    <3> QED BY <1>1, <1>5, <2>3, <3>1 DEF Only
  <2>8. NobodyRan(e)'
    BY <1>1, <1>5 DEF NobodyRan
  <2>9. Seeking(e)' /\ Found(e)'
    BY <1>1, <2>2, <2>3, <2>4, <2>5, <2>8 DEF Seeking, Found
  <2>10. Told(e)'
    <3>1. \A p \in Providers, b \in BOOLEAN : <<e, p, b>> \in crSamples' => (b <=> <<e, p>> \in crRan')
      BY <1>1, <1>3, <1>5, <2>4 DEF Told, NobodyRan
    <3> QED BY <1>1, <1>3, <1>5, <3>1 DEF Told
  <2> QED BY <2>6, <2>7, <2>9, <2>10, OneKeeps
<1>6. CASE /\ left # <<>> /\ Route!Called(e, Head(left), TRUE) /\ Route!Goto(e, "reassign", Head(left))
           /\ UNCHANGED <<crRate, crSamples, crLost>>
  <2>1. PICK h \in Providers : h = Head(left) /\ h = left[1] /\ 1 \in 1..Len(left)
    BY <1>6, HeadTailProperties DEF RouteAssumption
  <2>2. /\ crJob' \in [Executions -> RouteJob] /\ \A d \in Executions : d # e => crJob'[d] = crJob[d]
        /\ crJob'[e].at = "reassign" /\ crJob'[e].by = h /\ crJob'[e].first = crJob[e].first
    BY <1>6, <2>1, GoesOn
  <2>3. crRan' = crRan \cup {<<e, h>>} /\ crTried' = crTried \cup {<<e, h>>}
    BY <1>6, <2>1 DEF Route!Called
  <2>4. RouteTyped' /\ Only(e)
    BY <1>1, <1>6, <2>2, <2>3 DEF RouteInv, RouteTyped, Only
  <2>5. Seeking(e)' /\ Found(e)'
    BY <1>1, <2>1, <2>2, <2>3 DEF Seeking, Found, RouteAssumption
  <2>6. Told(e)'
    <3>1. \A p \in Providers, b \in BOOLEAN : <<e, p, b>> \in crSamples => (b <=> <<e, p>> \in crRan')
      <4> SUFFICES ASSUME NEW p \in Providers, NEW b \in BOOLEAN, <<e, p, b>> \in crSamples
                   PROVE  b <=> <<e, p>> \in crRan'
        OBVIOUS
      <4>1. (b <=> <<e, p>> \in crRan) /\ <<e, p>> \notin crRan /\ b = FALSE
        BY <1>1, <1>3 DEF Told, NobodyRan
      <4>2. p # h
        BY <1>2, <2>1, <4>1 DEF StillToAsk
      <4> QED BY <2>3, <4>1, <4>2
    <3> QED BY <1>1, <1>3, <1>6, <2>3, <3>1 DEF Told
  <2> QED BY <2>4, <2>5, <2>6, OneKeeps
<1>7. CASE /\ left # <<>> /\ Head(left) = crJob[e].first
           /\ crJob' = [crJob EXCEPT ![e] = [crJob[e] EXCEPT !.left = Tail(left)]]
           /\ UNCHANGED <<crRate, crRan, crTried, crSamples, crLost>>
  BY <1>1, <1>5, <1>7
<1>8. CASE /\ left # <<>> /\ Route!Called(e, Head(left), FALSE) /\ Route!Sample(e, Head(left), FALSE)
           /\ crJob' = [crJob EXCEPT ![e] = [crJob[e] EXCEPT !.left = Tail(left)]]
  <2>1. crTried' = crTried \cup {<<e, Head(left)>>} /\ UNCHANGED crRan
    BY <1>8 DEF Route!Called
  <2>2. \/ crSamples' = crSamples \cup {<<e, Head(left), FALSE>>} /\ UNCHANGED crLost
        \/ crLost' = crLost \cup {e} /\ UNCHANGED crSamples
    BY <1>8 DEF Route!Sample
  <2> QED BY <1>5, <1>8, <2>1, <2>2
<1> QED BY <1>2, <1>3, <1>4, <1>6, <1>7, <1>8 DEF Route!Try

(* What is written of the execution is what its request found, or the      *)
(* write is lost.                                                          *)
LEMMA WriteKeeps ==
  ASSUME RouteAssumption, RouteInv, NEW e \in Executions,
         Route!Reassign(e) \/ Route!Complete(e)
  PROVE  RouteInv'
<1>1. /\ crJob[e].at \in {"reassign", "complete"} /\ crJob[e].first \in Providers
      /\ crRow[e].status # "none" /\ crAnswer[e].status = "none"
      /\ UNCHANGED <<crAnswer, crRepeats, crRan, crTried, crSamples, crUnlisted>>
  BY JobOf DEF Route!Reassign, Route!Complete, Seeking, Told
<1>2. /\ crJob[e].by \in Providers \cup {None}
      /\ IF crJob[e].by = None THEN NobodyRan(e) /\ AskedAll(e) ELSE <<e, crJob[e].by>> \in crRan
      /\ crJob[e].at = "reassign" => crJob[e].by # None
  BY <1>1, JobOf DEF Found, RouteJob
<1>3. PICK at \in {"complete", "metric"} : /\ Route!Goto(e, at, crJob[e].by)
                                           /\ at = (IF crJob[e].at = "reassign" THEN "complete" ELSE "metric")
  BY DEF Route!Reassign, Route!Complete
<1>4. /\ crJob' \in [Executions -> RouteJob] /\ \A d \in Executions : d # e => crJob'[d] = crJob[d]
      /\ crJob'[e].at = at /\ crJob'[e].by = crJob[e].by /\ crJob'[e].first = crJob[e].first
  BY <1>2, <1>3, GoesOn
<1>5. PICK r \in ExecutionRow :
        /\ \/ crRow' = [crRow EXCEPT ![e] = r] /\ UNCHANGED crLost
           \/ crLost' = crLost \cup {e} /\ UNCHANGED crRow
        /\ r.status # "none"
        /\ crJob[e].at = "reassign" => r.provider = crJob[e].by /\ r.status = crRow[e].status
        /\ crJob[e].at = "complete" => r.provider = crRow[e].provider
               /\ r.status = (IF crJob[e].by = None THEN "mock_fallback" ELSE "real_completed")
  <2>1. CASE Route!Reassign(e)
    <3>1. [crRow[e] EXCEPT !.provider = crJob[e].by] \in ExecutionRow
      BY <1>2, JobOf DEF ExecutionRow
    <3>2. \/ crRow' = [crRow EXCEPT ![e] = [crRow[e] EXCEPT !.provider = crJob[e].by]] /\ UNCHANGED crLost
          \/ crLost' = crLost \cup {e} /\ UNCHANGED crRow
      BY <2>1 DEF Route!Reassign, Route!Reassigned, Route!Write
    <3>3. crJob[e].at = "reassign" /\ crRow[e] \in ExecutionRow
      BY <2>1, JobOf DEF Route!Reassign
    <3> QED BY <1>1, <3>1, <3>2, <3>3 DEF ExecutionRow
  <2>2. CASE Route!Complete(e)
    <3>1. [crRow[e] EXCEPT !.status = Route!Status(e)] \in ExecutionRow
      BY JobOf DEF ExecutionRow, Route!Status
    <3>2. \/ crRow' = [crRow EXCEPT ![e] = [crRow[e] EXCEPT !.status = Route!Status(e)]] /\ UNCHANGED crLost
          \/ crLost' = crLost \cup {e} /\ UNCHANGED crRow
      BY <2>2 DEF Route!Complete, Route!Write
    <3>3. crJob[e].at = "complete" /\ crRow[e] \in ExecutionRow
      BY <2>2, JobOf DEF Route!Complete
    <3> QED BY <3>1, <3>2, <3>3 DEF ExecutionRow, Route!Status
  <2> QED BY <2>1, <2>2
<1>6. /\ crRow' \in [Executions -> ExecutionRow] /\ \A d \in Executions : d # e => crRow'[d] = crRow[d]
      /\ crRow'[e] = r \/ (crRow'[e] = crRow[e] /\ e \in crLost')
      /\ crLost \subseteq crLost' /\ crLost' \subseteq crLost \cup {e}
  BY <1>5, JobOf
<1>7. RouteTyped'
  BY <1>1, <1>4, <1>6 DEF RouteInv, RouteTyped
<1>8. Only(e)
  BY <1>1, <1>4, <1>6 DEF Only
<1>9. NobodyRan(e)' = NobodyRan(e) /\ AskedAll(e)' = AskedAll(e)
  BY <1>1 DEF NobodyRan, AskedAll
<1>10. Seeking(e)'
  BY <1>1, <1>3, <1>4, <1>5, <1>6 DEF Seeking
<1>11. Found(e)'
  <2>1. crJob'[e].at = "complete" /\ crJob'[e].by # None => crRow'[e].provider = crJob'[e].by \/ e \in crLost'
    BY <1>3, <1>4, <1>5, <1>6
  <2> QED BY <1>1, <1>2, <1>4, <1>9, <2>1 DEF Found
<1>12. Told(e)'
  <2>1. Told(e) /\ Found(e)
    BY JobOf
  <2>2. crRow'[e].status = "real_completed" => e \in crLost' \/ <<e, crRow'[e].provider>> \in crRan
    <3>1. CASE crRow'[e] = crRow[e] /\ e \in crLost'
      BY <3>1
    <3>2. CASE crRow'[e] = r /\ crJob[e].at = "reassign"
      BY <1>2, <1>5, <3>2
    <3>3. CASE crRow'[e] = r /\ crJob[e].at = "complete"
      <4>1. ASSUME crJob[e].by # None PROVE e \in crLost' \/ <<e, r.provider>> \in crRan
        BY <1>2, <1>5, <1>6, <2>1, <3>3, <4>1 DEF Found
      <4> QED BY <1>5, <3>3, <4>1
    <3> QED BY <1>1, <1>6, <3>1, <3>2, <3>3
  <2> QED BY <1>1, <1>6, <2>1, <2>2 DEF Told
<1> QED BY <1>7, <1>8, <1>10, <1>11, <1>12, OneKeeps

LEMMA EndKeeps ==
  ASSUME RouteAssumption, RouteInv, NEW e \in Executions,
         Route!Metric(e) \/ Route!Answer(e) \/ Route!Stops(e)
  PROVE  RouteInv'
<1>1. crJob[e].first \in Providers \cup {None} /\ crJob[e].by \in Providers \cup {None}
      /\ Seeking(e) /\ Found(e) /\ Told(e)
  BY JobOf DEF RouteJob
<1>2. Route!Idle \in RouteJob /\ Route!Idle.at = "idle"
  BY DEF Route!Idle, RouteJob, Route!Modes
<1>3. CASE Route!Metric(e)
  <2>1. /\ crJob[e].at = "metric" /\ crJob[e].first \in Providers /\ Route!Goto(e, "end", crJob[e].by)
        /\ crRow[e].status # "none" /\ crAnswer[e].status = "none"
        /\ UNCHANGED <<crRow, crAnswer, crRepeats, crRan, crTried, crUnlisted>>
    BY <1>1, <1>3 DEF Route!Metric, Seeking, Told
  <2>2. /\ crJob' \in [Executions -> RouteJob] /\ \A d \in Executions : d # e => crJob'[d] = crJob[d]
        /\ crJob'[e].at = "end" /\ crJob'[e].by = crJob[e].by /\ crJob'[e].first = crJob[e].first
    BY <1>1, <2>1, GoesOn
  <2>3. PICK p \in Providers, ok \in BOOLEAN :
          /\ Route!Sample(e, p, ok) /\ ok = (crJob[e].by # None) /\ (ok <=> <<e, p>> \in crRan)
    <3>1. Route!Sample(e, IF crJob[e].by = None THEN crJob[e].first ELSE crJob[e].by, crJob[e].by # None)
      BY <1>3 DEF Route!Metric
    <3>2. CASE crJob[e].by = None
      <4>1. NobodyRan(e)
        BY <1>1, <2>1, <3>2 DEF Found
      <4>2. Route!Sample(e, crJob[e].first, FALSE)
        BY <3>1, <3>2
      <4> QED BY <2>1, <3>2, <4>1, <4>2 DEF NobodyRan
    <3>3. CASE crJob[e].by # None
      <4>1. <<e, crJob[e].by>> \in crRan /\ crJob[e].by \in Providers
        BY <1>1, <2>1, <3>3 DEF Found
      <4>2. Route!Sample(e, crJob[e].by, TRUE)
        BY <3>1, <3>3
      <4> QED BY <3>3, <4>1, <4>2
    <3> QED BY <3>2, <3>3
  <2>4. \/ crSamples' = crSamples \cup {<<e, p, ok>>} /\ UNCHANGED crLost
        \/ crLost' = crLost \cup {e} /\ UNCHANGED crSamples
    BY <2>3 DEF Route!Sample
  <2>5. RouteTyped'
    BY <2>1, <2>2, <2>4 DEF RouteInv, RouteTyped
  <2>6. Only(e)
    BY <2>1, <2>2, <2>4 DEF Only
  <2>7. NobodyRan(e)' = NobodyRan(e) /\ AskedAll(e)' = AskedAll(e)
    BY <2>1 DEF NobodyRan, AskedAll
  <2>8. Seeking(e)' /\ Found(e)'
    BY <1>1, <2>1, <2>2, <2>7 DEF Seeking, Found
  <2>9. Told(e)'
    BY <1>1, <2>1, <2>3, <2>4 DEF Told
  <2> QED BY <2>5, <2>6, <2>8, <2>9, OneKeeps
<1>4. CASE Route!Answer(e)
  <2>1. /\ crJob[e].at = "end" /\ crJob[e].first \in Providers /\ crRow[e].status # "none"
        /\ crJob' = [crJob EXCEPT ![e] = Route!Idle]
        /\ UNCHANGED <<crRow, crRepeats, crRan, crTried, crSamples, crLost, crUnlisted>>
    BY <1>1, <1>4 DEF Route!Answer, Seeking
  <2>2. PICK a \in ExecutionRow :
          /\ crAnswer' = [crAnswer EXCEPT ![e] = a]
          /\ a.status = (IF crJob[e].by = None THEN "mock_fallback" ELSE "real_completed")
          /\ crJob[e].by # None => a.provider = crJob[e].by
    <3>1. PICK p \in Providers : p = IF crJob[e].by = None THEN crJob[e].first ELSE crJob[e].by
      BY <1>1, <2>1
    <3>2. crAnswer' = [crAnswer EXCEPT ![e] = [status |-> Route!Status(e), provider |-> p]]
      BY <1>4, <3>1 DEF Route!Answer
    <3>3. [status |-> Route!Status(e), provider |-> p] \in ExecutionRow
      BY DEF ExecutionRow, Route!Status
    <3> QED BY <3>1, <3>2, <3>3 DEF Route!Status
  <2>3. /\ crJob' \in [Executions -> RouteJob] /\ crJob'[e].at = "idle" /\ crAnswer'[e] = a
        /\ crAnswer' \in [Executions -> ExecutionRow]
        /\ \A d \in Executions : d # e => crJob'[d] = crJob[d] /\ crAnswer'[d] = crAnswer[d]
    BY <1>2, <2>1, <2>2, JobOf DEF RouteInv, RouteTyped
  <2>4. RouteTyped'
    BY <2>1, <2>3 DEF RouteInv, RouteTyped
  <2>5. Only(e)
    BY <2>1, <2>3 DEF Only
  <2>6. NobodyRan(e)' = NobodyRan(e) /\ AskedAll(e)' = AskedAll(e)
    BY <2>1 DEF NobodyRan, AskedAll
  <2>7. Seeking(e)' /\ Found(e)'
    BY <1>1, <2>1, <2>3 DEF Seeking, Found
  <2>8. /\ a.status = "real_completed" => <<e, a.provider>> \in crRan
        /\ a.status = "mock_fallback" => NobodyRan(e) /\ AskedAll(e)
    BY <1>1, <2>1, <2>2 DEF Found
  <2>9. Told(e)'
    BY <1>1, <2>1, <2>3, <2>6, <2>8 DEF Told
  <2> QED BY <2>4, <2>5, <2>7, <2>9, OneKeeps
<1>5. CASE Route!Stops(e)
  <2>1. /\ crJob' = [crJob EXCEPT ![e] = Route!Idle] /\ crLost' = crLost \cup {e}
        /\ UNCHANGED <<crRow, crAnswer, crRepeats, crRan, crTried, crSamples, crUnlisted>>
    BY <1>5 DEF Route!Stops
  <2>2. /\ crJob' \in [Executions -> RouteJob] /\ crJob'[e].at = "idle"
        /\ \A d \in Executions : d # e => crJob'[d] = crJob[d]
    BY <1>2, <2>1, JobOf
  <2>3. RouteTyped'
    BY <2>1, <2>2 DEF RouteInv, RouteTyped
  <2>4. Only(e)
    BY <2>1, <2>2 DEF Only
  <2>5. NobodyRan(e)' = NobodyRan(e) /\ AskedAll(e)' = AskedAll(e)
    BY <2>1 DEF NobodyRan, AskedAll
  <2>6. Seeking(e)' /\ Found(e)' /\ Told(e)'
    BY <1>1, <2>1, <2>2, <2>5 DEF Seeking, Found, Told
  <2> QED BY <2>3, <2>4, <2>6, OneKeeps
<1> QED BY <1>3, <1>4, <1>5

LEMMA RouteNext == RouteAssumption /\ RouteInv /\ [Route!Next]_Route!vars => RouteInv'
<1> SUFFICES ASSUME RouteAssumption, RouteInv, [Route!Next]_Route!vars PROVE RouteInv'
  OBVIOUS
<1>1. CASE UNCHANGED <<crRow, crJob, crAnswer, crRepeats, crRan, crTried, crSamples, crLost, crUnlisted>>
  <2>1. RouteTyped'
    BY <1>1 DEF RouteInv, RouteTyped
  <2>2. ASSUME NEW e \in Executions PROVE Seeking(e)' /\ Found(e)' /\ Told(e)'
    <3>1. (NobodyRan(e)' <=> NobodyRan(e)) /\ (AskedAll(e)' <=> AskedAll(e))
      BY <1>1 DEF NobodyRan, AskedAll
    <3>2. \A left : StillToAsk(e, left)' <=> StillToAsk(e, left)
      BY <1>1 DEF StillToAsk
    <3>3. Seeking(e)'
      BY <1>1, <2>2, <3>1, <3>2 DEF RouteInv, Seeking
    <3>4. Found(e)'
      BY <1>1, <2>2, <3>1 DEF RouteInv, Found
    <3>5. Told(e)'
      BY <1>1, <2>2, <3>1 DEF RouteInv, Told
    <3> QED BY <3>3, <3>4, <3>5
  <2> QED BY <2>1, <2>2 DEF RouteInv
<1>2. CASE UNCHANGED Route!vars \/ Route!Starts
  BY <1>1, <1>2 DEF Route!vars, Route!Starts
<1>3. CASE Route!Next /\ ~Route!Starts
  BY <1>3, ExecuteKeeps, RepeatKeeps, CallKeeps, ListKeeps, TryKeeps, WriteKeeps, EndKeeps DEF Route!Next
<1> QED BY <1>2, <1>3

LEMMA RouteInvEnough ==
  RouteAssumption /\ RouteInv =>
      Route!AnswersTellWhoRan /\ Route!MockMeansExhausted /\ Route!SamplesAreTrue
<1> SUFFICES ASSUME RouteAssumption, RouteInv
             PROVE  Route!AnswersTellWhoRan /\ Route!MockMeansExhausted /\ Route!SamplesAreTrue
  OBVIOUS
<1>1. Route!AnswersTellWhoRan
  BY DEF RouteInv, Told, Route!AnswersTellWhoRan
<1>2. Route!MockMeansExhausted
  BY DEF RouteInv, Told, NobodyRan, AskedAll, RouteAssumption, Route!MockMeansExhausted
<1>3. Route!SamplesAreTrue
  <2>1. ASSUME NEW s \in crSamples
        PROVE  /\ s = <<s[1], s[2], s[3]>> /\ s[1] \in Executions /\ s[2] \in Providers /\ s[3] \in BOOLEAN
               /\ s[3] <=> <<s[1], s[2]>> \in crRan
    <3>1. /\ s = <<s[1], s[2], s[3]>> /\ s[1] \in Executions /\ s[2] \in Providers /\ s[3] \in BOOLEAN
      BY DEF RouteInv, RouteTyped
    <3>2. <<s[1], s[2], s[3]>> \in crSamples
      BY <2>1, <3>1
    <3>3. \A p \in Providers, b \in BOOLEAN : <<s[1], p, b>> \in crSamples => (b <=> <<s[1], p>> \in crRan)
      BY <3>1 DEF RouteInv, Told
    <3> QED BY <3>1, <3>2, <3>3
  <2>2. ASSUME NEW s \in crSamples, NEW t \in crSamples, s[1] = t[1], s[2] = t[2] PROVE s = t
    <3>1. s[3] <=> t[3]
      BY <2>1, <2>2
    <3>2. s[3] \in {TRUE, FALSE} /\ t[3] \in {TRUE, FALSE}
      BY <2>1, <2>2
    <3>3. s[3] = t[3]
      <4>1. CASE s[3] = TRUE
        <5>1. t[3] = TRUE
          BY <3>1, <3>2, <4>1
        <5> QED BY <4>1, <5>1
      <4>2. CASE s[3] = FALSE
        <5>1. t[3] = FALSE
          BY <3>1, <3>2, <4>2
        <5> QED BY <4>2, <5>1
      <4> QED BY <3>2, <4>1, <4>2
    <3>4. s = <<s[1], s[2], s[3]>> /\ t = <<t[1], t[2], t[3]>>
      BY <2>1, <2>2
    <3> QED BY <2>2, <3>3, <3>4
  <2> QED BY <2>1, <2>2 DEF Route!SamplesAreTrue
<1> QED BY <1>1, <1>2, <1>3

(* An answer that names a provider as having run an execution is true, as  *)
(* is what a repeat is told unless a write was lost; a made-up answer is   *)
(* given only when no active provider was left to ask; and a sample says   *)
(* what the provider did.                                                  *)
THEOREM RoutesAreToldTruly ==
  ASSUME RouteAssumption
  PROVE  Route!Spec =>
            [](Route!AnswersTellWhoRan /\ Route!MockMeansExhausted /\ Route!SamplesAreTrue)
BY RouteInit, RouteNext, RouteInvEnough, PTL DEF Route!Spec

-----------------------------------------------------------------------------
(* The liquidity router on one order, for any set of providers and any     *)
(* configurations of which the providers exist.                            *)
CONSTANTS LiqProviders, LiqBingX, LiqConfigs
VARIABLES lqCfg, lqAt, lqQuote, lqLate, lqTried, lqCur, lqExec, lqBought, lqSent, lqRecord, lqOut, lqUnclear
Liquid == INSTANCE LiquidityRoute WITH Providers <- LiqProviders, BingX <- LiqBingX, Configs <- LiqConfigs,
    cfg <- lqCfg, at <- lqAt, quote <- lqQuote, late <- lqLate, tried <- lqTried, cur <- lqCur,
    exec <- lqExec, bought <- lqBought, sent <- lqSent, record <- lqRecord, out <- lqOut,
    unclear <- lqUnclear

LiquidAssumption ==
    /\ LiqProviders \subseteq Nat /\ None \notin LiqProviders /\ LiqConfigs \subseteq Liquid!Config
    /\ \A c \in LiqConfigs : /\ c.http => \E p \in LiqProviders : p # LiqBingX
                             /\ c.bingx # "off" => LiqBingX \in LiqProviders

LiquidTyped ==
    /\ lqCfg \in LiqConfigs /\ lqTried \subseteq LiqProviders /\ lqSent \subseteq LiqProviders
    /\ lqQuote \in [LiqProviders -> {0, 1, 2, 3}] /\ IsFiniteSet(lqSent)
    /\ lqAt \in {"idle", "quote", "next", "http", "buy", "withdraw", "record", "write", "done"}
    /\ lqUnclear \in BOOLEAN
(* Before an execution is accepted nothing is delivered, unless it was     *)
(* executed with an answer that was lost.                                  *)
Undelivered == lqUnclear \/ lqSent = {}
BeforeQuotes == lqAt \in {"idle", "quote"} => lqTried = {}
AskedInOrder == \A p \in lqTried : \A q \in Liquid!Quoted : Liquid!SortQuotes(q, p) => q \in lqTried
Attempting == lqAt \in {"idle", "quote", "next", "http", "buy", "withdraw"} =>
    lqExec = Liquid!NoExec /\ lqRecord = Liquid!NoExec /\ lqOut = "enviando" /\ Undelivered
BeingAsked == lqAt \in {"http", "buy", "withdraw"} => lqCur \in LiqProviders
(* What was accepted was delivered, or BingX holds it; nothing else was.   *)
Accepted ==
    /\ lqExec.prov \in LiqProviders
    /\ lqExec.status = "sent" => lqExec.prov \in lqSent
    /\ lqExec.prov \in lqSent \/ lqBought \/ lqCfg.bingx = "trade"
    /\ lqUnclear \/ lqSent \subseteq {lqExec.prov}
    /\ lqRecord # Liquid!NoExec => lqRecord.prov = lqExec.prov
Deciding == lqAt \in {"record", "write", "done"} =>
    IF lqExec = Liquid!NoExec THEN Undelivered ELSE Accepted
RecordWritten ==
    /\ lqAt \in {"record", "write"} => lqOut = "enviando"
    /\ lqAt = "record" => lqRecord = Liquid!NoExec
    /\ lqOut = "hot" => lqExec = Liquid!NoExec \/ lqUnclear
    /\ lqOut \in {"enviado", "pendente_confirmacao"} => lqAt = "done" /\ lqExec # Liquid!NoExec
    /\ lqOut = "enviado" => lqExec.status = "sent"
LiquidInv == LiquidTyped /\ BeforeQuotes /\ AskedInOrder /\ Attempting /\ BeingAsked /\ Deciding /\ RecordWritten

LEMMA LiquidInit == LiquidAssumption /\ Liquid!Init => LiquidInv
<1> SUFFICES ASSUME LiquidAssumption, Liquid!Init PROVE LiquidInv
  OBVIOUS
<1>1. LiquidTyped
  BY FS_EmptySet DEF Liquid!Init, LiquidTyped, Liquid!Asked
<1>2. AskedInOrder /\ BeforeQuotes /\ Attempting /\ BeingAsked /\ Deciding /\ RecordWritten
  BY DEF Liquid!Init, AskedInOrder, BeforeQuotes, Attempting, BeingAsked, Deciding, RecordWritten, Undelivered
<1> QED BY <1>1, <1>2 DEF LiquidInv

LEMMA OrderOfQuotes ==
  ASSUME LiquidAssumption, LiquidTyped, NEW p \in LiqProviders, NEW q \in LiqProviders,
         Liquid!SortQuotes(p, q)
  PROVE  ~Liquid!SortQuotes(q, p) /\ p # q
<1>1. p \in Nat /\ q \in Nat /\ lqQuote[p] \in Nat /\ lqQuote[q] \in Nat
  BY DEF LiquidAssumption, LiquidTyped
<1> QED BY <1>1 DEF Liquid!SortQuotes

(* Up to the quotes.                                                       *)
LEMMA RoutingKeeps ==
  ASSUME LiquidAssumption, LiquidInv,
         \/ Liquid!UseRouter \/ Liquid!UseHotWallet \/ Liquid!TimeoutPasses \/ Liquid!NormalizeQuotes
         \/ \E p \in LiqProviders : Liquid!Quote(p)
  PROVE  LiquidInv'
<1> USE DEF Liquid!result, Liquid!external
<1>1. CASE Liquid!UseRouter
  BY <1>1 DEF Liquid!UseRouter, LiquidInv, LiquidTyped, BeforeQuotes, AskedInOrder, Attempting, BeingAsked,
              Deciding, RecordWritten, Undelivered, Accepted
<1>2. CASE Liquid!UseHotWallet
  BY <1>2 DEF Liquid!UseHotWallet, LiquidInv, LiquidTyped, BeforeQuotes, AskedInOrder, Attempting, BeingAsked,
              Deciding, RecordWritten, Undelivered, Accepted
<1>3. CASE Liquid!TimeoutPasses
  BY <1>3 DEF Liquid!TimeoutPasses, LiquidInv, LiquidTyped, BeforeQuotes, AskedInOrder, Attempting, BeingAsked,
              Deciding, RecordWritten, Undelivered, Accepted, Liquid!Quoted, Liquid!SortQuotes
<1>4. CASE Liquid!NormalizeQuotes
  BY <1>4 DEF Liquid!NormalizeQuotes, LiquidInv, LiquidTyped, BeforeQuotes, AskedInOrder, Attempting, BeingAsked,
              Deciding, RecordWritten, Undelivered, Accepted
<1>5. ASSUME NEW p \in LiqProviders, Liquid!Quote(p) PROVE LiquidInv'
  <2>1. PICK s \in {1, 2, 3} : lqQuote' = [lqQuote EXCEPT ![p] = s]
    BY <1>5 DEF Liquid!Quote, Liquid!QuoteHTTP, Liquid!QuoteBingX, Liquid!NoQuote
  <2>2. lqQuote' \in [LiqProviders -> {0, 1, 2, 3}]
    BY <2>1 DEF LiquidInv, LiquidTyped
  <2>3. /\ lqAt = "quote" /\ lqTried = {}
        /\ UNCHANGED <<lqCfg, lqAt, lqLate, lqTried, lqCur, lqExec, lqRecord, lqOut, lqBought, lqSent, lqUnclear>>
    BY <1>5 DEF Liquid!Quote, LiquidInv, BeforeQuotes
  <2>4. LiquidTyped' /\ AskedInOrder'
    BY <2>2, <2>3 DEF LiquidInv, LiquidTyped, AskedInOrder
  <2> QED BY <2>3, <2>4 DEF LiquidInv, BeforeQuotes, Attempting, BeingAsked, Deciding, RecordWritten, Undelivered, Accepted
<1> QED BY <1>1, <1>2, <1>3, <1>4, <1>5

(* The attempts.                                                           *)
LEMMA NextIsAsked ==
  ASSUME LiquidAssumption, LiquidInv, NEW p \in LiqProviders, Liquid!ExecuteNext(p)
  PROVE  LiquidInv'
<1>1. /\ lqAt = "next" /\ p \in Liquid!Quoted \ lqTried /\ lqCur' = p /\ lqTried' = lqTried \cup {p}
      /\ lqAt' \in {"buy", "http"}
      /\ UNCHANGED <<lqCfg, lqQuote, lqLate, lqExec, lqRecord, lqOut, lqBought, lqSent, lqUnclear>>
      /\ \A q \in Liquid!Quoted \ lqTried : q = p \/ Liquid!SortQuotes(p, q)
  BY DEF Liquid!ExecuteNext, Liquid!result, Liquid!external
<1>2. LiquidTyped' /\ BeforeQuotes'
  BY <1>1 DEF LiquidInv, LiquidTyped, BeforeQuotes
<1>3. AskedInOrder'
  <2> SUFFICES ASSUME NEW r \in lqTried', NEW q \in Liquid!Quoted, Liquid!SortQuotes(q, r)
               PROVE  q \in lqTried'
    BY <1>1 DEF AskedInOrder, Liquid!Quoted, Liquid!SortQuotes
  <2>1. CASE r \in lqTried
    BY <1>1, <2>1 DEF LiquidInv, AskedInOrder
  <2>2. CASE r = p
    <3>1. q \in LiqProviders /\ ~Liquid!SortQuotes(p, q) /\ q # p
      BY <2>2, OrderOfQuotes DEF LiquidInv, Liquid!Quoted
    <3> QED BY <1>1, <3>1
  <2> QED BY <1>1, <2>1, <2>2
<1>4. Attempting' /\ BeingAsked' /\ Deciding' /\ RecordWritten'
  BY <1>1 DEF LiquidInv, Attempting, BeingAsked, Deciding, RecordWritten, Undelivered
<1> QED BY <1>2, <1>3, <1>4 DEF LiquidInv

(* Whoever is asked refuses, goes on, or accepts, having delivered or not. *)
LEMMA AnswerKeeps ==
  ASSUME LiquidAssumption, LiquidInv, lqAt \in {"http", "buy", "withdraw"},
         UNCHANGED <<lqCfg, lqQuote, lqLate, lqTried, lqCur, lqRecord, lqOut>>,
         lqUnclear' \in BOOLEAN, lqUnclear => lqUnclear',
         lqSent' \in {lqSent, lqSent \cup {lqCur}},
         \/ /\ lqAt' \in {"next", "withdraw"} /\ UNCHANGED lqExec
            /\ UNCHANGED lqSent \/ lqUnclear'
         \/ /\ lqAt' = "record" /\ \E s : lqExec' = [prov |-> lqCur, status |-> s]
            /\ lqExec'.status = "sent" => lqCur \in lqSent'
            /\ lqCur \in lqSent' \/ lqBought' \/ lqCfg.bingx = "trade"
  PROVE  LiquidInv'
<1>1. lqCur \in LiqProviders /\ lqCur # None
  BY DEF LiquidInv, BeingAsked, LiquidAssumption
<1>2. LiquidTyped'
  <2>1. IsFiniteSet(lqSent')
    BY FS_AddElement DEF LiquidInv, LiquidTyped
  <2> QED BY <1>1, <2>1 DEF LiquidInv, LiquidTyped
<1>3. BeforeQuotes' /\ AskedInOrder' /\ BeingAsked'
  BY <1>1 DEF LiquidInv, BeforeQuotes, AskedInOrder, BeingAsked, Liquid!Quoted, Liquid!SortQuotes
<1>4. lqExec = Liquid!NoExec /\ lqRecord = Liquid!NoExec /\ lqOut = "enviando" /\ Undelivered
  BY DEF LiquidInv, Attempting
<1>5. CASE lqAt' \in {"next", "withdraw"} /\ UNCHANGED lqExec /\ (UNCHANGED lqSent \/ lqUnclear')
  BY <1>2, <1>3, <1>4, <1>5 DEF LiquidInv, Attempting, Deciding, RecordWritten, Undelivered
<1>6. CASE /\ lqAt' = "record" /\ \E s : lqExec' = [prov |-> lqCur, status |-> s]
           /\ lqExec'.status = "sent" => lqCur \in lqSent'
           /\ lqCur \in lqSent' \/ lqBought' \/ lqCfg.bingx = "trade"
  <2>1. lqExec'.prov = lqCur
    BY <1>6
  <2>2. lqUnclear' \/ lqSent' \subseteq {lqCur}
    BY <1>4 DEF Undelivered
  <2>3. Accepted'
    BY <1>1, <1>4, <1>6, <2>1, <2>2 DEF Accepted
  <2>4. lqExec' # Liquid!NoExec
    BY <1>1, <2>1 DEF Liquid!NoExec
  <2> QED BY <1>2, <1>3, <1>4, <1>6, <2>3, <2>4 DEF LiquidInv, Attempting, Deciding, RecordWritten
<1> QED BY <1>5, <1>6

LEMMA AttemptKeeps ==
  ASSUME LiquidAssumption, LiquidInv, Liquid!ExecuteHTTP \/ Liquid!PlaceMarketBuy \/ Liquid!Withdraw
  PROVE  LiquidInv'
<1> USE DEF Liquid!Refused, Liquid!Accept
<1>0. lqUnclear \in BOOLEAN
  BY DEF LiquidInv, LiquidTyped
<1>1. CASE Liquid!ExecuteHTTP
  BY <1>0, <1>1, AnswerKeeps DEF Liquid!ExecuteHTTP
<1>2. CASE Liquid!PlaceMarketBuy
  <2>1. /\ lqAt = "buy" /\ UNCHANGED <<lqCfg, lqQuote, lqLate, lqTried, lqCur, lqRecord, lqOut, lqSent>>
        /\ lqUnclear' \in BOOLEAN /\ (lqUnclear => lqUnclear')
        /\ \/ lqAt' \in {"next", "withdraw"} /\ UNCHANGED lqExec
           \/ /\ lqCfg.bingx = "trade" /\ lqAt' = "record"
              /\ lqExec' = [prov |-> lqCur, status |-> "pending_withdrawal"]
    BY <1>0, <1>2 DEF Liquid!PlaceMarketBuy
  <2> QED BY <2>1, AnswerKeeps
<1>3. CASE Liquid!Withdraw
  BY <1>0, <1>3, AnswerKeeps DEF Liquid!Withdraw
<1> QED BY <1>1, <1>2, <1>3

(* What comes of the attempts.                                             *)
LEMMA OutcomeKeeps ==
  ASSUME LiquidAssumption, LiquidInv, Liquid!NoProviderLeft \/ Liquid!RecordExecution \/ Liquid!WriteStatus
  PROVE  LiquidInv'
<1> USE DEF Liquid!result, Liquid!external
<1>1. LiquidTyped' /\ BeforeQuotes' /\ AskedInOrder' /\ BeingAsked' /\ Attempting'
  BY DEF Liquid!NoProviderLeft, Liquid!RecordExecution, Liquid!WriteStatus, LiquidInv, LiquidTyped,
         BeforeQuotes, AskedInOrder, BeingAsked, Attempting, Liquid!Quoted, Liquid!SortQuotes
<1>2. CASE Liquid!NoProviderLeft
  BY <1>1, <1>2 DEF Liquid!NoProviderLeft, LiquidInv, Attempting, Deciding, RecordWritten, Undelivered
<1>3. CASE Liquid!RecordExecution
  <2>1. /\ lqAt = "record" /\ lqAt' = "write" /\ lqRecord' \in {Liquid!NoExec} \cup Liquid!LiquidityExecutionRecord
        /\ UNCHANGED <<lqExec, lqOut, lqBought, lqSent, lqUnclear, lqCfg>>
    BY <1>3 DEF Liquid!RecordExecution
  <2>2. lqExec # Liquid!NoExec => lqRecord' = Liquid!NoExec \/ lqRecord'.prov = lqExec.prov
    BY <2>1 DEF Liquid!LiquidityExecutionRecord
  <2>3. Deciding'
    BY <2>1, <2>2 DEF LiquidInv, Deciding, Accepted, Undelivered
  <2>4. RecordWritten'
    BY <2>1 DEF LiquidInv, RecordWritten
  <2> QED BY <1>1, <2>3, <2>4 DEF LiquidInv
<1>4. CASE Liquid!WriteStatus
  <2>1. /\ lqAt = "write" /\ lqAt' = "done" /\ UNCHANGED <<lqExec, lqRecord, lqBought, lqSent, lqCfg>>
        /\ lqUnclear => lqUnclear'
    BY <1>4 DEF Liquid!WriteStatus
  <2>2. Deciding'
    BY <2>1 DEF LiquidInv, Deciding, Accepted, Undelivered
  <2>3. RecordWritten'
    BY <1>4, <2>1 DEF LiquidInv, RecordWritten, Liquid!WriteStatus
  <2> QED BY <1>1, <2>2, <2>3 DEF LiquidInv
<1> QED BY <1>2, <1>3, <1>4

LEMMA LiquidNext == LiquidAssumption /\ LiquidInv /\ [Liquid!Next]_Liquid!vars => LiquidInv'
<1> SUFFICES ASSUME LiquidAssumption, LiquidInv, [Liquid!Next]_Liquid!vars PROVE LiquidInv'
  OBVIOUS
<1>1. CASE UNCHANGED Liquid!vars
  BY <1>1 DEF Liquid!vars, LiquidInv, LiquidTyped, BeforeQuotes, AskedInOrder, Attempting, BeingAsked, Deciding,
              RecordWritten, Undelivered, Accepted, Liquid!Quoted, Liquid!SortQuotes
<1>2. CASE Liquid!Next
  BY <1>2, RoutingKeeps, NextIsAsked, AttemptKeeps, OutcomeKeeps DEF Liquid!Next
<1> QED BY <1>1, <1>2

(* What the app and the web take is what they list, and can be delivered.  *)
LEMMA OffersAreRouted == LiquidAssumption /\ LiquidInv => Liquid!OfferedIsRoutable
<1> SUFFICES ASSUME LiquidAssumption, LiquidInv PROVE Liquid!OfferedIsRoutable
  OBVIOUS
<1> USE DEF Liquid!HydrateAndValidateMobile, Liquid!HydrateAndValidateBuyPair, Liquid!HydrateAndValidate,
            Liquid!ContainsCSVFoldMobile, Liquid!ContainsCSVFoldServer, Liquid!ContainsCSVFold
<1>1. lqCfg \in Liquid!Config /\ lqCfg \in LiqConfigs
  BY DEF LiquidInv, LiquidTyped, LiquidAssumption
<1>2. Liquid!BuyPairSupported(lqCfg) => Liquid!SupportedPairs(lqCfg)
  BY DEF Liquid!BuyPairSupported, Liquid!SupportedPairs
<1>3. Liquid!ResolveExecutableBuyPair(lqCfg) => Liquid!ExecutableBuyPairs(lqCfg)
  BY DEF Liquid!ResolveExecutableBuyPair, Liquid!ExecutableBuyPairs
<1>4. ASSUME Liquid!BuyPairSupported(lqCfg) \/ Liquid!ResolveExecutableBuyPair(lqCfg)
      PROVE  Liquid!HotWalletSupported(lqCfg) \/
             (lqCfg.router /\ Liquid!ResolveLiquidityPair(lqCfg) /\ (lqCfg.http \/ lqCfg.bingx = "withdraw"))
  BY <1>1, <1>4 DEF Liquid!BuyPairSupported, Liquid!ResolveExecutableBuyPair, Liquid!ResolveMobileLiquidityPair,
         Liquid!BuyPairHasExecutionRoute, Liquid!ServerPairHasExecutionRoute, Liquid!HotWalletSupported,
         Liquid!ResolveLiquidityPair
<1>5. ASSUME lqCfg.http \/ lqCfg.bingx = "withdraw"
      PROVE  \E p \in Liquid!Routed(lqCfg) : p = LiqBingX => lqCfg.bingx = "withdraw"
  <2>1. CASE lqCfg.http
    <3>1. PICK p \in LiqProviders : p # LiqBingX
      BY <1>1, <2>1 DEF LiquidAssumption
    <3> QED BY <2>1, <3>1 DEF Liquid!Routed
  <2>2. CASE lqCfg.bingx = "withdraw"
    <3>1. LiqBingX \in LiqProviders
      BY <1>1, <2>2 DEF LiquidAssumption
    <3> QED BY <2>2, <3>1 DEF Liquid!Routed
  <2> QED BY <1>5, <2>1, <2>2
<1>6. Liquid!BuyPairSupported(lqCfg) \/ Liquid!ResolveExecutableBuyPair(lqCfg) =>
        \/ Liquid!HotWalletSupported(lqCfg)
        \/ /\ lqCfg.router /\ Liquid!ResolveLiquidityPair(lqCfg)
           /\ \E p \in Liquid!Routed(lqCfg) : p = LiqBingX => lqCfg.bingx = "withdraw"
  BY <1>4, <1>5
<1> QED BY <1>2, <1>3, <1>6 DEF Liquid!OfferedIsRoutable

LEMMA LiquidInvEnough ==
  LiquidAssumption /\ LiquidInv => Liquid!PaidTwiceIsUnclear /\ Liquid!OrderTellsWhoPaid
<1> SUFFICES ASSUME LiquidAssumption, LiquidInv PROVE Liquid!PaidTwiceIsUnclear /\ Liquid!OrderTellsWhoPaid
  OBVIOUS
<1>1. ASSUME ~lqUnclear PROVE Cardinality(lqSent) + (IF lqOut = "hot" THEN 1 ELSE 0) <= 1
  <2>1. CASE lqSent = {}
    BY <2>1, FS_EmptySet
  <2>2. CASE lqSent # {}
    <3>1. lqExec # Liquid!NoExec /\ lqSent = {lqExec.prov} /\ lqOut # "hot"
      BY <1>1, <2>2 DEF LiquidInv, LiquidTyped, Attempting, Deciding, Accepted, Undelivered, RecordWritten
    <3>2. Cardinality(lqSent) = 1
      BY <3>1, FS_Singleton
    <3> QED BY <3>1, <3>2
  <2> QED BY <2>1, <2>2
<1>2. Cardinality(lqSent) \in Nat
  BY FS_CardinalityType DEF LiquidInv, LiquidTyped
<1>3. Liquid!PaidTwiceIsUnclear
  <2>1. CASE lqUnclear
    BY <2>1 DEF Liquid!PaidTwiceIsUnclear
  <2>2. CASE ~lqUnclear
    <3>1. ~(Cardinality(lqSent) + (IF lqOut = "hot" THEN 1 ELSE 0) > 1)
      BY <1>1, <1>2, <2>2
    <3>2. Liquid!Cardinality(lqSent) = Cardinality(lqSent)
      BY DEF Liquid!Cardinality, Cardinality, Liquid!IsFiniteSet, IsFiniteSet
    <3> QED BY <3>1, <3>2 DEF Liquid!PaidTwiceIsUnclear
  <2> QED BY <2>1, <2>2
<1>4. Liquid!OrderTellsWhoPaid
  BY DEF LiquidInv, AskedInOrder, Deciding, Accepted, RecordWritten, Liquid!OrderTellsWhoPaid
<1> QED BY <1>3, <1>4

(* The pairs that the app or the web accepts can be delivered; a customer  *)
(* is paid twice only after an answer that was lost or a write that        *)
(* failed; and an order names the provider who paid, asked in the order of *)
(* the quotes.                                                             *)
THEOREM RouterTellsWhoPaid ==
  ASSUME LiquidAssumption
  PROVE  Liquid!Spec =>
            [](Liquid!OfferedIsRoutable /\ Liquid!PaidTwiceIsUnclear /\ Liquid!OrderTellsWhoPaid)
BY LiquidInit, LiquidNext, OffersAreRouted, LiquidInvEnough, PTL DEF Liquid!Spec

-----------------------------------------------------------------------------
(* The catalog and the intents of the MCP server, for any number of calls, *)
(* callers, keys and addresses, and any durations.                         *)
CONSTANTS McCalls, McCallers, McAnonymous, McAsked, McLimit, McWindow, McCatalogTtl, McRouteTtl, McLife,
          McMaxTime, McKeys, McTypes, McRates, McAddresses, McAttempts
VARIABLES mpNow, mpBucket, mpAdmitted, mpCall, mpCache, mpBuild, mpAnswers, mpIntent, mpEvent
Mcp == INSTANCE McpServer WITH Calls <- McCalls, Callers <- McCallers, Anonymous <- McAnonymous,
    Asked <- McAsked, Limit <- McLimit, Window <- McWindow, CatalogTtl <- McCatalogTtl, RouteTtl <- McRouteTtl,
    Life <- McLife, MaxTime <- McMaxTime, Keys <- McKeys, PaymentTypes <- McTypes, Rates <- McRates,
    Addresses <- McAddresses, MaxAttempts <- McAttempts, now <- mpNow, bucket <- mpBucket,
    admitted <- mpAdmitted, call <- mpCall, cache <- mpCache, build <- mpBuild, answers <- mpAnswers,
    intent <- mpIntent, event <- mpEvent

McpAssumption ==
    /\ McCatalogTtl \in Nat /\ McRouteTtl \in Nat
    /\ None \notin Nat /\ None \notin McCalls
    /\ \A y, f, p, a : None # [type |-> y, fee |-> f, rate |-> p, address |-> a]

(* The shape of a call, whatever its fields hold.                          *)
IsCall(r) == r \in [at : {r.at}, who : {r.who}, tool : {r.tool}, left : {r.left}, looked : {r.looked},
                    started : {r.started}, floor : {r.floor}, read : {r.read}, key : {r.key},
                    type : {r.type}, offer : {r.offer}, tries : {r.tries},
                    told : [what : {r.told.what}, value : {r.told.value}]]
Building == {"read", "publish"}
InCatalog == {"look", "join", "read", "publish"}
WellMade(r) == /\ IsCall(r) /\ r.left \in Seq(Mcp!Entries) /\ r.floor \in Nat
               /\ r.at \in InCatalog => r.left # <<>>
CallsMade == mpCall = [c \in McCalls |-> mpCall[c]] /\ \A c \in McCalls : WellMade(mpCall[c])

LEMMA LooksUpEntries == \A t : Mcp!LooksUp(t) \in Seq(Mcp!Entries)
<1> SUFFICES ASSUME NEW t PROVE Mcp!LooksUp(t) \in Seq(Mcp!Entries)
  OBVIOUS
<1>1. \/ Mcp!LooksUp(t) = <<>> \/ Mcp!LooksUp(t) = <<"dry_capability", "dry_routes">>
      \/ \E e \in Mcp!Entries : Mcp!LooksUp(t) = <<e>>
  BY DEF Mcp!LooksUp, Mcp!Entries, Mcp!PublicResources
<1>2. <<>> \in Seq(Mcp!Entries) /\ <<"dry_capability", "dry_routes">> \in Seq(Mcp!Entries)
  BY DEF Mcp!Entries
<1>3. \A e \in Mcp!Entries : <<e>> \in Seq(Mcp!Entries)
  OBVIOUS
<1> QED BY <1>1, <1>2, <1>3

(* A call that ends says one thing.                                        *)
Say(r, s, w, v) == [r EXCEPT !.at = s, !.told = [what |-> w, value |-> v]]
LEMMA Says ==
  ASSUME NEW r, WellMade(r), NEW s, s \notin InCatalog, NEW w, NEW v
  PROVE  /\ WellMade(Say(r, s, w, v)) /\ Say(r, s, w, v).at = s /\ Say(r, s, w, v).key = r.key
         /\ Say(r, s, w, v).told.what = w /\ Say(r, s, w, v).told.value = v
<1> DEFINE n == Say(r, s, w, v)
<1> USE DEF Say
<1>1. IsCall(r)
  BY DEF WellMade
<1>2. n.at = s /\ n.key = r.key /\ n.left = r.left /\ n.floor = r.floor /\ n.told = [what |-> w, value |-> v]
  BY <1>1 DEF IsCall
<1>3. n \in [at : {s}, who : {r.who}, tool : {r.tool}, left : {r.left}, looked : {r.looked},
             started : {r.started}, floor : {r.floor}, read : {r.read}, key : {r.key},
             type : {r.type}, offer : {r.offer}, tries : {r.tries}, told : {[what |-> w, value |-> v]}]
  BY <1>1 DEF IsCall
<1>4. IsCall(n)
  <2> HIDE DEF n
  <2> QED BY <1>3 DEF IsCall
<1> HIDE DEF n
<1>5. WellMade(n)
  BY <1>2, <1>4 DEF WellMade
<1> QED BY <1>2, <1>5 DEF n

LEMMA AskEnded ==
  ASSUME NEW r, WellMade(r), NEW w, NEW v, NEW n, n = Mcp!Done(r, w, v)
  PROVE  WellMade(n) /\ n.at = "done" /\ n.key = r.key /\ n.told.what = w /\ n.told.value = v
<1>1. n = Say(r, "done", w, v) /\ "done" \notin InCatalog
  BY DEF Mcp!Done, Mcp!Told, InCatalog, Say
<1> QED BY <1>1, Says

LEMMA AskMoved ==
  ASSUME NEW r, WellMade(r), NEW s, s \notin InCatalog, NEW n, n = [r EXCEPT !.at = s]
  PROVE  WellMade(n) /\ n.at = s /\ n.key = r.key /\ n.told = r.told /\ n.offer = r.offer
BY DEF WellMade, IsCall

LEMMA Entered ==
  ASSUME NEW r, WellMade(r), NEW n, n = Mcp!Enter(r)
  PROVE  /\ WellMade(n) /\ n.key = r.key
         /\ n.at \in {"look", "prepare", "record", "ask", "done"}
         /\ n.at \in {"prepare", "record", "ask"} => r.tool \in Mcp!Financial \cup Mcp!StatusTools
         /\ n.told = r.told \/ n.told.what \in {"ok", "error"}
<1>1. Mcp!LooksUp(r.tool) \in Seq(Mcp!Entries)
  BY LooksUpEntries
<1>2. CASE Mcp!LooksUp(r.tool) # <<>>
  <2>1. n = [r EXCEPT !.at = "look", !.left = Mcp!LooksUp(r.tool)]
    BY <1>2 DEF Mcp!Enter, Mcp!LooksUp, Mcp!PublicResources, Mcp!StatusTools, Mcp!Writing
  <2> QED BY <1>1, <1>2, <2>1 DEF WellMade, IsCall, InCatalog
<1>3. CASE Mcp!LooksUp(r.tool) = <<>>
  <2>1. \/ n = [r EXCEPT !.at = "prepare"] /\ r.tool = "createPaymentIntent"
        \/ n = [r EXCEPT !.at = "record"] /\ r.tool = "executeCapability"
        \/ n = [r EXCEPT !.at = "ask"] /\ r.tool \in Mcp!StatusTools
        \/ n = Mcp!Done(r, "ok", None) \/ n = Mcp!Done(r, "error", None)
    BY <1>3 DEF Mcp!Enter, Mcp!StatusTools, Mcp!Writing
  <2>2. CASE \/ n = [r EXCEPT !.at = "prepare"] /\ r.tool = "createPaymentIntent"
             \/ n = [r EXCEPT !.at = "record"] /\ r.tool = "executeCapability"
             \/ n = [r EXCEPT !.at = "ask"] /\ r.tool \in Mcp!StatusTools
    BY <2>2, AskMoved DEF InCatalog, Mcp!Financial
  <2>3. CASE n = Mcp!Done(r, "ok", None) \/ n = Mcp!Done(r, "error", None)
    BY <2>3, AskEnded
  <2> QED BY <2>1, <2>2, <2>3
<1> QED BY <1>2, <1>3

(* What leaves the gate has the key of the request, and is told of no      *)
(* intent there.                                                           *)
LEMMA GateOpens ==
  ASSUME NEW r, WellMade(r), NEW n \in Mcp!LetIn(r)
  PROVE  /\ WellMade(n) /\ n.key = r.key
         /\ n.at \in {"look", "prepare", "record", "ask", "done"}
         /\ n.at \in {"prepare", "record", "ask"} => r.tool \in Mcp!Financial \cup Mcp!StatusTools
         /\ n.told = r.told \/ n.told.what \notin {"intent", "real_completed"}
<1>1. n = Mcp!Enter(r) \/ \E w \in {"unauthorized", "analysis", "fallback", "authRequired"} : n = Mcp!Done(r, w, None)
  BY DEF Mcp!LetIn, Mcp!Authorized, Mcp!CallAI
<1>2. CASE n = Mcp!Enter(r)
  BY <1>2, Entered
<1>3. ASSUME NEW w \in {"unauthorized", "analysis", "fallback", "authRequired"}, n = Mcp!Done(r, w, None)
      PROVE  WellMade(n) /\ n.key = r.key /\ n.at = "done" /\ n.told.what \notin {"intent", "real_completed"}
  BY <1>3, AskEnded
<1> QED BY <1>1, <1>2, <1>3

LEMMA Asking ==
  ASSUME NEW x, NEW t, NEW k, NEW y, NEW n, n = Mcp!Request(x, t, k, y)
  PROVE  /\ WellMade(n) /\ n.tool = t /\ n.told.what = "nothing"
         /\ t \in Mcp!Financial \cup Mcp!StatusTools => n.key = k
<1>1. PICK q, z : n = [at |-> "idle", who |-> x, tool |-> t, left |-> <<>>, looked |-> 0, started |-> 0,
         floor |-> 0, read |-> None, key |-> q, type |-> z, offer |-> None, tries |-> 0,
         told |-> [what |-> "nothing", value |-> None]]
         /\ (t \in Mcp!Financial \cup Mcp!StatusTools => q = k)
  <2>1. CASE t \in Mcp!Financial \cup Mcp!StatusTools
    BY <2>1 DEF Mcp!Request, Mcp!Idle, Mcp!Told
  <2>2. CASE t \notin Mcp!Financial \cup Mcp!StatusTools
    BY <2>2 DEF Mcp!Request, Mcp!Idle, Mcp!Told
  <2> QED BY <2>1, <2>2
<1>2. IsCall(n)
  BY <1>1 DEF IsCall
<1>3. <<>> \in Seq(Mcp!Entries) /\ n.left = <<>> /\ n.floor = 0 /\ n.at = "idle" /\ n.tool = t
      /\ n.told.what = "nothing" /\ n.key = q
  BY <1>1
<1> QED BY <1>1, <1>2, <1>3 DEF WellMade, InCatalog

(* What a caller makes of a value of the catalog.                          *)
LEMMA IsGiven ==
  ASSUME NEW r, WellMade(r), r.at \in InCatalog, NEW v, NEW n, n = Mcp!Given(r, v)
  PROVE  /\ WellMade(n) /\ n.key = r.key /\ n.at \in {"look", "done"}
         /\ n.told = r.told \/ n.told.what \in {"error", "catalog"}
<1>1. CASE n = Mcp!Done(r, "error", None)
  BY <1>1, AskEnded
<1>2. CASE n = [Mcp!Done(r, "catalog", v) EXCEPT !.left = <<>>]
  <2>1. PICK d : d = Mcp!Done(r, "catalog", v) /\ n = [d EXCEPT !.left = <<>>]
    BY <1>2
  <2>2. WellMade(d) /\ d.at = "done" /\ d.key = r.key /\ d.told.what = "catalog"
    BY <2>1, AskEnded
  <2>3. IsCall(n) /\ n.at = "done" /\ n.key = r.key /\ n.told.what = "catalog" /\ n.left = <<>> /\ n.floor = d.floor
    BY <2>1, <2>2 DEF WellMade, IsCall
  <2> QED BY <2>2, <2>3 DEF WellMade, InCatalog
<1>3. CASE n = [r EXCEPT !.at = "look", !.left = Tail(r.left)] /\ Len(r.left) # 1
  <2>1. r.left \in Seq(Mcp!Entries) /\ r.left # <<>>
    BY DEF WellMade
  <2>2. Len(r.left) \in Nat \ {0} /\ Tail(r.left) \in Seq(Mcp!Entries) /\ Len(Tail(r.left)) = Len(r.left) - 1
    BY <2>1, HeadTailProperties, EmptySeq
  <2>3. Tail(r.left) # <<>>
    <3>1. Len(Tail(r.left)) # 0 /\ Len(<<>>) = 0
      BY <1>3, <2>2
    <3> QED BY <3>1
  <2>4. IsCall(n) /\ n.at = "look" /\ n.key = r.key /\ n.told = r.told /\ n.left = Tail(r.left) /\ n.floor = r.floor
    BY <1>3 DEF WellMade, IsCall
  <2> QED BY <2>2, <2>3, <2>4 DEF WellMade
<1> QED BY <1>1, <1>2, <1>3 DEF Mcp!Given

(* A build is the only one of its entry, reads after it began, and what it *)
(* has read is no older than what the cache has, nor than what who waits   *)
(* for it could have seen.                                                 *)
Of(c) == Head(mpCall[c].left)
CatalogTyped ==
    /\ mpNow \in Nat /\ CallsMade
    /\ mpCache \in [Mcp!Entries -> [read : Nat \cup {None}, until : Nat]]
    /\ mpBuild \in [Mcp!Entries -> McCalls \cup {None}]
NotNewer(e, v) == mpCache[e].read # None => mpCache[e].read <= v
Builds(c) == mpCall[c].at \in Building =>
    /\ mpBuild[Of(c)] = c /\ mpCall[c].started \in Nat /\ mpCall[c].started <= mpNow
    /\ mpCall[c].at = "publish" /\ mpCall[c].read # None =>
          /\ mpCall[c].read \in Nat /\ mpCall[c].started <= mpCall[c].read /\ mpCall[c].read <= mpNow
          /\ NotNewer(Of(c), mpCall[c].read)
Joins(c) == mpCall[c].at = "join" => mpBuild[Of(c)] # None
Seen(c) == mpCall[c].at \in {"join", "read", "publish"} =>
    mpCall[c].floor = 0 \/ (mpCache[Of(c)].read # None /\ mpCall[c].floor <= mpCache[Of(c)].read)
Built(e) == mpBuild[e] # None => mpCall[mpBuild[e]].at \in Building /\ Of(mpBuild[e]) = e
Cached(e) == IF mpCache[e].read = None THEN mpCache[e].until = 0
             ELSE mpCache[e].read <= mpNow /\ mpCache[e].until <= mpCache[e].read + Mcp!Ttl(e)
Answered(a) == /\ a.entry \in Mcp!Entries /\ a.read \in Nat
               /\ mpCache[a.entry].read # None /\ a.read <= mpCache[a.entry].read
               /\ a.read >= a.floor
               /\ a.cached => a.looked < a.read + Mcp!Ttl(a.entry)
CatalogInv ==
    /\ CatalogTyped /\ \A c \in McCalls : Builds(c) /\ Joins(c) /\ Seen(c)
    /\ \A e \in Mcp!Entries : Built(e) /\ Cached(e)
    /\ \A a \in mpAnswers : Answered(a)

LEMMA IdleMade == WellMade(Mcp!Idle) /\ Mcp!Idle.at = "idle"
BY DEF Mcp!Idle, Mcp!Told, WellMade, IsCall, InCatalog

LEMMA CatalogInit == McpAssumption /\ Mcp!Init => CatalogInv
<1> SUFFICES ASSUME McpAssumption, Mcp!Init PROVE CatalogInv
  OBVIOUS
<1>1. CatalogTyped
  BY IdleMade DEF Mcp!Init, CatalogTyped, CallsMade
<1>2. \A c \in McCalls : Builds(c) /\ Joins(c) /\ Seen(c)
  BY IdleMade DEF Mcp!Init, Builds, Building, Joins, Seen
<1>3. \A e \in Mcp!Entries : Built(e) /\ Cached(e)
  BY DEF Mcp!Init, Built, Cached
<1>4. \A a \in mpAnswers : Answered(a)
  BY DEF Mcp!Init
<1> QED BY <1>1, <1>2, <1>3, <1>4 DEF CatalogInv

LEMMA OfIsEntry ==
  ASSUME CallsMade, NEW c \in McCalls, mpCall[c].at \in InCatalog
  PROVE  Of(c) \in Mcp!Entries /\ mpCall[c].left \in Seq(Mcp!Entries) /\ mpCall[c].left # <<>>
BY HeadTailProperties DEF CallsMade, WellMade, Of

LEMMA TtlIsNat == McpAssumption => \A e : Mcp!Ttl(e) \in Nat
BY DEF McpAssumption, Mcp!Ttl

(* A step of a call outside the catalog.                                   *)
Elsewhere(c, n) ==
    /\ mpCall' = [mpCall EXCEPT ![c] = n] /\ WellMade(n)
    /\ mpCall[c].at \notin {"join", "read", "publish"} /\ n.at \notin {"join", "read", "publish"}

LEMMA OneCall ==
  ASSUME CallsMade, NEW c \in McCalls, NEW n, WellMade(n), mpCall' = [mpCall EXCEPT ![c] = n]
  PROVE  CallsMade' /\ mpCall'[c] = n /\ \A d \in McCalls : d # c => mpCall'[d] = mpCall[d]
<1>1. /\ mpCall'[c] = n /\ \A d \in McCalls : d # c => mpCall'[d] = mpCall[d]
  BY DEF CallsMade
<1>2. mpCall' = [d \in McCalls |-> mpCall'[d]]
  BY DEF CallsMade
<1> QED BY <1>1, <1>2 DEF CallsMade

LEMMA StepOfOne ==
  ASSUME CatalogInv, NEW c \in McCalls, NEW n, Elsewhere(c, n),
         UNCHANGED <<mpNow, mpCache, mpBuild>>, \A a \in mpAnswers' : Answered(a)'
  PROVE  CatalogInv'
<1>1. CallsMade' /\ mpCall'[c] = n /\ \A d \in McCalls : d # c => mpCall'[d] = mpCall[d]
  BY OneCall DEF CatalogInv, CatalogTyped, Elsewhere
<1>2. CatalogTyped'
  BY <1>1 DEF CatalogInv, CatalogTyped
<1>3. ASSUME NEW d \in McCalls PROVE Builds(d)' /\ Joins(d)' /\ Seen(d)'
  <2>1. CASE d = c
    BY <1>1, <2>1 DEF Elsewhere, Builds, Building, Joins, Seen
  <2>2. CASE d # c
    <3>1. mpCall'[d] = mpCall[d] /\ Of(d)' = Of(d)
      BY <1>1, <2>2 DEF Of
    <3> QED BY <3>1 DEF CatalogInv, Builds, Joins, Seen, NotNewer
  <2> QED BY <2>1, <2>2
<1>4. ASSUME NEW e \in Mcp!Entries PROVE Built(e)' /\ Cached(e)'
  <2>1. Built(e)'
    <3>1. CASE mpBuild[e] = None
      BY <3>1 DEF Built
    <3>2. CASE mpBuild[e] # None
      <4>1. mpBuild[e] \in McCalls /\ mpCall[mpBuild[e]].at \in Building /\ Of(mpBuild[e]) = e
        BY <3>2 DEF CatalogInv, CatalogTyped, Built
      <4>2. mpCall'[mpBuild[e]] = mpCall[mpBuild[e]]
        BY <1>1, <4>1 DEF Elsewhere, Building
      <4> QED BY <4>1, <4>2 DEF Built, Of
    <3> QED BY <3>1, <3>2
  <2>2. Cached(e)'
    BY DEF CatalogInv, Cached
  <2> QED BY <2>1, <2>2
<1> QED BY <1>2, <1>3, <1>4 DEF CatalogInv

LEMMA ElsewhereKeeps ==
  ASSUME CatalogInv, NEW c \in McCalls, NEW n, Elsewhere(c, n),
         UNCHANGED <<mpNow, mpCache, mpBuild, mpAnswers>>
  PROVE  CatalogInv'
<1>1. \A a \in mpAnswers' : Answered(a)'
  BY DEF CatalogInv, Answered
<1> QED BY <1>1, StepOfOne

(* The greatest of bounded numbers is one of them.                         *)
LEMMA GreatestIsIn ==
  ASSUME NEW S, S \subseteq Nat, S # {}, NEW N \in Nat, \A x \in S : x <= N
  PROVE  Mcp!Max(S) \in S
<1> DEFINE T == {n \in Nat : \A x \in S : x <= n}
<1>1. PICK m \in T : \A n \in T : ~(<<n, m>> \in OpToRel(<, Nat))
  <2>1. T \subseteq Nat /\ T # {}
    OBVIOUS
  <2> QED BY <2>1, NatLessThanWellFounded, WFMin
<1>2. \A n \in T : ~(n < m)
  BY <1>1, Zenon DEF OpToRel
<1>5. m \in Nat /\ \A x \in S : x \in Nat /\ x <= m
  BY <1>1
<1>3. m \in S
  <2>1. CASE m = 0
    <3>1. PICK x \in S : TRUE
      OBVIOUS
    <3>2. x = m
      BY <1>5, <2>1, <3>1
    <3> QED BY <3>1, <3>2
  <2>2. CASE m # 0 /\ m \notin S
    <3>1. m - 1 \in Nat /\ m - 1 < m
      BY <1>5, <2>2
    <3>2. ASSUME NEW x \in S PROVE x <= m - 1
      <4>1. x \in Nat /\ x <= m /\ x # m
        BY <1>5, <2>2
      <4> QED BY <1>5, <4>1
    <3>3. m - 1 \in T
      BY <3>1, <3>2
    <3> QED BY <1>2, <3>1, <3>3
  <2> QED BY <2>1, <2>2
<1>4. \A x \in S : m >= x
  BY <1>5
<1> QED BY <1>3, <1>4 DEF Mcp!Max

(* The latest answer of an entry is none that the cache does not have.     *)
LEMMA LatestIsCached ==
  ASSUME CatalogInv, NEW e \in Mcp!Entries
  PROVE  /\ Mcp!Latest(e) \in Nat
         /\ Mcp!Latest(e) = 0 \/ (mpCache[e].read # None /\ Mcp!Latest(e) <= mpCache[e].read)
<1> DEFINE S == {a.read : a \in {b \in mpAnswers : b.entry = e}} \cup {0}
<1>1. \A x \in S : x \in Nat /\ (x = 0 \/ (mpCache[e].read # None /\ x <= mpCache[e].read))
  BY DEF CatalogInv, Answered
<1>2. mpCache[e].read \in Nat \cup {None}
  BY DEF CatalogInv, CatalogTyped
<1>3. PICK N \in Nat : \A x \in S : x <= N
  <2>1. CASE mpCache[e].read = None
    BY <1>1, <2>1
  <2>2. CASE mpCache[e].read \in Nat
    BY <1>1, <2>2
  <2> QED BY <1>2, <2>1, <2>2
<1>4. S \subseteq Nat /\ S # {}
  BY <1>1
<1>5. Mcp!Max(S) \in S
  BY <1>3, <1>4, GreatestIsIn
<1>6. Mcp!Latest(e) = Mcp!Max(S)
  BY DEF Mcp!Latest
<1> HIDE DEF S
<1> QED BY <1>1, <1>5, <1>6

(* Who looks finds the value in the cache, joins a build or begins one.    *)
LEMMA CacheLookKeeps ==
  ASSUME McpAssumption, CatalogInv, NEW c \in McCalls, Mcp!Look(c)
  PROVE  CatalogInv'
<1> DEFINE e == Of(c)
           r == [mpCall[c] EXCEPT !.looked = mpNow, !.floor = Mcp!Latest(e)]
<1>1. /\ mpCall[c].at = "look" /\ WellMade(mpCall[c]) /\ CallsMade /\ e \in Mcp!Entries
      /\ UNCHANGED <<mpNow, mpCache>> /\ mpNow \in Nat
  BY OfIsEntry DEF Mcp!Look, Mcp!NoGate, Mcp!NoMoney, CatalogInv, CatalogTyped, CallsMade, InCatalog
<1>2. /\ Mcp!Latest(e) \in Nat
      /\ Mcp!Latest(e) = 0 \/ (mpCache[e].read # None /\ Mcp!Latest(e) <= mpCache[e].read)
  BY <1>1, LatestIsCached
<1>3. PICK q : q = r /\ WellMade(q) /\ q.at = "look" /\ q.left = mpCall[c].left /\ q.floor = Mcp!Latest(e)
               /\ q.looked = mpNow
  <2>1. IsCall(r) /\ r.at = "look" /\ r.left = mpCall[c].left /\ r.floor = Mcp!Latest(e) /\ r.looked = mpNow
    BY <1>1 DEF WellMade, IsCall
  <2> QED BY <1>1, <1>2, <2>1 DEF WellMade
<1>4. CASE /\ mpCache[e].until > mpNow /\ mpCall' = [mpCall EXCEPT ![c] = Mcp!Given(q, mpCache[e].read)]
           /\ mpAnswers' = mpAnswers \cup Mcp!Good({Mcp!Answer(q, mpCache[e].read, TRUE)})
           /\ UNCHANGED mpBuild
  <2>1. mpCache[e].read \in Nat
    BY <1>1, <1>4 DEF CatalogInv, CatalogTyped, Cached
  <2>2. PICK n : n = Mcp!Given(q, mpCache[e].read)
    OBVIOUS
  <2>3. WellMade(n) /\ n.at \in {"look", "done"}
    BY <1>3, <2>2, IsGiven DEF InCatalog
  <2>4. Elsewhere(c, n)
    BY <1>1, <1>4, <2>2, <2>3 DEF Elsewhere
  <2>5. \A a \in mpAnswers' \ mpAnswers :
           a = [entry |-> e, read |-> mpCache[e].read, looked |-> mpNow, floor |-> Mcp!Latest(e), cached |-> TRUE]
    BY <1>3, <1>4 DEF Mcp!Good, Mcp!Answer, Of
  <2>6. mpCache[e].read # None /\ mpNow < mpCache[e].read + Mcp!Ttl(e) /\ mpCache[e].read >= Mcp!Latest(e)
    <3>1. mpCache[e].read # None
      BY <2>1 DEF McpAssumption
    <3>2. mpCache[e].until <= mpCache[e].read + Mcp!Ttl(e) /\ mpCache[e].until \in Nat /\ Mcp!Ttl(e) \in Nat
      BY <1>1, <3>1, TtlIsNat DEF CatalogInv, CatalogTyped, Cached
    <3> QED BY <1>1, <1>2, <1>4, <2>1, <3>1, <3>2
  <2>7. \A a \in mpAnswers' : Answered(a)'
    <3>1. \A a \in mpAnswers : Answered(a)'
      BY <1>1 DEF CatalogInv, Answered
    <3>2. \A a \in mpAnswers' \ mpAnswers : Answered(a)'
      BY <1>1, <2>1, <2>5, <2>6 DEF Answered
    <3> QED BY <3>1, <3>2
  <2> HIDE DEF e, r
  <2> QED BY <1>1, <1>4, <2>4, <2>7, StepOfOne
<1>5. CASE /\ mpCache[e].until <= mpNow /\ mpBuild[e] # None
           /\ mpCall' = [mpCall EXCEPT ![c] = [q EXCEPT !.at = "join"]] /\ UNCHANGED <<mpAnswers, mpBuild>>
  <2>1. PICK n : n = [q EXCEPT !.at = "join"] /\ WellMade(n) /\ n.at = "join" /\ n.left = mpCall[c].left
                 /\ n.floor = Mcp!Latest(e)
    <3>1. LET n == [q EXCEPT !.at = "join"] IN
          IsCall(n) /\ n.at = "join" /\ n.left = mpCall[c].left /\ n.floor = Mcp!Latest(e)
      BY <1>3 DEF WellMade, IsCall
    <3> QED BY <1>1, <1>3, <3>1 DEF WellMade, InCatalog
  <2>2. CallsMade' /\ mpCall'[c] = n /\ \A d \in McCalls : d # c => mpCall'[d] = mpCall[d]
    BY <1>1, <1>5, <2>1, OneCall
  <2>3. Of(c)' = e
    BY <2>1, <2>2 DEF Of
  <2>4. Builds(c)' /\ Joins(c)' /\ Seen(c)'
    BY <1>1, <1>2, <1>5, <2>1, <2>2, <2>3 DEF Builds, Joins, Seen, Building
  <2>5. \A d \in McCalls : d # c => Builds(d)' /\ Joins(d)' /\ Seen(d)'
    BY <1>1, <1>5, <2>2 DEF CatalogInv, Builds, Joins, Seen, NotNewer, Of
  <2>6. ASSUME NEW x \in Mcp!Entries PROVE Built(x)' /\ Cached(x)'
    <3>1. mpBuild[x] # None => mpBuild[x] \in McCalls /\ mpBuild[x] # c
      BY <1>1 DEF CatalogInv, CatalogTyped, Built, Building
    <3> QED BY <1>1, <1>5, <2>2, <3>1 DEF CatalogInv, Built, Cached, Of
  <2>7. CatalogTyped' /\ \A a \in mpAnswers' : Answered(a)'
    BY <1>1, <1>5, <2>2 DEF CatalogInv, CatalogTyped, Answered
  <2> QED BY <2>4, <2>5, <2>6, <2>7 DEF CatalogInv
<1>6. CASE /\ mpCache[e].until <= mpNow /\ mpBuild[e] = None
           /\ mpCall' = [mpCall EXCEPT ![c] = [q EXCEPT !.at = "read", !.started = mpNow]]
           /\ mpBuild' = [mpBuild EXCEPT ![e] = c] /\ UNCHANGED mpAnswers
  <2>1. PICK n : n = [q EXCEPT !.at = "read", !.started = mpNow] /\ WellMade(n) /\ n.at = "read"
                 /\ n.left = mpCall[c].left /\ n.floor = Mcp!Latest(e) /\ n.started = mpNow
    <3>1. LET n == [q EXCEPT !.at = "read", !.started = mpNow] IN
          /\ IsCall(n) /\ n.at = "read" /\ n.left = mpCall[c].left /\ n.floor = Mcp!Latest(e)
          /\ n.started = mpNow
      BY <1>3 DEF WellMade, IsCall
    <3> QED BY <1>1, <1>3, <3>1 DEF WellMade, InCatalog
  <2>2. CallsMade' /\ mpCall'[c] = n /\ \A d \in McCalls : d # c => mpCall'[d] = mpCall[d]
    BY <1>1, <1>6, <2>1, OneCall
  <2>3. Of(c)' = e
    BY <2>1, <2>2 DEF Of
  <2>4. /\ mpBuild' \in [Mcp!Entries -> McCalls \cup {None}] /\ mpBuild'[e] = c
        /\ \A x \in Mcp!Entries : x # e => mpBuild'[x] = mpBuild[x]
    BY <1>1, <1>6 DEF CatalogInv, CatalogTyped
  <2>5. Builds(c)' /\ Joins(c)' /\ Seen(c)'
    BY <1>1, <1>2, <2>1, <2>2, <2>3, <2>4 DEF Builds, Joins, Seen
  <2>6. ASSUME NEW d \in McCalls, d # c PROVE Builds(d)' /\ Joins(d)' /\ Seen(d)'
    <3>1. mpCall'[d] = mpCall[d] /\ Of(d)' = Of(d)
      BY <2>2, <2>6 DEF Of
    <3>2. mpCall[d].at \in InCatalog => Of(d) \in Mcp!Entries
      BY <1>1, OfIsEntry
    <3>3. mpCall[d].at \in Building => mpBuild[Of(d)] = d /\ d # None /\ Of(d) # e
      BY <1>6 DEF CatalogInv, Builds, McpAssumption
    <3>4. mpCall[d].at = "join" => Of(d) # e
      BY <1>6 DEF CatalogInv, Joins
    <3>5. Builds(d)'
      BY <1>1, <2>4, <3>1, <3>2, <3>3 DEF CatalogInv, Builds, NotNewer, Building, InCatalog
    <3>6. Joins(d)' /\ Seen(d)'
      BY <1>1, <2>4, <3>1, <3>2, <3>4 DEF CatalogInv, Joins, Seen, InCatalog
    <3> QED BY <3>5, <3>6
  <2>7. ASSUME NEW x \in Mcp!Entries PROVE Built(x)' /\ Cached(x)'
    <3>1. mpBuild[x] # None => mpBuild[x] \in McCalls /\ mpBuild[x] # c
      BY <1>1 DEF CatalogInv, CatalogTyped, Built, Building
    <3>2. Built(x)'
      <4>1. CASE x = e
        BY <2>1, <2>2, <2>3, <2>4, <4>1 DEF Built, Building
      <4>2. CASE x # e
        BY <2>2, <2>4, <3>1, <4>2 DEF CatalogInv, Built, Of
      <4> QED BY <4>1, <4>2
    <3> QED BY <1>1, <3>2 DEF CatalogInv, Cached
  <2>8. CatalogTyped' /\ \A a \in mpAnswers' : Answered(a)'
    BY <1>1, <1>6, <2>2, <2>4 DEF CatalogInv, CatalogTyped, Answered
  <2> QED BY <2>5, <2>6, <2>7, <2>8 DEF CatalogInv
<1> QED BY <1>3, <1>4, <1>5, <1>6 DEF Mcp!Look, Mcp!InFlight, Of

LEMMA BuildReadKeeps ==
  ASSUME McpAssumption, CatalogInv, NEW c \in McCalls, Mcp!ReadCatalog(c)
  PROVE  CatalogInv'
<1>1. /\ mpCall[c].at = "read" /\ WellMade(mpCall[c]) /\ CallsMade /\ mpNow \in Nat
      /\ UNCHANGED <<mpNow, mpCache, mpBuild, mpAnswers>>
  BY DEF Mcp!ReadCatalog, Mcp!NoGate, Mcp!NoMoney, Mcp!NoCatalog, CatalogInv, CatalogTyped, CallsMade
<1>2. PICK v \in {mpNow, None} : mpCall' = [mpCall EXCEPT ![c] = [mpCall[c] EXCEPT !.at = "publish", !.read = v]]
  BY DEF Mcp!ReadCatalog
<1>3. PICK n : /\ n = [mpCall[c] EXCEPT !.at = "publish", !.read = v] /\ WellMade(n) /\ n.at = "publish"
               /\ n.left = mpCall[c].left /\ n.floor = mpCall[c].floor /\ n.started = mpCall[c].started /\ n.read = v
  <2>1. LET n == [mpCall[c] EXCEPT !.at = "publish", !.read = v] IN
        /\ IsCall(n) /\ n.at = "publish" /\ n.left = mpCall[c].left /\ n.floor = mpCall[c].floor
        /\ n.started = mpCall[c].started /\ n.read = v
    BY <1>1 DEF WellMade, IsCall
  <2> QED BY <1>1, <2>1 DEF WellMade, InCatalog
<1>4. CallsMade' /\ mpCall'[c] = n /\ \A d \in McCalls : d # c => mpCall'[d] = mpCall[d]
  BY <1>1, <1>2, <1>3, OneCall
<1>5. Of(c)' = Of(c) /\ Of(c) \in Mcp!Entries
  BY <1>1, <1>3, <1>4, OfIsEntry DEF Of, InCatalog
<1>6. Builds(c)'
  <2>1. mpBuild[Of(c)] = c /\ mpCall[c].started \in Nat /\ mpCall[c].started <= mpNow
    BY <1>1 DEF CatalogInv, Builds, Building
  <2>2. NotNewer(Of(c), mpNow)
    BY <1>5 DEF CatalogInv, Cached, NotNewer
  <2> QED BY <1>1, <1>3, <1>4, <1>5, <2>1, <2>2 DEF Builds, NotNewer
<1>7. Joins(c)' /\ Seen(c)'
  BY <1>1, <1>3, <1>4, <1>5 DEF CatalogInv, Joins, Seen
<1>8. ASSUME NEW d \in McCalls, d # c PROVE Builds(d)' /\ Joins(d)' /\ Seen(d)'
  <2>1. mpCall'[d] = mpCall[d] /\ Of(d)' = Of(d)
    BY <1>4, <1>8 DEF Of
  <2> QED BY <1>1, <2>1 DEF CatalogInv, Builds, Joins, Seen, NotNewer
<1>9. ASSUME NEW x \in Mcp!Entries PROVE Built(x)' /\ Cached(x)'
  <2>1. mpBuild[x] = None \/ mpBuild[x] \in McCalls
    BY DEF CatalogInv, CatalogTyped
  <2>2. CASE mpBuild[x] = c
    BY <1>1, <1>3, <1>4, <1>5, <2>2 DEF CatalogInv, Built, Cached, Building
  <2>3. CASE mpBuild[x] # c
    BY <1>1, <1>4, <2>1, <2>3 DEF CatalogInv, Built, Cached, Of
  <2> QED BY <2>2, <2>3
<1>10. CatalogTyped' /\ \A a \in mpAnswers' : Answered(a)'
  BY <1>1, <1>4 DEF CatalogInv, CatalogTyped, Answered
<1> QED BY <1>6, <1>7, <1>8, <1>9, <1>10 DEF CatalogInv

(* Who built tells everybody who waited.                                   *)
LEMMA BuildPublishKeeps ==
  ASSUME McpAssumption, CatalogInv, NEW c \in McCalls, Mcp!Publish(c)
  PROVE  CatalogInv'
<1> DEFINE e == Of(c)
           v == mpCall[c].read
           given == Mcp!Waiting(c, e) \cup {c}
<1>1. /\ mpCall[c].at = "publish" /\ CallsMade /\ e \in Mcp!Entries /\ mpNow \in Nat /\ UNCHANGED mpNow
      /\ mpCall' = [d \in McCalls |-> IF d \in given THEN Mcp!Given(mpCall[d], v) ELSE mpCall[d]]
      /\ mpAnswers' = mpAnswers \cup Mcp!Good({Mcp!Answer(mpCall[d], v, FALSE) : d \in given})
      /\ mpBuild' = [mpBuild EXCEPT ![e] = None]
      /\ mpCache' = IF v = None THEN mpCache ELSE [mpCache EXCEPT ![e] = [read |-> v, until |-> Mcp!Until(c, e)]]
  BY OfIsEntry DEF Mcp!Publish, Of, CatalogInv, CatalogTyped, InCatalog
<1>2. /\ mpBuild[e] = c /\ mpCall[c].started \in Nat /\ c # None
      /\ v # None => v \in Nat /\ mpCall[c].started <= v /\ v <= mpNow /\ NotNewer(e, v)
  BY <1>1 DEF CatalogInv, Builds, Building, McpAssumption
<1>3. given \subseteq McCalls /\ \A d \in given : mpCall[d].at \in {"join", "publish"} /\ Of(d) = e
  BY <1>1 DEF Mcp!Waiting, Of
<1>4. ASSUME NEW d \in given PROVE WellMade(mpCall'[d]) /\ mpCall'[d].at \in {"look", "done"}
  <2>1. mpCall'[d] = Mcp!Given(mpCall[d], v)
    BY <1>1, <1>3
  <2>2. WellMade(mpCall[d]) /\ mpCall[d].at \in InCatalog
    BY <1>1, <1>3 DEF CallsMade, InCatalog
  <2> HIDE DEF given
  <2> QED BY <2>1, <2>2, IsGiven
<1>5. \A d \in McCalls \ given : mpCall'[d] = mpCall[d] /\ Of(d)' = Of(d)
  BY <1>1 DEF Of
<1>6. CallsMade'
  <2>1. mpCall' = [d \in McCalls |-> mpCall'[d]]
    BY <1>1
  <2> QED BY <1>1, <1>4, <1>5, <2>1 DEF CallsMade
<1>7. /\ mpBuild' \in [Mcp!Entries -> McCalls \cup {None}] /\ mpBuild'[e] = None
      /\ \A x \in Mcp!Entries : x # e => mpBuild'[x] = mpBuild[x]
  BY <1>1 DEF CatalogInv, CatalogTyped
<1>8. /\ mpCache' \in [Mcp!Entries -> [read : Nat \cup {None}, until : Nat]]
      /\ \A x \in Mcp!Entries : x # e => mpCache'[x] = mpCache[x]
      /\ v = None => mpCache'[e] = mpCache[e]
      /\ v # None => mpCache'[e].read = v /\ mpCache'[e].until = mpCall[c].started + Mcp!Ttl(e)
  <2>1. mpCache \in [Mcp!Entries -> [read : Nat \cup {None}, until : Nat]]
    BY DEF CatalogInv, CatalogTyped
  <2>2. mpCall[c].started + Mcp!Ttl(e) \in Nat
    BY <1>2, TtlIsNat
  <2>3. CASE v = None
    BY <1>1, <2>1, <2>3
  <2>4. CASE v # None
    BY <1>1, <1>2, <2>1, <2>2, <2>4 DEF Mcp!Until
  <2> QED BY <2>3, <2>4
<1>9. ASSUME NEW d \in McCalls, d \notin given PROVE Builds(d)' /\ Joins(d)' /\ Seen(d)'
  <2>1. mpCall[d].at \in InCatalog => Of(d) \in Mcp!Entries
    BY <1>1, OfIsEntry
  <2>2. mpCall[d].at \in {"join", "read", "publish"} => Of(d) # e
    BY <1>2, <1>9 DEF Mcp!Waiting, Of, CatalogInv, Builds, Building
  <2>3. Builds(d)'
    BY <1>1, <1>5, <1>7, <1>8, <1>9, <2>1, <2>2 DEF CatalogInv, Builds, NotNewer, Building, InCatalog
  <2>4. Joins(d)' /\ Seen(d)'
    BY <1>1, <1>5, <1>7, <1>8, <1>9, <2>1, <2>2 DEF CatalogInv, Joins, Seen, InCatalog
  <2> QED BY <2>3, <2>4
<1>10. ASSUME NEW d \in given PROVE Builds(d)' /\ Joins(d)' /\ Seen(d)'
  BY <1>4, <1>10 DEF Builds, Joins, Seen, Building
<1>11. ASSUME NEW x \in Mcp!Entries PROVE Built(x)' /\ Cached(x)'
  <2>1. CASE x # e
    <3>1. mpBuild[x] # None => mpBuild[x] \in McCalls /\ mpBuild[x] \notin given
      BY <1>3, <2>1 DEF CatalogInv, CatalogTyped, Built
    <3>2. Built(x)'
      BY <1>5, <1>7, <2>1, <3>1 DEF CatalogInv, Built
    <3> QED BY <1>1, <1>8, <2>1, <3>2 DEF CatalogInv, Cached
  <2>2. CASE x = e
    <3>1. Built(x)'
      BY <1>7, <2>2 DEF Built
    <3>2. Cached(x)'
      <4>1. CASE v = None
        BY <1>1, <1>8, <2>2, <4>1 DEF CatalogInv, Cached
      <4>2. CASE v # None
        <5>1. Mcp!Ttl(x) \in Nat
          BY TtlIsNat
        <5>2. mpCache'[x].read = v /\ mpCache'[x].until = mpCall[c].started + Mcp!Ttl(x)
          BY <1>8, <2>2, <4>2
        <5> HIDE DEF v
        <5> QED BY <1>1, <1>2, <4>2, <5>1, <5>2 DEF Cached
      <4> QED BY <4>1, <4>2
    <3> QED BY <2>2, <3>1, <3>2
  <2> QED BY <2>1, <2>2
<1>12. ASSUME NEW a \in mpAnswers PROVE Answered(a)'
  <2>1. Answered(a)
    BY DEF CatalogInv
  <2>2. CASE a.entry # e \/ v = None
    BY <1>8, <2>1, <2>2 DEF Answered
  <2>3. CASE a.entry = e /\ v # None
    <3>1. a.read <= v
      BY <1>2, <2>1, <2>3 DEF Answered, NotNewer, CatalogInv, CatalogTyped
    <3> QED BY <1>8, <2>1, <2>3, <3>1 DEF Answered
  <2> QED BY <2>2, <2>3
<1>13. ASSUME NEW a \in mpAnswers' \ mpAnswers PROVE Answered(a)'
  <2>1. PICK d \in given : a = Mcp!Answer(mpCall[d], v, FALSE) /\ a.read # None
    BY <1>1 DEF Mcp!Good
  <2>2. a.entry = e /\ a.read = v /\ a.floor = mpCall[d].floor /\ a.cached = FALSE
    BY <1>3, <2>1 DEF Mcp!Answer, Of
  <2>3. mpCall[d].floor \in Nat /\ (mpCall[d].floor = 0 \/ (mpCache[e].read # None /\ mpCall[d].floor <= mpCache[e].read))
    BY <1>1, <1>3 DEF CatalogInv, Seen, CallsMade, WellMade
  <2>4. v \in Nat /\ v # None /\ mpCall[d].floor <= v
    <3>1. v \in Nat /\ v # None /\ NotNewer(e, v) /\ mpCache[e].read \in Nat \cup {None}
      BY <1>1, <1>2, <2>1, <2>2 DEF CatalogInv, CatalogTyped
    <3> QED BY <2>3, <3>1 DEF NotNewer
  <2> QED BY <1>1, <1>8, <2>2, <2>3, <2>4 DEF Answered
<1>14. CatalogTyped'
  BY <1>1, <1>6, <1>7, <1>8 DEF CatalogTyped
<1>15. \A d \in McCalls : Builds(d)' /\ Joins(d)' /\ Seen(d)'
  BY <1>9, <1>10
<1>16. \A a \in mpAnswers' : Answered(a)'
  BY <1>12, <1>13
<1> QED BY <1>11, <1>14, <1>15, <1>16 DEF CatalogInv

LEMMA TimePasses == CatalogInv /\ Mcp!Tick => CatalogInv'
<1> SUFFICES ASSUME CatalogInv, Mcp!Tick PROVE CatalogInv'
  OBVIOUS
<1>1. mpNow \in Nat /\ mpNow' = mpNow + 1 /\ UNCHANGED <<mpCall, mpCache, mpBuild, mpAnswers>>
  BY DEF CatalogInv, CatalogTyped, Mcp!Tick
<1>2. CatalogTyped'
  BY <1>1 DEF CatalogInv, CatalogTyped, CallsMade
<1>3. ASSUME NEW c \in McCalls PROVE Builds(c)' /\ Joins(c)' /\ Seen(c)'
  BY <1>1 DEF CatalogInv, Builds, Joins, Seen, NotNewer, Of
<1>4. ASSUME NEW e \in Mcp!Entries PROVE Built(e)' /\ Cached(e)'
  BY <1>1 DEF CatalogInv, CatalogTyped, Built, Cached, Of
<1>5. \A a \in mpAnswers' : Answered(a)'
  BY <1>1 DEF CatalogInv, Answered
<1> QED BY <1>2, <1>3, <1>4, <1>5 DEF CatalogInv

(* An intent keeps its terms, and who is told of one is told those.        *)
IntentShape(i) == i \in [terms : {i.terms}, status : {i.status}, expires : {i.expires}]
Intents == /\ mpIntent = [k \in McKeys |-> mpIntent[k]]
           /\ \A k \in McKeys : IntentShape(mpIntent[k]) /\ (mpIntent[k] # Mcp!NoIntent => mpIntent[k].terms # None)
AtMoney == {"prepare", "lookup", "insert", "ask", "record", "complete"}
KeyKnown(r) ==
    /\ r.at \in AtMoney => r.key \in McKeys
    /\ r.at = "gate" /\ r.tool \in Mcp!Financial \cup Mcp!StatusTools => r.key \in McKeys
    /\ r.at \in {"lookup", "insert"} => r.offer # None
ToldRight(r) == r.told.what \in {"intent", "real_completed"} =>
    r.key \in McKeys /\ mpIntent[r.key].terms # None /\ r.told.value = mpIntent[r.key].terms
IntentInv == Intents /\ \A c \in McCalls : KeyKnown(mpCall[c]) /\ ToldRight(mpCall[c])
IntentsKeep == /\ Intents'
               /\ \A k \in McKeys : mpIntent[k].terms # None => mpIntent'[k].terms = mpIntent[k].terms

LEMMA IntentInit == Mcp!Init => IntentInv
<1> SUFFICES ASSUME Mcp!Init PROVE IntentInv
  OBVIOUS
<1>1. Mcp!Idle.at = "idle" /\ Mcp!Idle.told.what = "nothing"
  BY DEF Mcp!Idle, Mcp!Told
<1>2. Intents
  BY DEF Mcp!Init, Intents, IntentShape, Mcp!NoIntent
<1> QED BY <1>1, <1>2 DEF Mcp!Init, IntentInv, KeyKnown, AtMoney, ToldRight

LEMMA ToldStays ==
  ASSUME IntentsKeep, NEW r, ToldRight(r)
  PROVE  r.told.what \in {"intent", "real_completed"} =>
             r.key \in McKeys /\ mpIntent'[r.key].terms # None /\ r.told.value = mpIntent'[r.key].terms
BY DEF IntentsKeep, ToldRight

LEMMA MoneyStep ==
  ASSUME CatalogInv, IntentInv, NEW c \in McCalls, NEW n, Elsewhere(c, n), KeyKnown(n),
         UNCHANGED <<mpNow, mpCache, mpBuild, mpAnswers>>, IntentsKeep,
         n.told.what \in {"intent", "real_completed"} =>
             n.key \in McKeys /\ mpIntent'[n.key].terms # None /\ n.told.value = mpIntent'[n.key].terms
  PROVE  CatalogInv' /\ IntentInv'
<1>1. CatalogInv'
  BY ElsewhereKeeps
<1>2. mpCall'[c] = n /\ \A d \in McCalls : d # c => mpCall'[d] = mpCall[d]
  BY OneCall DEF CatalogInv, CatalogTyped, Elsewhere
<1>3. ASSUME NEW d \in McCalls PROVE KeyKnown(mpCall[d])' /\ ToldRight(mpCall[d])'
  <2>1. CASE d = c
    BY <1>2, <2>1 DEF KeyKnown, ToldRight
  <2>2. CASE d # c
    <3>1. mpCall'[d] = mpCall[d] /\ KeyKnown(mpCall[d]) /\ ToldRight(mpCall[d])
      BY <1>2, <2>2 DEF IntentInv
    <3> QED BY <3>1, ToldStays DEF KeyKnown, ToldRight
  <2> QED BY <2>1, <2>2
<1> QED BY <1>1, <1>3 DEF IntentInv, IntentsKeep

LEMMA SameIntents == IntentInv /\ UNCHANGED mpIntent => IntentsKeep
BY DEF IntentInv, IntentsKeep, Intents, IntentShape

LEMMA Failed ==
  ASSUME NEW r, WellMade(r), NEW n, n = Mcp!Fails(r), r.key \in McKeys
  PROVE  /\ WellMade(n) /\ n.key = r.key /\ n.at \in {"done", "prepare", "complete"} /\ KeyKnown(n)
         /\ n.told = r.told \/ n.told.what \in {"error", "mock_fallback"}
<1>1. CASE n = Mcp!Done(r, "error", None)
  BY <1>1, AskEnded DEF KeyKnown, AtMoney
<1>2. CASE n = [r EXCEPT !.at = "prepare", !.tries = @ + 1, !.offer = None]
  BY <1>2 DEF WellMade, IsCall, InCatalog, KeyKnown
<1>3. CASE n = [r EXCEPT !.at = "complete", !.told = Mcp!Told("mock_fallback", None)]
  <2>1. n = Say(r, "complete", "mock_fallback", None) /\ "complete" \notin InCatalog
    BY <1>3 DEF Mcp!Told, InCatalog, Say
  <2> QED BY <2>1, Says DEF KeyKnown
<1> QED BY <1>1, <1>2, <1>3 DEF Mcp!Fails

LEMMA Succeeded ==
  ASSUME NEW r, WellMade(r), NEW v, NEW n, n = Mcp!Succeeds(r, v), r.key \in McKeys
  PROVE  /\ WellMade(n) /\ n.key = r.key /\ n.at \in {"done", "complete"} /\ KeyKnown(n)
         /\ n.told.value = v
<1>1. CASE n = Mcp!Done(r, "intent", v)
  BY <1>1, AskEnded DEF KeyKnown, AtMoney
<1>2. CASE n = [r EXCEPT !.at = "complete", !.told = Mcp!Told("real_completed", v)]
  <2>1. n = Say(r, "complete", "real_completed", v) /\ "complete" \notin InCatalog
    BY <1>2 DEF Mcp!Told, InCatalog, Say
  <2> QED BY <2>1, Says DEF KeyKnown
<1> QED BY <1>1, <1>2 DEF Mcp!Succeeds

(* A request asks, and is let in or refused.                               *)
LEMMA AskKeeps ==
  ASSUME CatalogInv, IntentInv, NEW c \in McCalls, NEW x, NEW t, NEW k \in McKeys, NEW y,
         Mcp!CallTool(c, x, t, k, y) \/ Mcp!ReadResource(c, x, t, k, y)
  PROVE  CatalogInv' /\ IntentInv'
<1>1. mpCall[c].at = "idle" /\ UNCHANGED <<mpNow, mpCache, mpBuild, mpAnswers, mpIntent>> /\ IntentsKeep
  BY IdleMade, SameIntents DEF Mcp!CallTool, Mcp!ReadResource, Mcp!NoCatalog, Mcp!NoMoney
<1>2. PICK r : /\ r = Mcp!Request(x, t, k, y) /\ WellMade(r) /\ r.tool = t /\ r.told.what = "nothing"
               /\ t \in Mcp!Financial \cup Mcp!StatusTools => r.key = k
  BY Asking
<1>3. \/ mpCall' = [mpCall EXCEPT ![c] = [r EXCEPT !.at = "gate"]]
      \/ mpCall' = [mpCall EXCEPT ![c] = Mcp!Done(r, "limited", None)]
  BY <1>2 DEF Mcp!CallTool, Mcp!ReadResource, Mcp!Allow
<1>4. CASE mpCall' = [mpCall EXCEPT ![c] = [r EXCEPT !.at = "gate"]]
  <2>1. PICK n : n = [r EXCEPT !.at = "gate"]
    OBVIOUS
  <2>2. WellMade(n) /\ n.at = "gate" /\ n.key = r.key /\ n.told = r.told
    BY <1>2, <2>1, AskMoved DEF InCatalog
  <2>3. n.tool = t
    BY <1>2, <2>1 DEF WellMade, IsCall
  <2>4. KeyKnown(n)
    BY <1>2, <2>2, <2>3 DEF KeyKnown, AtMoney
  <2> QED BY <1>1, <1>2, <1>4, <2>1, <2>2, <2>4, MoneyStep DEF Elsewhere
<1>5. CASE mpCall' = [mpCall EXCEPT ![c] = Mcp!Done(r, "limited", None)]
  <2>1. PICK n : n = Mcp!Done(r, "limited", None) /\ WellMade(n) /\ n.at = "done" /\ n.told.what = "limited"
    BY <1>2, AskEnded
  <2> QED BY <1>1, <1>5, <2>1, MoneyStep DEF Elsewhere, KeyKnown, AtMoney
<1> QED BY <1>3, <1>4, <1>5

LEMMA GateKeeps ==
  ASSUME CatalogInv, IntentInv, NEW c \in McCalls, Mcp!Gate(c)
  PROVE  CatalogInv' /\ IntentInv'
<1>1. /\ mpCall[c].at = "gate" /\ WellMade(mpCall[c]) /\ KeyKnown(mpCall[c]) /\ ToldRight(mpCall[c])
      /\ UNCHANGED <<mpNow, mpCache, mpBuild, mpAnswers, mpIntent>> /\ IntentsKeep
  BY SameIntents DEF Mcp!Gate, Mcp!NoCatalog, Mcp!NoMoney, CatalogInv, CatalogTyped, CallsMade, IntentInv
<1>2. PICK n \in Mcp!LetIn(mpCall[c]) : mpCall' = [mpCall EXCEPT ![c] = n]
  BY DEF Mcp!Gate
<1>3. /\ WellMade(n) /\ n.key = mpCall[c].key /\ n.at \in {"look", "prepare", "record", "ask", "done"}
      /\ n.at \in {"prepare", "record", "ask"} => mpCall[c].tool \in Mcp!Financial \cup Mcp!StatusTools
      /\ n.told = mpCall[c].told \/ n.told.what \notin {"intent", "real_completed"}
  BY <1>1, GateOpens
<1>4. KeyKnown(n)
  BY <1>1, <1>3 DEF KeyKnown, AtMoney
<1>5. n.told.what \in {"intent", "real_completed"} =>
             n.key \in McKeys /\ mpIntent'[n.key].terms # None /\ n.told.value = mpIntent'[n.key].terms
  BY <1>1, <1>3, ToldStays
<1> QED BY <1>1, <1>2, <1>3, <1>4, <1>5, MoneyStep DEF Elsewhere

(* A call about money that fails, at whichever step, is told of no intent. *)
LEMMA BuildFailsKeeps ==
  ASSUME CatalogInv, IntentInv, NEW c \in McCalls, mpCall[c].at \in AtMoney, IntentsKeep,
         mpCall' = [mpCall EXCEPT ![c] = Mcp!Fails(mpCall[c])],
         UNCHANGED <<mpNow, mpCache, mpBuild, mpAnswers>>
  PROVE  CatalogInv' /\ IntentInv'
<1>1. WellMade(mpCall[c]) /\ KeyKnown(mpCall[c]) /\ ToldRight(mpCall[c]) /\ mpCall[c].key \in McKeys
  BY DEF CatalogInv, CatalogTyped, CallsMade, IntentInv, KeyKnown
<1>2. PICK n : n = Mcp!Fails(mpCall[c])
  OBVIOUS
<1>3. /\ WellMade(n) /\ n.key = mpCall[c].key /\ n.at \in {"done", "prepare", "complete"} /\ KeyKnown(n)
      /\ n.told = mpCall[c].told \/ n.told.what \in {"error", "mock_fallback"}
  BY <1>1, <1>2, Failed
<1>4. n.told.what \in {"intent", "real_completed"} =>
             n.key \in McKeys /\ mpIntent'[n.key].terms # None /\ n.told.value = mpIntent'[n.key].terms
  BY <1>1, <1>3, ToldStays
<1> QED BY <1>2, <1>3, <1>4, MoneyStep DEF Elsewhere, AtMoney

(* One that succeeds is told the terms the key has now.                    *)
LEMMA SucceedsKeeps ==
  ASSUME CatalogInv, IntentInv, NEW c \in McCalls, mpCall[c].at \in AtMoney, IntentsKeep, NEW v,
         v # None, mpIntent'[mpCall[c].key].terms = v,
         \/ mpCall' = [mpCall EXCEPT ![c] = Mcp!Succeeds(mpCall[c], v)]
         \/ mpCall' = [mpCall EXCEPT ![c] = Mcp!Done(mpCall[c], "intent", v)],
         UNCHANGED <<mpNow, mpCache, mpBuild, mpAnswers>>
  PROVE  CatalogInv' /\ IntentInv'
<1>1. WellMade(mpCall[c]) /\ mpCall[c].key \in McKeys
  BY DEF CatalogInv, CatalogTyped, CallsMade, IntentInv, KeyKnown
<1>2. PICK n : /\ mpCall' = [mpCall EXCEPT ![c] = n]
               /\ n = Mcp!Succeeds(mpCall[c], v) \/ n = Mcp!Done(mpCall[c], "intent", v)
  OBVIOUS
<1>3. /\ WellMade(n) /\ n.key = mpCall[c].key /\ n.at \in {"done", "complete"} /\ KeyKnown(n) /\ n.told.value = v
  BY <1>1, <1>2, Succeeded, AskEnded DEF KeyKnown, AtMoney
<1> QED BY <1>1, <1>2, <1>3, MoneyStep DEF Elsewhere, AtMoney

(* A step that moves a call and tells it nothing.                          *)
LEMMA GoesKeeps ==
  ASSUME CatalogInv, IntentInv, NEW c \in McCalls, mpCall[c].at \in AtMoney, IntentsKeep,
         NEW s \in {"prepare", "insert", "done"}, s = "insert" => mpCall[c].at = "lookup",
         mpCall' = [mpCall EXCEPT ![c] = [mpCall[c] EXCEPT !.at = s]],
         UNCHANGED <<mpNow, mpCache, mpBuild, mpAnswers>>
  PROVE  CatalogInv' /\ IntentInv'
<1>1. WellMade(mpCall[c]) /\ KeyKnown(mpCall[c]) /\ ToldRight(mpCall[c]) /\ mpCall[c].key \in McKeys
  BY DEF CatalogInv, CatalogTyped, CallsMade, IntentInv, KeyKnown
<1>2. PICK n : n = [mpCall[c] EXCEPT !.at = s]
  OBVIOUS
<1>3. WellMade(n) /\ n.at = s /\ n.key = mpCall[c].key /\ n.told = mpCall[c].told /\ n.offer = mpCall[c].offer
  BY <1>1, <1>2, AskMoved DEF InCatalog
<1>4. KeyKnown(n)
  BY <1>1, <1>3 DEF KeyKnown
<1>5. n.told.what \in {"intent", "real_completed"} =>
             n.key \in McKeys /\ mpIntent'[n.key].terms # None /\ n.told.value = mpIntent'[n.key].terms
  BY <1>1, <1>3, ToldStays
<1> QED BY <1>2, <1>3, <1>4, <1>5, MoneyStep DEF Elsewhere, AtMoney

LEMMA PrepareKeeps ==
  ASSUME McpAssumption, CatalogInv, IntentInv, NEW c \in McCalls, Mcp!Prepare(c)
  PROVE  CatalogInv' /\ IntentInv'
<1>1. /\ mpCall[c].at = "prepare" /\ WellMade(mpCall[c]) /\ KeyKnown(mpCall[c]) /\ ToldRight(mpCall[c])
      /\ UNCHANGED <<mpNow, mpCache, mpBuild, mpAnswers, mpIntent>> /\ IntentsKeep
  BY SameIntents DEF Mcp!Prepare, Mcp!NoCatalog, Mcp!NoMoney, CatalogInv, CatalogTyped, CallsMade, IntentInv
<1>2. CASE mpCall' = [mpCall EXCEPT ![c] = Mcp!Fails(mpCall[c])]
  BY <1>1, <1>2, BuildFailsKeeps DEF AtMoney
<1>3. ASSUME NEW o \in Mcp!Offers(mpCall[c]),
             mpCall' = [mpCall EXCEPT ![c] = [mpCall[c] EXCEPT !.at = "lookup", !.offer = o]]
      PROVE  CatalogInv' /\ IntentInv'
  <2>1. o # None
    BY <1>3 DEF Mcp!Offers, McpAssumption
  <2>2. PICK n : n = [mpCall[c] EXCEPT !.at = "lookup", !.offer = o]
    OBVIOUS
  <2>3. IsCall(n) /\ n.at = "lookup" /\ n.left = mpCall[c].left /\ n.floor = mpCall[c].floor /\ n.offer = o
        /\ n.key = mpCall[c].key /\ n.told = mpCall[c].told
    BY <1>1, <2>2 DEF WellMade, IsCall
  <2>4. WellMade(n) /\ KeyKnown(n)
    BY <1>1, <2>1, <2>3 DEF WellMade, InCatalog, KeyKnown, AtMoney
  <2>5. n.told.what \in {"intent", "real_completed"} =>
               n.key \in McKeys /\ mpIntent'[n.key].terms # None /\ n.told.value = mpIntent'[n.key].terms
    BY <1>1, <2>3, ToldStays
  <2> QED BY <1>1, <1>3, <2>2, <2>3, <2>4, <2>5, MoneyStep DEF Elsewhere
<1> QED BY <1>2, <1>3 DEF Mcp!Prepare

LEMMA LookupKeeps ==
  ASSUME McpAssumption, CatalogInv, IntentInv, NEW c \in McCalls, Mcp!LookupIntent(c)
  PROVE  CatalogInv' /\ IntentInv'
<1>1. /\ mpCall[c].at = "lookup" /\ mpCall[c].at \in AtMoney /\ mpCall[c].key \in McKeys
      /\ UNCHANGED <<mpNow, mpCache, mpBuild, mpAnswers, mpIntent>> /\ IntentsKeep
  BY SameIntents DEF Mcp!LookupIntent, Mcp!NoCatalog, Mcp!NoMoney, IntentInv, KeyKnown, AtMoney
<1>2. CASE mpCall' = [mpCall EXCEPT ![c] = Mcp!Fails(mpCall[c])]
  BY <1>1, <1>2, BuildFailsKeeps
<1>3. CASE Mcp!Goto(c, "insert")
  BY <1>1, <1>3, GoesKeeps DEF Mcp!Goto
<1>4. CASE /\ mpIntent[mpCall[c].key] # Mcp!NoIntent
           /\ mpCall' = [mpCall EXCEPT ![c] = Mcp!Succeeds(mpCall[c], mpIntent[mpCall[c].key].terms)]
  <2>1. mpIntent[mpCall[c].key].terms # None
    BY <1>1, <1>4 DEF IntentInv, Intents
  <2> QED BY <1>1, <1>4, <2>1, SucceedsKeeps
<1> QED BY <1>2, <1>3, <1>4 DEF Mcp!LookupIntent, Mcp!ToldOld

LEMMA InsertKeeps ==
  ASSUME McpAssumption, CatalogInv, IntentInv, NEW c \in McCalls, Mcp!InsertIntent(c)
  PROVE  CatalogInv' /\ IntentInv'
<1> DEFINE k == mpCall[c].key
<1>1. /\ mpCall[c].at = "insert" /\ mpCall[c].at \in AtMoney /\ k \in McKeys /\ mpCall[c].offer # None
      /\ UNCHANGED <<mpNow, mpCache, mpBuild, mpAnswers>>
  BY DEF Mcp!InsertIntent, Mcp!NoCatalog, IntentInv, KeyKnown, AtMoney
<1>2. CASE UNCHANGED mpIntent /\ mpCall' = [mpCall EXCEPT ![c] = Mcp!Fails(mpCall[c])]
  BY <1>1, <1>2, SameIntents, BuildFailsKeeps
<1>3. ASSUME NEW new, new = [terms |-> mpCall[c].offer, status |-> "pending_deposit", expires |-> mpNow + McLife],
             mpIntent[k] = Mcp!NoIntent, mpIntent' = [mpIntent EXCEPT ![k] = new],
             \/ mpCall' = [mpCall EXCEPT ![c] = Mcp!Succeeds(mpCall[c], new.terms)]
             \/ mpCall' = [mpCall EXCEPT ![c] = Mcp!Fails(mpCall[c])]
      PROVE  CatalogInv' /\ IntentInv'
  <2>1. IntentShape(new) /\ new.terms # None /\ mpIntent[k].terms = None
    BY <1>1, <1>3 DEF IntentShape, Mcp!NoIntent
  <2>2. mpIntent' = [x \in McKeys |-> mpIntent'[x]] /\ mpIntent'[k] = new
        /\ \A x \in McKeys : x # k => mpIntent'[x] = mpIntent[x]
    BY <1>1, <1>3 DEF IntentInv, Intents
  <2>3. Intents'
    BY <2>1, <2>2 DEF IntentInv, Intents, IntentShape
  <2>4. IntentsKeep
    BY <2>1, <2>2, <2>3 DEF IntentsKeep
  <2>5. CASE mpCall' = [mpCall EXCEPT ![c] = Mcp!Fails(mpCall[c])]
    BY <1>1, <2>4, <2>5, BuildFailsKeeps
  <2>6. CASE mpCall' = [mpCall EXCEPT ![c] = Mcp!Succeeds(mpCall[c], new.terms)]
    BY <1>1, <2>1, <2>2, <2>4, <2>6, SucceedsKeeps
  <2> QED BY <1>3, <2>5, <2>6
<1> QED BY <1>2, <1>3 DEF Mcp!InsertIntent

LEMMA AskIntentKeeps ==
  ASSUME McpAssumption, CatalogInv, IntentInv, NEW c \in McCalls, Mcp!AskIntent(c)
  PROVE  CatalogInv' /\ IntentInv'
<1> DEFINE k == mpCall[c].key
<1>1. /\ mpCall[c].at = "ask" /\ mpCall[c].at \in AtMoney /\ k \in McKeys /\ WellMade(mpCall[c])
      /\ UNCHANGED <<mpNow, mpCache, mpBuild, mpAnswers>>
  BY DEF Mcp!AskIntent, Mcp!NoCatalog, IntentInv, KeyKnown, AtMoney, CatalogInv, CatalogTyped, CallsMade
<1>2. CASE Mcp!Tells(c, "error", None) /\ UNCHANGED mpIntent
  <2>1. PICK n : n = Mcp!Done(mpCall[c], "error", None)
    OBVIOUS
  <2>2. mpCall' = [mpCall EXCEPT ![c] = n] /\ WellMade(n) /\ n.at = "done" /\ n.told.what = "error"
    BY <1>1, <1>2, <2>1, AskEnded DEF Mcp!Tells
  <2>3. Elsewhere(c, n) /\ KeyKnown(n) /\ IntentsKeep
    BY <1>1, <1>2, <2>2, SameIntents DEF Elsewhere, KeyKnown, AtMoney
  <2> QED BY <1>1, <2>2, <2>3, MoneyStep
<1>3. ASSUME NEW s, mpIntent[k] # Mcp!NoIntent, Mcp!Tells(c, "intent", mpIntent[k].terms),
             mpIntent' = [mpIntent EXCEPT ![k] = [mpIntent[k] EXCEPT !.status = s]]
      PROVE  CatalogInv' /\ IntentInv'
  <2>1. IntentShape(mpIntent[k]) /\ mpIntent[k].terms # None
    BY <1>1, <1>3 DEF IntentInv, Intents
  <2>2. PICK new : new = [mpIntent[k] EXCEPT !.status = s]
    OBVIOUS
  <2>3. IntentShape(new) /\ new.terms = mpIntent[k].terms
    BY <2>1, <2>2 DEF IntentShape
  <2>4. mpIntent' = [x \in McKeys |-> mpIntent'[x]] /\ mpIntent'[k] = new
        /\ \A x \in McKeys : x # k => mpIntent'[x] = mpIntent[x]
    BY <1>1, <1>3, <2>2 DEF IntentInv, Intents
  <2>5. Intents'
    BY <2>1, <2>3, <2>4 DEF IntentInv, Intents, IntentShape
  <2>6. IntentsKeep
    BY <2>3, <2>4, <2>5 DEF IntentsKeep
  <2> QED BY <1>1, <1>3, <2>1, <2>3, <2>4, <2>6, SucceedsKeeps DEF Mcp!Tells
<1> QED BY <1>2, <1>3 DEF Mcp!AskIntent

LEMMA EventKeeps ==
  ASSUME McpAssumption, CatalogInv, IntentInv, NEW c \in McCalls, Mcp!RecordEvent(c) \/ Mcp!CompleteEvent(c)
  PROVE  CatalogInv' /\ IntentInv'
<1>1. /\ mpCall[c].at \in AtMoney /\ mpCall[c].at \in {"record", "complete"} /\ WellMade(mpCall[c])
      /\ UNCHANGED <<mpNow, mpCache, mpBuild, mpAnswers, mpIntent>> /\ IntentsKeep
  BY SameIntents DEF Mcp!RecordEvent, Mcp!CompleteEvent, Mcp!NoCatalog, AtMoney, CatalogInv, CatalogTyped, CallsMade
<1>2. ASSUME NEW s \in {"prepare", "done"}, Mcp!Goto(c, s) PROVE CatalogInv' /\ IntentInv'
  BY <1>1, <1>2, GoesKeeps DEF Mcp!Goto
<1>3. ASSUME NEW w \in {"duplicate", "error"}, Mcp!Tells(c, w, None) PROVE CatalogInv' /\ IntentInv'
  <2>1. PICK n : n = Mcp!Done(mpCall[c], w, None)
    OBVIOUS
  <2>2. mpCall' = [mpCall EXCEPT ![c] = n] /\ WellMade(n) /\ n.at = "done" /\ n.told.what = w
    BY <1>1, <1>3, <2>1, AskEnded DEF Mcp!Tells
  <2>3. Elsewhere(c, n) /\ KeyKnown(n)
    BY <1>1, <2>2 DEF Elsewhere, KeyKnown, AtMoney
  <2> QED BY <1>1, <2>2, <2>3, MoneyStep
<1> QED BY <1>2, <1>3 DEF Mcp!RecordEvent, Mcp!CompleteEvent

(* Looking, building and telling of the catalog leave money alone.         *)
LEMMA CatalogTells ==
  ASSUME McpAssumption, CatalogInv, CatalogInv', IntentInv, NEW c \in McCalls,
         Mcp!Look(c) \/ Mcp!ReadCatalog(c) \/ Mcp!Publish(c)
  PROVE  IntentInv'
<1>1. IntentsKeep /\ UNCHANGED mpIntent
  BY SameIntents DEF Mcp!Look, Mcp!ReadCatalog, Mcp!Publish, Mcp!NoMoney
<1>2. ASSUME NEW d \in McCalls
      PROVE  \/ mpCall'[d] = mpCall[d]
             \/ /\ mpCall'[d].at \in {"look", "join", "read", "publish", "done"} /\ mpCall'[d].key = mpCall[d].key
                /\ mpCall'[d].told = mpCall[d].told \/ mpCall'[d].told.what \in {"error", "catalog"}
  <2>1. CallsMade /\ WellMade(mpCall[d])
    BY DEF CatalogInv, CatalogTyped, CallsMade
  <2>2. CASE Mcp!ReadCatalog(c)
    <3>1. PICK u : mpCall' = [mpCall EXCEPT ![c] = [mpCall[c] EXCEPT !.at = "publish", !.read = u]]
      BY <2>2 DEF Mcp!ReadCatalog
    <3>2. PICK n : n = [mpCall[c] EXCEPT !.at = "publish", !.read = u]
      OBVIOUS
    <3>3. mpCall'[d] = IF d = c THEN n ELSE mpCall[d]
      BY <2>1, <3>1, <3>2 DEF CallsMade
    <3>4. WellMade(mpCall[c])
      BY <2>1 DEF CallsMade
    <3>5. n.at = "publish" /\ n.key = mpCall[c].key /\ n.told = mpCall[c].told
      BY <3>2, <3>4 DEF WellMade, IsCall
    <3> QED BY <3>3, <3>5
  <2>3. CASE Mcp!Publish(c)
    <3>1. mpCall[c].at = "publish"
      BY <2>3 DEF Mcp!Publish
    <3>2. mpCall'[d] = mpCall[d] \/ (mpCall[d].at \in {"join", "publish"} /\ mpCall'[d] = Mcp!Given(mpCall[d], mpCall[c].read))
      BY <2>3, <3>1 DEF Mcp!Publish, Mcp!Waiting
    <3> QED BY <2>1, <3>2, IsGiven DEF InCatalog
  <2>4. CASE Mcp!Look(c)
    <3>1. PICK r : r = [mpCall[c] EXCEPT !.looked = mpNow, !.floor = Mcp!Latest(Head(mpCall[c].left))]
      OBVIOUS
    <3>2. WellMade(mpCall[c]) /\ mpCall[c].at = "look" /\ Of(c) \in Mcp!Entries
      BY <2>1, <2>4, OfIsEntry DEF CallsMade, Mcp!Look, InCatalog
    <3>3. Mcp!Latest(Of(c)) \in Nat
      BY <3>2, LatestIsCached
    <3>4. IsCall(r) /\ r.at = "look" /\ r.left = mpCall[c].left /\ r.floor \in Nat /\ r.key = mpCall[c].key
          /\ r.told = mpCall[c].told
      BY <3>1, <3>2, <3>3 DEF WellMade, IsCall, Of
    <3>5. WellMade(r)
      BY <3>2, <3>4 DEF WellMade
    <3>6. PICK n : mpCall' = [mpCall EXCEPT ![c] = n] /\
                   (\/ \E u : n = Mcp!Given(r, u) \/ n = [r EXCEPT !.at = "join"]
                    \/ n = [r EXCEPT !.at = "read", !.started = mpNow])
      BY <2>4, <3>1 DEF Mcp!Look
    <3>7. n.at \in {"look", "join", "read", "done"} /\ n.key = r.key
          /\ (n.told = r.told \/ n.told.what \in {"error", "catalog"})
      <4>1. CASE \E u : n = Mcp!Given(r, u)
        BY <3>4, <3>5, <4>1, IsGiven DEF InCatalog
      <4>2. CASE n = [r EXCEPT !.at = "join"] \/ n = [r EXCEPT !.at = "read", !.started = mpNow]
        BY <3>4, <4>2 DEF IsCall
      <4> QED BY <3>6, <4>1, <4>2
    <3>8. mpCall'[d] = IF d = c THEN n ELSE mpCall[d]
      BY <2>1, <3>6 DEF CallsMade
    <3> QED BY <3>4, <3>7, <3>8
  <2> QED BY <2>2, <2>3, <2>4
<1>3. ASSUME NEW d \in McCalls PROVE KeyKnown(mpCall'[d]) /\ ToldRight(mpCall[d])'
  <2>1. KeyKnown(mpCall[d]) /\ ToldRight(mpCall[d])
    BY DEF IntentInv
  <2>2. KeyKnown(mpCall'[d])
    BY <1>2, <2>1 DEF KeyKnown, AtMoney
  <2>3. ToldRight(mpCall[d])'
    BY <1>1, <1>2, <2>1 DEF ToldRight
  <2> QED BY <2>2, <2>3
<1> QED BY <1>1, <1>3 DEF IntentInv, IntentsKeep, KeyKnown

LEMMA McpNext ==
  McpAssumption /\ CatalogInv /\ IntentInv /\ [Mcp!Next]_Mcp!vars => CatalogInv' /\ IntentInv'
<1> SUFFICES ASSUME McpAssumption, CatalogInv, IntentInv, [Mcp!Next]_Mcp!vars PROVE CatalogInv' /\ IntentInv'
  OBVIOUS
<1>1. CASE UNCHANGED Mcp!vars
  <2>1. UNCHANGED <<mpNow, mpCall, mpCache, mpBuild, mpAnswers, mpIntent>>
    BY <1>1 DEF Mcp!vars
  <2>2. CatalogTyped'
    BY <2>1 DEF CatalogInv, CatalogTyped, CallsMade
  <2>3. \A c \in McCalls : Builds(c)' /\ Joins(c)' /\ Seen(c)'
    BY <2>1 DEF CatalogInv, Builds, Joins, Seen, NotNewer, Of
  <2>4. \A e \in Mcp!Entries : Built(e)' /\ Cached(e)'
    BY <2>1 DEF CatalogInv, Built, Cached, Of
  <2>5. \A a \in mpAnswers' : Answered(a)'
    BY <2>1 DEF CatalogInv, Answered
  <2>6. IntentInv'
    BY <2>1 DEF IntentInv, Intents, KeyKnown, ToldRight
  <2> QED BY <2>2, <2>3, <2>4, <2>5, <2>6 DEF CatalogInv
<1>2. CASE Mcp!Tick
  <2>1. IntentInv'
    BY <1>2 DEF Mcp!Tick, IntentInv, Intents, KeyKnown, ToldRight
  <2> QED BY <1>2, <2>1, TimePasses
<1>3. ASSUME NEW c \in McCalls, Mcp!Look(c) \/ Mcp!ReadCatalog(c) \/ Mcp!Publish(c)
      PROVE  CatalogInv' /\ IntentInv'
  <2>1. CatalogInv'
    BY <1>3, CacheLookKeeps, BuildReadKeeps, BuildPublishKeeps
  <2> QED BY <1>3, <2>1, CatalogTells
<1>4. ASSUME NEW c \in McCalls, NEW x, NEW t, NEW k \in McKeys, NEW y,
             Mcp!CallTool(c, x, t, k, y) \/ Mcp!ReadResource(c, x, t, k, y)
      PROVE  CatalogInv' /\ IntentInv'
  BY <1>4, AskKeeps
<1>5. ASSUME NEW c \in McCalls,
             \/ Mcp!Gate(c) \/ Mcp!Prepare(c) \/ Mcp!LookupIntent(c) \/ Mcp!InsertIntent(c)
             \/ Mcp!AskIntent(c) \/ Mcp!RecordEvent(c) \/ Mcp!CompleteEvent(c)
      PROVE  CatalogInv' /\ IntentInv'
  BY <1>5, GateKeeps, PrepareKeeps, LookupKeeps, InsertKeeps, AskIntentKeeps, EventKeeps
<1> QED BY <1>1, <1>2, <1>3, <1>4, <1>5 DEF Mcp!Next

LEMMA McpInvEnough ==
  McpAssumption /\ CatalogInv /\ IntentInv =>
      Mcp!CachedIsFresh /\ Mcp!NeverGoesBack /\ Mcp!WaitsForABuild /\ Mcp!ToldIsStored
<1> SUFFICES ASSUME McpAssumption, CatalogInv, IntentInv
             PROVE  Mcp!CachedIsFresh /\ Mcp!NeverGoesBack /\ Mcp!WaitsForABuild /\ Mcp!ToldIsStored
  OBVIOUS
<1>1. Mcp!CachedIsFresh /\ Mcp!NeverGoesBack
  BY DEF CatalogInv, Answered, Mcp!CachedIsFresh, Mcp!NeverGoesBack
<1>2. Mcp!WaitsForABuild
  <2> SUFFICES ASSUME NEW c \in McCalls, mpCall[c].at = "join"
               PROVE  LET d == mpBuild[Of(c)] IN
                      d # None /\ d # c /\ mpCall[d].at \in {"read", "publish"} /\ Of(d) = Of(c)
    BY DEF Mcp!WaitsForABuild, Of
  <2>1. Of(c) \in Mcp!Entries /\ mpBuild[Of(c)] # None
    BY OfIsEntry DEF CatalogInv, CatalogTyped, Joins, InCatalog
  <2> QED BY <2>1 DEF CatalogInv, Built, Building
<1>3. Mcp!ToldIsStored
  BY DEF IntentInv, ToldRight, Mcp!ToldIsStored
<1> QED BY <1>1, <1>2, <1>3

(* What is answered from the cached catalog is younger than its time to    *)
(* live, no caller is given a catalog older than one already given when it *)
(* asked, who waits for a build waits for one under way, and whoever is    *)
(* told of a payment intent is told the terms stored under its key.        *)
THEOREM AgentsAreToldTruly ==
  ASSUME McpAssumption
  PROVE  Mcp!Spec =>
            [](Mcp!CachedIsFresh /\ Mcp!NeverGoesBack /\ Mcp!WaitsForABuild /\ Mcp!ToldIsStored)
BY CatalogInit, IntentInit, McpNext, McpInvEnough, PTL DEF Mcp!Spec

-----------------------------------------------------------------------------
(* The webhooks, for any number of events, subscriptions and workers, and  *)
(* any queue and number of tries.                                          *)
CONSTANTS HkEvents, HkTriggers, HkSubs, HkListens, HkQueueSize, HkWorkers, HkRetries
VARIABLES hkRow, hkEmit, hkSaid, hkJobs, hkWorker, hkAttempts, hkEnded, hkGot
Hook == INSTANCE WebhookDelivery WITH Events <- HkEvents, Triggers <- HkTriggers, Subs <- HkSubs,
    Listens <- HkListens, QueueSize <- HkQueueSize, Workers <- HkWorkers, MaxRetries <- HkRetries,
    row <- hkRow, emit <- hkEmit, said <- hkSaid, jobs <- hkJobs, worker <- hkWorker,
    attempts <- hkAttempts, ended <- hkEnded, got <- hkGot

HookAssumption ==
    /\ HkRetries \in Nat \ {0} /\ HkQueueSize \in Nat
    /\ \A e \in HkEvents : HkTriggers[e] \in Seq(Hook!Names) /\ Len(HkTriggers[e]) \in {1, 2}
    /\ None \notin Hook!Jobs \cup Hook!Names \cup {"ok", "failed", "dropped", "lost"}

Fates == {"ok", "failed", "dropped", "lost"}

(* Where a job can be: to be queued, in the queue, with a worker.          *)
Awaits(j) == hkEmit[j.event].n = j.n /\ j.sub \in hkEmit[j.event].todo
InLine(j) == \E i \in DOMAIN hkJobs : hkJobs[i] = j
Held(j) == \E w \in HkWorkers : hkWorker[w].job = j

(* What the dispatcher lists listens, and the payload has a name by then.  *)
EmitSound(e) ==
    /\ hkEmit[e].at # "emit" => hkEmit[e].todo = {}
    /\ hkEmit[e].n <= Len(HkTriggers[e])
    /\ hkEmit[e].at = "emit" => hkEmit[e].n > 0
    /\ hkEmit[e].at = "new" => hkEmit[e].n = 0
    /\ \A s \in hkEmit[e].todo : HkTriggers[e][hkEmit[e].n] \in HkListens[s]
    /\ hkSaid[e] = None \/ \E n \in DOMAIN HkTriggers[e] : hkSaid[e] = HkTriggers[e][n]
    /\ hkEmit[e].todo # {} => hkSaid[e] # None

(* A job that has begun is one the dispatcher is through with, in one      *)
(* place, and it has ended only when it is in none.                        *)
Behind(j) == j.n <= hkEmit[j.event].n /\ ~Awaits(j)
InOneOf(j) ==
    /\ Awaits(j) \/ InLine(j) \/ Held(j) => hkEnded[j] = None
    /\ ~(InLine(j) /\ Held(j))
    /\ \A i, k \in DOMAIN hkJobs : hkJobs[i] = j /\ hkJobs[k] = j => i = k
    /\ \A w, v \in HkWorkers : hkWorker[w].job = j /\ hkWorker[v].job = j => w = v
Counted(j) ==
    /\ hkEnded[j] = None /\ ~Held(j) => hkAttempts[j] = 0
    /\ hkEnded[j] = "failed" /\ hkRow[j.sub].state # "deleted" => hkAttempts[j] = HkRetries
JobSound(j) ==
    /\ InLine(j) \/ Held(j) \/ hkEnded[j] # None => Behind(j)
    /\ InLine(j) \/ Held(j) => hkSaid[j.event] # None /\ Hook!Name(j) \in HkListens[j.sub]
    /\ InOneOf(j) /\ Counted(j)

Tries(w) == IF hkWorker[w].at = "sleep" THEN hkWorker[w].attempt ELSE hkWorker[w].attempt - 1
WorkerSound(w) ==
    /\ hkWorker[w].at = "idle" <=> hkWorker[w].job = None
    /\ hkWorker[w].at # "idle" =>
          /\ hkWorker[w].attempt > 0
          /\ hkRow[hkWorker[w].job.sub].state # "deleted" => hkAttempts[hkWorker[w].job] = Tries(w)
    /\ hkWorker[w].at = "sleep" => ~hkWorker[w].ok /\ hkWorker[w].attempt < HkRetries

HookInv ==
    /\ Hook!TypeOK /\ Hook!TellsItsName
    /\ \A e \in HkEvents : EmitSound(e)
    /\ \A j \in Hook!Jobs : JobSound(j)
    /\ \A w \in HkWorkers : WorkerSound(w)

LEMMA JobShape ==
  ASSUME HookAssumption, NEW j \in Hook!Jobs
  PROVE  /\ j.event \in HkEvents /\ j.sub \in HkSubs /\ j.n \in 1..2
         /\ j.n <= Len(HkTriggers[j.event]) /\ Hook!Name(j) \in Hook!Names /\ j # None
<1>1. j.event \in HkEvents /\ j.sub \in HkSubs /\ j.n \in 1..2 /\ j.n <= Len(HkTriggers[j.event])
  BY DEF Hook!Jobs
<1>2. j.n \in 1..Len(HkTriggers[j.event]) /\ HkTriggers[j.event] \in Seq(Hook!Names)
  BY <1>1 DEF HookAssumption
<1>3. Hook!Name(j) \in Hook!Names
  BY <1>2 DEF Hook!Name
<1> QED BY <1>1, <1>3 DEF HookAssumption

LEMMA HookInit ==
  ASSUME HookAssumption, Hook!Init
  PROVE  HookInv
<1>1. \A j \in Hook!Jobs : hkEnded[j] = None /\ hkAttempts[j] = 0 /\ ~InLine(j) /\ ~Held(j) /\ ~Awaits(j)
  <2> SUFFICES ASSUME NEW j \in Hook!Jobs
               PROVE  hkEnded[j] = None /\ hkAttempts[j] = 0 /\ ~InLine(j) /\ ~Held(j) /\ ~Awaits(j)
    OBVIOUS
  <2> QED BY JobShape DEF Hook!Init, InLine, Held, Awaits, Hook!Free
<1>2. Hook!TypeOK
  BY DEF Hook!TypeOK, Hook!Init, Hook!Free, HookAssumption
<1>3. \A e \in HkEvents : EmitSound(e)
  BY DEF Hook!Init, EmitSound, HookAssumption
<1>4. \A j \in Hook!Jobs : JobSound(j)
  <2> SUFFICES ASSUME NEW j \in Hook!Jobs PROVE JobSound(j)
    OBVIOUS
  <2>1. DOMAIN hkJobs = {}
    BY DEF Hook!Init
  <2>2. \A w \in HkWorkers : hkWorker[w].job = None
    BY DEF Hook!Init, Hook!Free
  <2>3. InOneOf(j)
    BY <1>1, <2>1, <2>2, JobShape DEF InOneOf
  <2>4. Counted(j)
    BY <1>1 DEF Counted, HookAssumption
  <2> QED BY <1>1, <2>3, <2>4 DEF JobSound
<1>5. \A w \in HkWorkers : WorkerSound(w)
  BY DEF Hook!Init, Hook!Free, WorkerSound
<1>6. Hook!TellsItsName
  BY DEF Hook!Init, Hook!TellsItsName
<1> QED BY <1>2, <1>3, <1>4, <1>5, <1>6 DEF HookInv

(* A trigger that the dispatcher goes on to has no job yet.                *)
LEMMA EmitGoesOn ==
  ASSUME HookAssumption, HookInv, NEW e \in HkEvents, Hook!Emit(e)
  PROVE  HookInv'
<1> USE DEF HookInv
<1>0. /\ UNCHANGED <<hkRow, hkJobs, hkWorker, hkAttempts, hkEnded, hkGot>>
      /\ HkTriggers[e] \in Seq(Hook!Names) /\ Len(HkTriggers[e]) \in {1, 2}
      /\ hkEmit[e] \in [at : {"new", "emit", "done"}, n : 0..2, todo : SUBSET HkSubs]
  BY DEF Hook!Emit, HookAssumption, Hook!TypeOK
<1>a. hkEmit \in [HkEvents -> [at : {"new", "emit", "done"}, n : 0..2, todo : SUBSET HkSubs]]
      /\ hkSaid \in [HkEvents -> Hook!Names \cup {None}]
  BY DEF Hook!TypeOK
<1> DEFINE m == hkEmit[e].n + 1
<1>b. \/ \E T \in SUBSET HkSubs :
            /\ m <= Len(HkTriggers[e]) /\ \A s \in T : HkTriggers[e][m] \in HkListens[s]
            /\ hkEmit' = [hkEmit EXCEPT ![e] = [at |-> "emit", n |-> m, todo |-> T]]
            /\ (hkSaid' = hkSaid /\ T = {}) \/ hkSaid' = [hkSaid EXCEPT ![e] = HkTriggers[e][m]]
      \/ hkEmit' = [hkEmit EXCEPT ![e].at = "done"] /\ hkSaid' = hkSaid
  BY DEF Hook!Emit, Hook!Listening
<1>c. hkEmit[e].todo = {} /\ hkEmit[e].at # "done"
  BY DEF Hook!Emit
<1>d. m <= Len(HkTriggers[e]) => m \in 1..2 /\ m \in DOMAIN HkTriggers[e]
  BY <1>0, <1>a
<1>1. /\ hkEmit' = [hkEmit EXCEPT ![e] = hkEmit'[e]]
      /\ hkEmit'[e] \in [at : {"emit", "done"}, n : 0..2, todo : SUBSET HkSubs]
  <2>1. CASE hkEmit' = [hkEmit EXCEPT ![e].at = "done"]
    BY <2>1, <1>0, <1>a
  <2>2. ASSUME NEW T \in SUBSET HkSubs, m <= Len(HkTriggers[e]),
               hkEmit' = [hkEmit EXCEPT ![e] = [at |-> "emit", n |-> m, todo |-> T]]
        PROVE  /\ hkEmit' = [hkEmit EXCEPT ![e] = hkEmit'[e]]
               /\ hkEmit'[e] \in [at : {"emit", "done"}, n : 0..2, todo : SUBSET HkSubs]
    <3>1. hkEmit'[e] = [at |-> "emit", n |-> m, todo |-> T]
      BY <2>2, <1>a
    <3> QED BY <3>1, <2>2, <1>a, <1>d
  <2> QED BY <1>b, <2>1, <2>2
<1>2. /\ \/ hkEmit'[e].n = m /\ m \in DOMAIN HkTriggers[e] /\ hkEmit'[e].at = "emit"
         \/ hkEmit'[e].n = hkEmit[e].n /\ hkEmit'[e].at = "done"
      /\ hkEmit'[e].at = "done" => hkEmit'[e].todo = {}
      /\ \A s \in hkEmit'[e].todo : HkTriggers[e][hkEmit'[e].n] \in HkListens[s]
  BY <1>a, <1>b, <1>c, <1>d
<1>3. \/ hkSaid' = hkSaid /\ hkEmit'[e].todo = {}
      \/ /\ hkSaid' = [hkSaid EXCEPT ![e] = HkTriggers[e][m]]
         /\ hkEmit'[e].n = m /\ m \in DOMAIN HkTriggers[e]
  BY <1>a, <1>b, <1>c, <1>d
<1>4. \A n \in DOMAIN HkTriggers[e] : HkTriggers[e][n] \in Hook!Names /\ HkTriggers[e][n] # None
  BY <1>0 DEF HookAssumption
<1>5. Hook!TypeOK'
  <2>1. hkEmit' \in [HkEvents -> [at : {"new", "emit", "done"}, n : 0..2, todo : SUBSET HkSubs]]
    BY <1>1, <1>a
  <2>2. hkSaid' \in [HkEvents -> Hook!Names \cup {None}]
    BY <1>3, <1>4, <1>a
  <2> QED BY <1>0, <2>1, <2>2 DEF Hook!TypeOK
<1>6. ASSUME NEW d \in HkEvents PROVE EmitSound(d)'
  <2>1. CASE d = e
    <3>1. hkSaid'[e] = hkSaid[e] \/ (m \in DOMAIN HkTriggers[e] /\ hkSaid'[e] = HkTriggers[e][m])
      BY <1>3, <1>a
    <3>2. EmitSound(e)
      OBVIOUS
    <3>3. hkEmit'[e].n <= Len(HkTriggers[e]) /\ (hkEmit'[e].at = "emit" => hkEmit'[e].n > 0)
      BY <1>0, <1>a, <1>2, <1>d, <3>2 DEF EmitSound
    <3>4. hkEmit'[e].todo # {} => hkSaid'[e] # None
      BY <1>3, <1>4, <1>a
    <3> QED BY <2>1, <1>0, <1>1, <1>2, <3>1, <3>2, <3>3, <3>4 DEF EmitSound
  <2>2. CASE d # e
    <3>1. hkEmit'[d] = hkEmit[d] /\ hkSaid'[d] = hkSaid[d]
      BY <2>2, <1>1, <1>3, <1>a
    <3> QED BY <3>1 DEF EmitSound
  <2> QED BY <2>1, <2>2
<1>7. ASSUME NEW j \in Hook!Jobs PROVE JobSound(j)'
  <2>1. InLine(j)' = InLine(j) /\ Held(j)' = Held(j)
    BY <1>0 DEF InLine, Held
  <2>2. ASSUME Behind(j) PROVE Behind(j)'
    <3>1. CASE j.event = e
      BY <3>1, <2>2, <1>2, <1>a, JobShape DEF Behind, Awaits
    <3>2. CASE j.event # e
      <4>1. hkEmit'[j.event] = hkEmit[j.event]
        BY <3>2, <1>1, <1>a, JobShape
      <4> QED BY <4>1, <2>2 DEF Behind, Awaits
    <3> QED BY <3>1, <3>2
  <2>3. Awaits(j)' => hkEnded[j] = None
    BY <2>2 DEF Behind, Awaits, JobSound
  <2>4. InLine(j) \/ Held(j) => hkSaid'[j.event] # None
    BY <1>3, <1>4, <1>a, JobShape DEF JobSound
  <2> QED BY <1>0, <2>1, <2>2, <2>3, <2>4 DEF JobSound, InOneOf, Counted, Hook!Name
<1>8. \A w \in HkWorkers : WorkerSound(w)'
  BY <1>0 DEF WorkerSound, Tries
<1>9. Hook!TellsItsName'
  BY <1>0 DEF Hook!TellsItsName, Hook!Name
<1> QED BY <1>5, <1>6, <1>7, <1>8, <1>9

(* What is queued was awaited, and is in the queue once.                   *)
LEMMA EnqueueMovesOne ==
  ASSUME HookAssumption, HookInv, NEW e \in HkEvents, NEW s \in HkSubs, Hook!Enqueue(e, s)
  PROVE  HookInv'
<1> USE DEF HookInv
<1> DEFINE g == [event |-> e, n |-> hkEmit[e].n, sub |-> s]
<1>1. /\ UNCHANGED <<hkRow, hkSaid, hkWorker, hkAttempts, hkGot>>
      /\ s \in hkEmit[e].todo
      /\ hkEmit' = [hkEmit EXCEPT ![e].todo = @ \ {s}]
      /\ \/ Len(hkJobs) < HkQueueSize /\ hkJobs' = Append(hkJobs, g) /\ hkEnded' = hkEnded
         \/ hkEnded' = [hkEnded EXCEPT ![g] = "dropped"] /\ hkJobs' = hkJobs
  BY DEF Hook!Enqueue
<1>2. /\ hkEmit \in [HkEvents -> [at : {"new", "emit", "done"}, n : 0..2, todo : SUBSET HkSubs]]
      /\ hkJobs \in Seq(Hook!Jobs) /\ Len(hkJobs) <= HkQueueSize
      /\ hkEnded \in [Hook!Jobs -> {None} \cup Fates]
  BY DEF Hook!TypeOK, Fates
<1>3. g \in Hook!Jobs /\ g.event = e /\ g.sub = s /\ Awaits(g)
  <2>1. hkEmit[e].n \in 1..2 /\ hkEmit[e].n <= Len(HkTriggers[e])
    BY <1>1, <1>2 DEF EmitSound
  <2> QED BY <2>1, <1>1 DEF Hook!Jobs, Awaits
<1>4. ~InLine(g) /\ ~Held(g) /\ hkEnded[g] = None
  BY <1>3 DEF JobSound, Behind
<1>5. /\ hkEmit'[e] = [at |-> hkEmit[e].at, n |-> hkEmit[e].n, todo |-> hkEmit[e].todo \ {s}]
      /\ \A d \in HkEvents : d # e => hkEmit'[d] = hkEmit[d]
      /\ hkEmit' \in [HkEvents -> [at : {"new", "emit", "done"}, n : 0..2, todo : SUBSET HkSubs]]
  BY <1>1, <1>2
<1>6. Hook!TypeOK'
  <2>1. hkJobs' \in Seq(Hook!Jobs) /\ Len(hkJobs') <= HkQueueSize
    <3>1. CASE hkJobs' = hkJobs
      BY <3>1, <1>2
    <3>2. CASE Len(hkJobs) < HkQueueSize /\ hkJobs' = Append(hkJobs, g)
      <4>1. Len(hkJobs) \in Nat /\ Len(hkJobs') = Len(hkJobs) + 1
        BY <3>2, <1>2, <1>3
      <4> HIDE DEF g
      <4>2. hkJobs' \in Seq(Hook!Jobs)
        BY <3>2, <1>2, <1>3
      <4> QED BY <3>2, <4>1, <4>2 DEF HookAssumption
    <3> QED BY <1>1, <3>1, <3>2
  <2>2. hkEnded' \in [Hook!Jobs -> {None} \cup Fates]
    BY <1>1, <1>2 DEF Fates
  <2> QED BY <1>1, <1>5, <2>1, <2>2 DEF Hook!TypeOK, Fates
<1>7. ASSUME NEW d \in HkEvents PROVE EmitSound(d)'
  <2>1. EmitSound(d) /\ hkSaid'[d] = hkSaid[d]
    BY <1>1
  <2>2. hkEmit'[d].at = hkEmit[d].at /\ hkEmit'[d].n = hkEmit[d].n /\ hkEmit'[d].todo \subseteq hkEmit[d].todo
    BY <1>5
  <2> QED BY <2>1, <2>2, <1>1 DEF EmitSound
<1>8. ASSUME NEW j \in Hook!Jobs PROVE JobSound(j)'
  <2>1. Held(j)' = Held(j)
    BY <1>1 DEF Held
  <2>2. \/ Len(hkJobs') = Len(hkJobs) + 1 /\ hkJobs'[Len(hkJobs) + 1] = g /\ hkEnded' = hkEnded
           /\ \A i \in 1..Len(hkJobs) : hkJobs'[i] = hkJobs[i]
        \/ hkEnded' = [hkEnded EXCEPT ![g] = "dropped"] /\ hkJobs' = hkJobs
    BY <1>1, <1>2, <1>3
  <2>3. DOMAIN hkJobs = 1..Len(hkJobs) /\ DOMAIN hkJobs' = 1..Len(hkJobs') /\ Len(hkJobs) \in Nat
    BY <1>6, <1>2 DEF Hook!TypeOK
  <2>a. \/ /\ \A i \in DOMAIN hkJobs : i \in DOMAIN hkJobs' /\ hkJobs'[i] = hkJobs[i]
           /\ \A i \in DOMAIN hkJobs' : i \in DOMAIN hkJobs \/ (i = Len(hkJobs) + 1 /\ hkJobs'[i] = g)
           /\ Len(hkJobs) + 1 \in DOMAIN hkJobs' /\ hkEnded' = hkEnded
           /\ hkJobs'[Len(hkJobs) + 1] = g
        \/ hkEnded' = [hkEnded EXCEPT ![g] = "dropped"] /\ hkJobs' = hkJobs
    <3> HIDE DEF g
    <3>1. ASSUME Len(hkJobs') = Len(hkJobs) + 1
          PROVE  /\ \A i \in DOMAIN hkJobs : i \in DOMAIN hkJobs'
                 /\ \A i \in DOMAIN hkJobs' : i \in DOMAIN hkJobs \/ i = Len(hkJobs) + 1
                 /\ Len(hkJobs) + 1 \in DOMAIN hkJobs'
      BY <3>1, <2>3
    <3> QED BY <3>1, <2>2, <2>3
  <2>4. Awaits(j)' => Awaits(j)
    BY <1>5, JobShape DEF Awaits
  <2>5. Behind(j) => Behind(j)'
    BY <2>4, <1>5, JobShape DEF Behind
  <2>6. CASE j # g
    <3>1. InLine(j)' = InLine(j)
      <4> HIDE DEF g
      <4> QED BY <2>a, <2>6 DEF InLine
    <3>2. hkEnded'[j] = hkEnded[j]
      BY <2>2, <2>6, <1>2
    <3>3. InOneOf(j)'
      <4>1. \A i, k \in DOMAIN hkJobs' : hkJobs'[i] = j /\ hkJobs'[k] = j => i = k
        <5> HIDE DEF g
        <5> QED BY <2>a, <2>6 DEF JobSound, InOneOf
      <4> QED BY <1>1, <2>1, <2>4, <3>1, <3>2, <4>1 DEF JobSound, InOneOf
    <3> QED BY <1>1, <2>1, <2>5, <3>1, <3>2, <3>3 DEF JobSound, Counted, Hook!Name
  <2>7. CASE j = g
    <3>1. ~Held(j)' /\ ~Awaits(j)' /\ Behind(j)'
      BY <2>1, <2>7, <1>2, <1>3, <1>4, <1>5 DEF Awaits, Behind
    <3>2. hkSaid[e] # None /\ Hook!Name(g) \in HkListens[s]
      BY <1>1 DEF EmitSound, Hook!Name
    <3>3. (InLine(j)' /\ hkEnded'[j] = None) \/ (hkEnded'[j] = "dropped" /\ ~InLine(j)')
      <4> HIDE DEF g
      <4> QED BY <2>a, <2>7, <1>2, <1>3, <1>4 DEF InLine
    <3>4. \A i, k \in DOMAIN hkJobs' : hkJobs'[i] = g /\ hkJobs'[k] = g => i = k
      <4> HIDE DEF g
      <4> QED BY <2>a, <1>4 DEF InLine
    <3>5. InOneOf(j)'
      BY <1>1, <2>7, <3>1, <3>3, <3>4 DEF JobSound, InOneOf
    <3>6. Counted(j)'
      BY <1>1, <1>4, <2>7, <3>3 DEF JobSound, Counted, HookAssumption
    <3> QED BY <1>1, <2>7, <1>3, <3>1, <3>2, <3>5, <3>6 DEF JobSound, Hook!Name
  <2> QED BY <2>6, <2>7
<1>9. \A w \in HkWorkers : WorkerSound(w)'
  BY <1>1 DEF WorkerSound, Tries
<1>10. Hook!TellsItsName'
  BY <1>1 DEF Hook!TellsItsName, Hook!Name
<1> QED BY <1>6, <1>7, <1>8, <1>9, <1>10

(* The head of the queue goes to a worker.                                 *)
LEMMA TakeMovesOne ==
  ASSUME HookAssumption, HookInv, NEW w \in HkWorkers, Hook!Take(w)
  PROVE  HookInv'
<1> USE DEF HookInv
<1> DEFINE g == Head(hkJobs)
<1>1. /\ UNCHANGED <<hkRow, hkEmit, hkSaid, hkAttempts, hkEnded, hkGot>>
      /\ hkWorker[w].at = "idle" /\ hkJobs # <<>> /\ hkJobs' = Tail(hkJobs)
      /\ hkWorker' = [hkWorker EXCEPT ![w] = [at |-> "deliver", job |-> g, attempt |-> 1, ok |-> FALSE]]
  BY DEF Hook!Take
<1>2. /\ hkJobs \in Seq(Hook!Jobs) /\ Len(hkJobs) <= HkQueueSize
      /\ hkWorker \in [HkWorkers -> [at : {"idle", "deliver", "record", "sleep"},
             job : Hook!Jobs \cup {None}, attempt : 0..HkRetries, ok : BOOLEAN]]
      /\ hkWorker[w].job = None
  BY <1>1 DEF Hook!TypeOK, WorkerSound
<1>3. /\ g \in Hook!Jobs /\ g = hkJobs[1] /\ hkJobs' \in Seq(Hook!Jobs)
      /\ Len(hkJobs) \in Nat \ {0} /\ Len(hkJobs') = Len(hkJobs) - 1
      /\ DOMAIN hkJobs = 1..Len(hkJobs) /\ DOMAIN hkJobs' = 1..Len(hkJobs')
      /\ \A i \in DOMAIN hkJobs' : hkJobs'[i] = hkJobs[i + 1]
  BY <1>1, <1>2
<1>4. InLine(g) /\ ~Held(g) /\ hkEnded[g] = None /\ g # None
  BY <1>3, JobShape DEF JobSound, InOneOf, InLine
<1>5. /\ hkWorker'[w] = [at |-> "deliver", job |-> g, attempt |-> 1, ok |-> FALSE]
      /\ \A v \in HkWorkers : v # w => hkWorker'[v] = hkWorker[v]
  BY <1>1, <1>2
<1>6. Hook!TypeOK'
  <2>1. hkWorker' \in [HkWorkers -> [at : {"idle", "deliver", "record", "sleep"},
             job : Hook!Jobs \cup {None}, attempt : 0..HkRetries, ok : BOOLEAN]]
    BY <1>1, <1>2, <1>3 DEF HookAssumption
  <2>2. Len(hkJobs') <= HkQueueSize
    BY <1>2, <1>3 DEF HookAssumption
  <2> QED BY <1>1, <1>3, <2>1, <2>2 DEF Hook!TypeOK
<1>7. \A d \in HkEvents : EmitSound(d)'
  BY <1>1 DEF EmitSound
<1>8. ASSUME NEW j \in Hook!Jobs PROVE JobSound(j)'
  <2>1. Behind(j)' = Behind(j) /\ Awaits(j)' = Awaits(j)
    BY <1>1 DEF Behind, Awaits
  <2>2. \A i \in DOMAIN hkJobs' : i + 1 \in DOMAIN hkJobs
    BY <1>3
  <2>3. InLine(j)' => InLine(j)
    BY <1>3, <2>2 DEF InLine
  <2>4. j = g => ~InLine(j)'
    <3> SUFFICES ASSUME j = g, NEW i \in DOMAIN hkJobs', hkJobs'[i] = g PROVE FALSE
      BY DEF InLine
    <3>1. 1 \in DOMAIN hkJobs /\ i + 1 \in DOMAIN hkJobs /\ hkJobs[i + 1] = g /\ hkJobs[1] = g
      BY <1>3, <2>2
    <3>2. 1 = i + 1
      BY <3>1, <1>3 DEF JobSound, InOneOf
    <3> QED BY <3>2, <1>3
  <2>5. Held(j)' <=> Held(j) \/ j = g
    <3>1. j # None
      BY JobShape
    <3> QED BY <1>2, <1>5, <3>1 DEF Held
  <2>6. \A i, k \in DOMAIN hkJobs' : hkJobs'[i] = j /\ hkJobs'[k] = j => i = k
    <3> SUFFICES ASSUME NEW i \in DOMAIN hkJobs', NEW k \in DOMAIN hkJobs', hkJobs'[i] = j, hkJobs'[k] = j
                 PROVE  i = k
      OBVIOUS
    <3>1. i + 1 = k + 1
      BY <1>3, <2>2 DEF JobSound, InOneOf
    <3> QED BY <3>1, <1>3
  <2>7. \A v, u \in HkWorkers : hkWorker'[v].job = j /\ hkWorker'[u].job = j => v = u
    <3> SUFFICES ASSUME NEW v \in HkWorkers, NEW u \in HkWorkers,
                        hkWorker'[v].job = j, hkWorker'[u].job = j, v # u
                 PROVE  FALSE
      OBVIOUS
    <3>1. j = g \/ (hkWorker[v].job = j /\ hkWorker[u].job = j)
      BY <1>5
    <3>2. j = g => hkWorker[v].job = j \/ hkWorker[u].job = j
      BY <1>5
    <3> QED BY <1>4, <3>1, <3>2 DEF JobSound, InOneOf, Held
  <2>8. InOneOf(j)'
    BY <1>1, <1>4, <2>1, <2>3, <2>4, <2>5, <2>6, <2>7 DEF JobSound, InOneOf
  <2> QED BY <1>1, <1>4, <2>1, <2>3, <2>5, <2>8 DEF JobSound, Counted, Hook!Name
<1>9. ASSUME NEW v \in HkWorkers PROVE WorkerSound(v)'
  <2>1. CASE v = w
    <3>1. hkAttempts[g] = 0
      BY <1>3, <1>4 DEF JobSound, Counted
    <3> QED BY <2>1, <3>1, <1>1, <1>4, <1>5 DEF WorkerSound, Tries
  <2>2. CASE v # w
    BY <2>2, <1>1, <1>5 DEF WorkerSound, Tries
  <2> QED BY <2>1, <2>2
<1>10. Hook!TellsItsName'
  BY <1>1 DEF Hook!TellsItsName, Hook!Name
<1> QED BY <1>6, <1>7, <1>8, <1>9, <1>10

WorkerShape == [at : {"idle", "deliver", "record", "sleep"}, job : Hook!Jobs \cup {None},
                attempt : 0..HkRetries, ok : BOOLEAN]

(* What a worker that is not idle has.                                     *)
LEMMA WorkerHas ==
  ASSUME HookAssumption, HookInv, NEW w \in HkWorkers, hkWorker[w].at # "idle"
  PROVE  /\ hkWorker \in [HkWorkers -> WorkerShape]
         /\ hkWorker[w].job \in Hook!Jobs /\ Held(hkWorker[w].job)
         /\ hkEnded[hkWorker[w].job] = None
         /\ \A v \in HkWorkers : hkWorker[v].job = hkWorker[w].job => v = w
<1>1. hkWorker \in [HkWorkers -> WorkerShape]
  BY DEF HookInv, Hook!TypeOK, WorkerShape
<1>2. hkWorker[w].job \in Hook!Jobs
  BY <1>1 DEF HookInv, WorkerSound, WorkerShape
<1>3. Held(hkWorker[w].job)
  BY DEF Held
<1> QED BY <1>1, <1>2, <1>3 DEF HookInv, JobSound, InOneOf

(* A step of a worker that keeps its job, and leaves the rest alone.       *)
LEMMA KeepsItsJob ==
  ASSUME HookAssumption, HookInv, NEW w \in HkWorkers, NEW r \in WorkerShape,
         hkWorker[w].at # "idle", r.job = hkWorker[w].job, r.at # "idle",
         hkWorker' = [hkWorker EXCEPT ![w] = r],
         UNCHANGED <<hkEmit, hkSaid, hkJobs, hkEnded>>,
         \A s \in HkSubs : hkRow'[s].state = hkRow[s].state,
         \A j \in Hook!Jobs : j # r.job => hkAttempts'[j] = hkAttempts[j]
  PROVE  /\ hkWorker' \in [HkWorkers -> WorkerShape]
         /\ hkWorker'[w] = r /\ \A v \in HkWorkers : v # w => hkWorker'[v] = hkWorker[v]
         /\ \A e \in HkEvents : EmitSound(e)'
         /\ \A j \in Hook!Jobs : JobSound(j)'
         /\ \A v \in HkWorkers : v # w => WorkerSound(v)'
<1>1. /\ hkWorker' \in [HkWorkers -> WorkerShape]
      /\ hkWorker'[w] = r /\ \A v \in HkWorkers : v # w => hkWorker'[v] = hkWorker[v]
  BY WorkerHas
<1>2. \A v \in HkWorkers : hkWorker'[v].job = hkWorker[v].job
  BY <1>1
<1>3. \A e \in HkEvents : EmitSound(e)'
  BY DEF EmitSound, HookInv
<1>4. ASSUME NEW j \in Hook!Jobs PROVE JobSound(j)'
  <2>1. Held(j)' = Held(j) /\ InLine(j)' = InLine(j) /\ Awaits(j)' = Awaits(j) /\ Behind(j)' = Behind(j)
    BY <1>2 DEF Held, InLine, Awaits, Behind
  <2>2. InOneOf(j)'
    BY <1>2, <2>1 DEF HookInv, JobSound, InOneOf
  <2>3. Counted(j)'
    <3>1. CASE j # r.job
      BY <2>1, <3>1, JobShape DEF HookInv, JobSound, Counted
    <3>2. CASE j = r.job
      BY <2>1, <3>2, WorkerHas DEF HookInv, JobSound, Counted, HookAssumption
    <3> QED BY <3>1, <3>2
  <2> QED BY <2>1, <2>2, <2>3 DEF HookInv, JobSound, Hook!Name
<1>5. ASSUME NEW v \in HkWorkers, v # w PROVE WorkerSound(v)'
  <2>1. hkWorker'[v] = hkWorker[v] /\ WorkerSound(v)
    BY <1>1, <1>5 DEF HookInv
  <2>2. CASE hkWorker[v].at # "idle"
    <3>1. hkWorker[v].job \in Hook!Jobs /\ hkWorker[v].job # r.job
      BY <1>5, <2>2, WorkerHas
    <3>2. hkWorker[v].job.sub \in HkSubs
      BY <3>1, JobShape
    <3> QED BY <2>1, <3>1, <3>2 DEF WorkerSound, Tries
  <2>3. CASE hkWorker[v].at = "idle"
    BY <2>1, <2>3 DEF WorkerSound, Tries
  <2> QED BY <2>2, <2>3
<1> QED BY <1>1, <1>3, <1>4, <1>5

LEMMA DeliverTellsName ==
  ASSUME HookAssumption, HookInv, NEW w \in HkWorkers, Hook!DeliverOnce(w)
  PROVE  HookInv'
<1> DEFINE g == hkWorker[w].job
<1>1. PICK ok \in BOOLEAN, sent \in BOOLEAN, body \in Hook!Body(g) :
          /\ hkGot' = IF sent THEN hkGot \cup {<<g, body>>} ELSE hkGot
          /\ hkWorker' = [hkWorker EXCEPT ![w] = [@ EXCEPT !.at = "record", !.ok = ok]]
  BY DEF Hook!DeliverOnce
<1>2. /\ hkWorker[w].at = "deliver" /\ body = hkSaid[g.event]
      /\ UNCHANGED <<hkRow, hkEmit, hkSaid, hkJobs, hkAttempts, hkEnded>>
  BY DEF Hook!DeliverOnce, Hook!Body
<1>3. hkWorker \in [HkWorkers -> WorkerShape] /\ g \in Hook!Jobs /\ Held(g)
  BY <1>2, WorkerHas
<1> DEFINE r == [hkWorker[w] EXCEPT !.at = "record", !.ok = ok]
<1>4. r \in WorkerShape /\ r.job = g /\ r.at = "record" /\ r.attempt = hkWorker[w].attempt
      /\ hkWorker' = [hkWorker EXCEPT ![w] = r]
  BY <1>1, <1>3 DEF WorkerShape
<1>5. /\ hkWorker' \in [HkWorkers -> WorkerShape] /\ hkWorker'[w] = r
      /\ \A e \in HkEvents : EmitSound(e)'
      /\ \A j \in Hook!Jobs : JobSound(j)'
      /\ \A v \in HkWorkers : v # w => WorkerSound(v)'
  <2> HIDE DEF r
  <2> QED BY <1>2, <1>4, KeepsItsJob
<1>6. WorkerSound(w)'
  <2>1. WorkerSound(w)
    BY DEF HookInv
  <2>2. g # None
    BY <1>3, JobShape
  <2> HIDE DEF r
  <2> QED BY <1>2, <1>4, <1>5, <2>1, <2>2 DEF WorkerSound, Tries
<1>7. g.event \in HkEvents /\ body \in Hook!Names /\ Hook!Name(g) \in HkListens[g.sub]
      /\ \E n \in DOMAIN HkTriggers[g.event] : body = HkTriggers[g.event][n]
  <2>1. g.event \in HkEvents /\ body # None /\ Hook!Name(g) \in HkListens[g.sub]
    BY <1>2, <1>3, JobShape DEF HookInv, JobSound
  <2>2. \E n \in DOMAIN HkTriggers[g.event] : body = HkTriggers[g.event][n]
    BY <2>1, <1>2 DEF HookInv, EmitSound
  <2>3. HkTriggers[g.event] \in Seq(Hook!Names)
    BY <2>1 DEF HookAssumption
  <2> QED BY <2>1, <2>2, <2>3
<1>8. Len(HkTriggers[g.event]) = 1 => body = Hook!Name(g)
  <2>1. HkTriggers[g.event] \in Seq(Hook!Names) /\ g.n \in 1..2 /\ g.n <= Len(HkTriggers[g.event])
    BY <1>3, <1>7, JobShape DEF HookAssumption
  <2> QED BY <1>7, <2>1 DEF Hook!Name
<1>9. Hook!TellsItsName'
  <2> SUFFICES ASSUME NEW x \in hkGot'
               PROVE  /\ Hook!Name(x[1]) \in HkListens[x[1].sub]
                      /\ Len(HkTriggers[x[1].event]) = 1 => x[2] = Hook!Name(x[1])
    BY DEF Hook!TellsItsName, Hook!Name
  <2>1. x \in hkGot \/ x = <<g, body>>
    BY <1>1
  <2>2. CASE x \in hkGot
    BY <2>2 DEF HookInv, Hook!TellsItsName
  <2>3. CASE x = <<g, body>>
    <3>1. x[1] = g /\ x[2] = body
      BY <2>3
    <3> HIDE DEF g
    <3> QED BY <3>1, <1>7, <1>8
  <2> QED BY <2>1, <2>2, <2>3
<1>10. Hook!TypeOK'
  <2>1. hkGot' \subseteq Hook!Jobs \X Hook!Names
    BY <1>1, <1>3, <1>7 DEF HookInv, Hook!TypeOK
  <2> QED BY <1>2, <1>5, <2>1 DEF HookInv, Hook!TypeOK, WorkerShape
<1> QED BY <1>5, <1>6, <1>9, <1>10 DEF HookInv

LEMMA AwakeTriesAgain ==
  ASSUME HookAssumption, HookInv, NEW w \in HkWorkers, Hook!Awake(w)
  PROVE  HookInv'
<1> DEFINE g == hkWorker[w].job
<1>1. /\ hkWorker[w].at = "sleep"
      /\ hkWorker' = [hkWorker EXCEPT ![w].at = "deliver", ![w].attempt = @ + 1]
      /\ UNCHANGED <<hkRow, hkEmit, hkSaid, hkJobs, hkAttempts, hkEnded, hkGot>>
  BY DEF Hook!Awake
<1>2. hkWorker \in [HkWorkers -> WorkerShape] /\ g \in Hook!Jobs /\ g # None
      /\ WorkerSound(w) /\ hkWorker[w].attempt < HkRetries /\ hkWorker[w].attempt \in Nat
  BY <1>1, WorkerHas, JobShape DEF HookInv, WorkerSound, WorkerShape
<1> DEFINE r == [hkWorker[w] EXCEPT !.at = "deliver", !.attempt = hkWorker[w].attempt + 1]
<1>3. r \in WorkerShape /\ r.job = g /\ r.at = "deliver" /\ r.attempt = hkWorker[w].attempt + 1
      /\ hkWorker' = [hkWorker EXCEPT ![w] = r]
  <2>1. hkWorker[w].attempt + 1 \in 0..HkRetries
    BY <1>2 DEF HookAssumption
  <2>2. hkWorker[w] \in WorkerShape
    BY <1>2
  <2>3. ASSUME NEW n \in 0..HkRetries
        PROVE  LET x == [hkWorker[w] EXCEPT !.at = "deliver", !.attempt = n]
               IN  x \in WorkerShape /\ x.job = g /\ x.at = "deliver" /\ x.attempt = n
    BY <2>2 DEF WorkerShape
  <2>4. hkWorker' = [hkWorker EXCEPT ![w] = r]
    BY <1>1, <1>2 DEF WorkerShape
  <2> QED BY <2>1, <2>3, <2>4
<1>4. /\ hkWorker' \in [HkWorkers -> WorkerShape] /\ hkWorker'[w] = r
      /\ \A e \in HkEvents : EmitSound(e)'
      /\ \A j \in Hook!Jobs : JobSound(j)'
      /\ \A v \in HkWorkers : v # w => WorkerSound(v)'
  <2> HIDE DEF r
  <2> QED BY <1>1, <1>3, KeepsItsJob
<1>5. WorkerSound(w)'
  <2>1. r.attempt > 0 /\ r.attempt - 1 = hkWorker[w].attempt
    BY <1>2, <1>3
  <2> HIDE DEF r
  <2> QED BY <1>1, <1>2, <1>3, <1>4, <2>1 DEF WorkerSound, Tries
<1>6. Hook!TypeOK' /\ Hook!TellsItsName'
  BY <1>1, <1>4 DEF HookInv, Hook!TypeOK, WorkerShape, Hook!TellsItsName, Hook!Name
<1> QED BY <1>4, <1>5, <1>6 DEF HookInv

LEMMA FreeShape ==
  ASSUME HookAssumption
  PROVE  Hook!Free \in WorkerShape /\ Hook!Free.at = "idle" /\ Hook!Free.job = None
<1>1. 0 \in 0..HkRetries
  BY DEF HookAssumption
<1> QED BY <1>1 DEF Hook!Free, WorkerShape

LEMMA RecordEndsOnce ==
  ASSUME HookAssumption, HookInv, NEW w \in HkWorkers, Hook!Record(w)
  PROVE  HookInv'
<1> DEFINE g == hkWorker[w].job
           ok == hkWorker[w].ok
           over == ok \/ hkWorker[w].attempt = HkRetries
<1>1. /\ hkWorker[w].at = "record"
      /\ IF hkRow[g.sub].state = "deleted" THEN UNCHANGED <<hkRow, hkAttempts>>
         ELSE /\ hkAttempts' = [hkAttempts EXCEPT ![g] = @ + 1]
              /\ hkRow' = [hkRow EXCEPT ![g.sub].failures = IF ok THEN 0 ELSE @ + 1]
      /\ IF over
         THEN /\ hkEnded' = [hkEnded EXCEPT ![g] = IF ok THEN "ok" ELSE "failed"]
              /\ hkWorker' = [hkWorker EXCEPT ![w] = Hook!Free]
         ELSE /\ hkWorker' = [hkWorker EXCEPT ![w].at = "sleep"]
              /\ UNCHANGED hkEnded
      /\ UNCHANGED <<hkEmit, hkSaid, hkJobs, hkGot>>
  BY DEF Hook!Record
<1>a. hkWorker[w].at # "idle" /\ UNCHANGED <<hkEmit, hkSaid, hkJobs, hkGot>>
  BY <1>1
<1>2. /\ hkWorker \in [HkWorkers -> WorkerShape] /\ hkWorker[w] \in WorkerShape
      /\ g \in Hook!Jobs /\ g # None /\ g.sub \in HkSubs /\ Held(g) /\ hkEnded[g] = None
      /\ \A v \in HkWorkers : hkWorker[v].job = g => v = w
      /\ WorkerSound(w) /\ JobSound(g)
      /\ hkWorker[w].attempt \in 1..HkRetries
  <2>1. /\ hkWorker \in [HkWorkers -> WorkerShape] /\ g \in Hook!Jobs /\ Held(g) /\ hkEnded[g] = None
        /\ \A v \in HkWorkers : hkWorker[v].job = g => v = w
    BY <1>1, WorkerHas
  <2>2. WorkerSound(w) /\ JobSound(g)
    BY <2>1 DEF HookInv
  <2>3. hkWorker[w] \in WorkerShape
    BY <2>1
  <2>4. hkWorker[w].attempt \in 1..HkRetries
    BY <1>1, <2>2, <2>3 DEF WorkerSound, WorkerShape, HookAssumption
  <2> QED BY <2>1, <2>2, <2>3, <2>4, JobShape
<1>3. /\ hkRow \in [HkSubs -> [state : {"active", "inactive", "deleted"}, failures : Nat]]
      /\ hkAttempts \in [Hook!Jobs -> 0..HkRetries]
      /\ hkEnded \in [Hook!Jobs -> {None} \cup Fates]
  BY DEF HookInv, Hook!TypeOK, Fates
<1>4. /\ hkRow' \in [HkSubs -> [state : {"active", "inactive", "deleted"}, failures : Nat]]
      /\ \A s \in HkSubs : hkRow'[s].state = hkRow[s].state
  <2>1. CASE hkRow' = hkRow
    BY <2>1, <1>3
  <2>2. CASE hkRow' = [hkRow EXCEPT ![g.sub].failures = IF ok THEN 0 ELSE @ + 1]
    <3> HIDE DEF g, ok
    <3>1. hkRow[g.sub].failures \in Nat
      BY <1>2, <1>3
    <3> QED BY <2>2, <3>1, <1>2, <1>3
  <2> QED BY <1>1, <2>1, <2>2
<1>5. /\ hkAttempts' \in [Hook!Jobs -> 0..HkRetries]
      /\ \A j \in Hook!Jobs : j # g => hkAttempts'[j] = hkAttempts[j]
      /\ hkRow[g.sub].state # "deleted" => hkAttempts'[g] = hkWorker[w].attempt
  <2>1. CASE hkRow[g.sub].state = "deleted"
    BY <2>1, <1>1, <1>3
  <2>2. CASE hkRow[g.sub].state # "deleted"
    <3>1. hkAttempts[g] = hkWorker[w].attempt - 1
      BY <1>1, <1>2, <2>2 DEF WorkerSound, Tries
    <3>2. hkAttempts[g] + 1 = hkWorker[w].attempt /\ hkAttempts[g] + 1 \in 0..HkRetries
      BY <3>1, <1>2 DEF HookAssumption
    <3>3. hkAttempts' = [hkAttempts EXCEPT ![g] = hkAttempts[g] + 1]
      BY <1>1, <2>2
    <3> HIDE DEF g
    <3> QED BY <3>2, <3>3, <1>2, <1>3
  <2> QED BY <2>1, <2>2
<1>6. Hook!TellsItsName'
  BY <1>1 DEF HookInv, Hook!TellsItsName, Hook!Name
<1>7. CASE ~over
  <2> DEFINE r == [hkWorker[w] EXCEPT !.at = "sleep"]
  <2>1. r \in WorkerShape /\ r.job = g /\ r.at = "sleep" /\ r.attempt = hkWorker[w].attempt
        /\ r.ok = FALSE /\ hkWorker' = [hkWorker EXCEPT ![w] = r] /\ hkEnded' = hkEnded
    BY <1>1, <1>2, <1>7 DEF WorkerShape
  <2>2. /\ hkWorker' \in [HkWorkers -> WorkerShape] /\ hkWorker'[w] = r
        /\ \A e \in HkEvents : EmitSound(e)'
        /\ \A j \in Hook!Jobs : JobSound(j)'
        /\ \A v \in HkWorkers : v # w => WorkerSound(v)'
    <3>1. \A j \in Hook!Jobs : j # r.job => hkAttempts'[j] = hkAttempts[j]
      BY <1>5, <2>1
    <3> HIDE DEF r
    <3> QED BY <1>a, <1>4, <2>1, <3>1, KeepsItsJob
  <2>3. hkWorker[w].attempt < HkRetries /\ hkWorker[w].attempt > 0
    BY <1>2, <1>7 DEF HookAssumption
  <2>4. WorkerSound(w)'
    <3> HIDE DEF r
    <3> QED BY <1>2, <1>4, <1>5, <2>1, <2>2, <2>3 DEF WorkerSound, Tries
  <2>5. Hook!TypeOK'
    BY <1>1, <1>4, <1>5, <2>1, <2>2 DEF HookInv, Hook!TypeOK, WorkerShape
  <2> QED BY <1>6, <2>2, <2>4, <2>5 DEF HookInv
<1>8. CASE over
  <2>1. /\ hkEnded' \in [Hook!Jobs -> {None} \cup Fates]
        /\ hkEnded'[g] = IF ok THEN "ok" ELSE "failed"
        /\ \A j \in Hook!Jobs : j # g => hkEnded'[j] = hkEnded[j]
    BY <1>1, <1>2, <1>3, <1>8 DEF Fates
  <2>2. /\ hkWorker' \in [HkWorkers -> WorkerShape] /\ hkWorker'[w] = Hook!Free
        /\ \A v \in HkWorkers : v # w => hkWorker'[v] = hkWorker[v]
    BY <1>1, <1>2, <1>8, FreeShape
  <2>3. Hook!Free.at = "idle" /\ Hook!Free.job = None
    BY FreeShape
  <2>4. Hook!TypeOK'
    BY <1>1, <1>4, <1>5, <2>1, <2>2 DEF HookInv, Hook!TypeOK, WorkerShape, Fates
  <2>5. ASSUME NEW v \in HkWorkers PROVE WorkerSound(v)'
    <3>1. CASE v = w
      BY <2>2, <2>3, <3>1 DEF WorkerSound
    <3>2. CASE v # w /\ hkWorker[v].at # "idle"
      <4>1. hkWorker[v].job \in Hook!Jobs /\ hkWorker[v].job # g
        BY <1>2, <3>2, WorkerHas
      <4>2. hkWorker[v].job.sub \in HkSubs
        BY <4>1, JobShape
      <4>3. hkAttempts'[hkWorker[v].job] = hkAttempts[hkWorker[v].job] /\ WorkerSound(v)
        BY <1>5, <4>1 DEF HookInv
      <4> QED BY <1>4, <2>2, <3>2, <4>2, <4>3 DEF WorkerSound, Tries
    <3>3. CASE v # w /\ hkWorker[v].at = "idle"
      BY <2>2, <3>3 DEF WorkerSound, Tries, HookInv
    <3> QED BY <3>1, <3>2, <3>3
  <2>6. ASSUME NEW j \in Hook!Jobs PROVE JobSound(j)'
    <3>1. InLine(j)' = InLine(j) /\ Awaits(j)' = Awaits(j) /\ Behind(j)' = Behind(j)
      BY <1>1 DEF InLine, Awaits, Behind
    <3>2. j # None /\ JobSound(j) /\ j.sub \in HkSubs
      BY JobShape DEF HookInv
    <3>3. CASE j # g
      <4>1. Held(j)' = Held(j)
        BY <2>2, <2>3, <3>2, <3>3 DEF Held
      <4>2. \A v, u \in HkWorkers : hkWorker'[v].job = j /\ hkWorker'[u].job = j => v = u
        BY <2>2, <2>3, <3>2 DEF JobSound, InOneOf
      <4>3. InOneOf(j)'
        BY <1>1, <2>1, <3>1, <3>2, <3>3, <4>1, <4>2 DEF JobSound, InOneOf
      <4>4. Counted(j)'
        BY <1>4, <1>5, <2>1, <3>2, <3>3, <4>1 DEF JobSound, Counted
      <4> QED BY <1>1, <2>1, <3>1, <3>2, <3>3, <4>1, <4>3, <4>4 DEF JobSound, Hook!Name
    <3>4. CASE j = g
      <4>1. ~Held(j)'
        BY <1>2, <2>2, <2>3, <3>2, <3>4 DEF Held
      <4>2. ~InLine(j) /\ Behind(j) /\ ~Awaits(j)
        BY <1>2, <3>4 DEF JobSound, InOneOf, Behind
      <4>3. hkEnded'[j] # None /\ (hkEnded'[j] = "failed" => hkWorker[w].attempt = HkRetries)
        BY <1>8, <2>1, <3>4 DEF HookAssumption
      <4>4. Counted(j)'
        BY <1>4, <1>5, <3>2, <3>4, <4>3 DEF Counted
      <4>5. InOneOf(j)'
        BY <1>1, <3>1, <3>2, <4>1, <4>2 DEF JobSound, InOneOf, Held
      <4> QED BY <3>1, <4>1, <4>2, <4>4, <4>5 DEF JobSound
    <3> QED BY <3>3, <3>4
  <2>7. \A e \in HkEvents : EmitSound(e)'
    BY <1>1 DEF EmitSound, HookInv
  <2> QED BY <1>6, <2>4, <2>5, <2>6, <2>7 DEF HookInv
<1> QED BY <1>7, <1>8

LEMMA ChangeKeepsJobs ==
  ASSUME HookAssumption, HookInv, NEW s \in HkSubs, NEW st \in {"active", "inactive", "deleted"},
         Hook!Change(s, st)
  PROVE  HookInv'
<1>1. /\ hkRow[s].state # "deleted" /\ hkRow' = [hkRow EXCEPT ![s].state = st]
      /\ UNCHANGED <<hkEmit, hkSaid, hkJobs, hkWorker, hkAttempts, hkEnded, hkGot>>
  BY DEF Hook!Change
<1>2. hkRow \in [HkSubs -> [state : {"active", "inactive", "deleted"}, failures : Nat]]
  BY DEF HookInv, Hook!TypeOK
<1>3. /\ hkRow' \in [HkSubs -> [state : {"active", "inactive", "deleted"}, failures : Nat]]
      /\ \A u \in HkSubs : hkRow'[u].state # "deleted" => hkRow[u].state # "deleted"
  BY <1>1, <1>2
<1>4. Hook!TypeOK'
  BY <1>1, <1>3 DEF HookInv, Hook!TypeOK
<1>5. ASSUME NEW j \in Hook!Jobs PROVE JobSound(j)'
  <2>1. j.sub \in HkSubs /\ JobSound(j)
    BY JobShape DEF HookInv
  <2>2. Counted(j)'
    BY <1>1, <1>3, <2>1 DEF JobSound, Counted, Held
  <2> QED BY <1>1, <2>1, <2>2 DEF JobSound, InOneOf, Behind, Awaits, InLine, Held, Hook!Name
<1>6. ASSUME NEW w \in HkWorkers PROVE WorkerSound(w)'
  <2>1. WorkerSound(w)
    BY DEF HookInv
  <2>2. hkWorker[w].at # "idle" => hkWorker[w].job.sub \in HkSubs
    BY WorkerHas, JobShape
  <2> QED BY <1>1, <1>3, <2>1, <2>2 DEF WorkerSound, Tries
<1>7. \A e \in HkEvents : EmitSound(e)'
  BY <1>1 DEF EmitSound, HookInv
<1>8. Hook!TellsItsName'
  BY <1>1 DEF HookInv, Hook!TellsItsName, Hook!Name
<1> QED BY <1>4, <1>5, <1>6, <1>7, <1>8 DEF HookInv

(* The set that the model makes of these places.                           *)
LEMMA PlacesAre ==
  ASSUME HookAssumption, HookInv, NEW j \in Hook!Jobs
  PROVE  /\ Hook!Places(j) # {} <=> Awaits(j) \/ InLine(j) \/ Held(j)
         /\ \A x, y \in Hook!Places(j) : x = y
<1>1. \A x \in Hook!Places(j) :
         \/ \E i \in DOMAIN hkJobs : x = <<"queue", i>> /\ hkJobs[i] = j
         \/ \E w \in HkWorkers : x = <<"worker", w>> /\ hkWorker[w].job = j
         \/ x = <<"emit", hkEmit[j.event].n>> /\ Awaits(j)
  BY DEF Hook!Places, Awaits
<1>2. /\ \A i \in DOMAIN hkJobs : hkJobs[i] = j => <<"queue", i>> \in Hook!Places(j)
      /\ \A w \in HkWorkers : hkWorker[w].job = j => <<"worker", w>> \in Hook!Places(j)
      /\ Awaits(j) => <<"emit", hkEmit[j.event].n>> \in Hook!Places(j)
  BY DEF Hook!Places, Awaits
<1>3. Hook!Places(j) # {} <=> Awaits(j) \/ InLine(j) \/ Held(j)
  BY <1>1, <1>2 DEF InLine, Held
<1>4. JobSound(j)
  BY DEF HookInv
<1>5. ~(InLine(j) /\ Awaits(j)) /\ ~(Held(j) /\ Awaits(j)) /\ ~(InLine(j) /\ Held(j))
  BY <1>4 DEF JobSound, Behind, InOneOf
<1>6. \A x, y \in Hook!Places(j) : x = y
  <2> SUFFICES ASSUME NEW x \in Hook!Places(j), NEW y \in Hook!Places(j) PROVE x = y
    OBVIOUS
  <2>1. CASE Awaits(j)
    BY <1>1, <1>5, <2>1 DEF InLine, Held
  <2>2. CASE InLine(j)
    BY <1>1, <1>4, <1>5, <2>2 DEF JobSound, InOneOf, Held
  <2>3. CASE Held(j)
    BY <1>1, <1>4, <1>5, <2>3 DEF JobSound, InOneOf, InLine
  <2> QED BY <1>3, <2>1, <2>2, <2>3
<1> QED BY <1>3, <1>6

LEMMA CrashLosesThem ==
  ASSUME HookAssumption, HookInv, Hook!Crash
  PROVE  HookInv'
<1>1. /\ hkEnded' = [j \in Hook!Jobs |-> IF Hook!Places(j) # {} THEN "lost" ELSE hkEnded[j]]
      /\ hkEmit' = [e \in HkEvents |-> IF hkEmit[e].at = "emit"
                                       THEN [hkEmit[e] EXCEPT !.at = "done", !.todo = {}] ELSE hkEmit[e]]
      /\ hkJobs' = <<>> /\ hkWorker' = [w \in HkWorkers |-> Hook!Free]
      /\ UNCHANGED <<hkRow, hkSaid, hkAttempts, hkGot>>
  BY DEF Hook!Crash
<1>2. /\ hkEmit \in [HkEvents -> [at : {"new", "emit", "done"}, n : 0..2, todo : SUBSET HkSubs]]
      /\ hkEnded \in [Hook!Jobs -> {None} \cup Fates]
  BY DEF HookInv, Hook!TypeOK, Fates
<1>3. ASSUME NEW e \in HkEvents
      PROVE  /\ hkEmit'[e] \in [at : {"new", "done"}, n : 0..2, todo : {{}}]
             /\ hkEmit'[e].n = hkEmit[e].n /\ (hkEmit'[e].at = "new" => hkEmit[e].at = "new")
  <2>1. EmitSound(e) /\ hkEmit[e] \in [at : {"new", "emit", "done"}, n : 0..2, todo : SUBSET HkSubs]
    BY <1>2 DEF HookInv
  <2>2. CASE hkEmit[e].at = "emit"
    <3>1. hkEmit'[e] = [hkEmit[e] EXCEPT !.at = "done", !.todo = {}]
      BY <1>1, <2>2
    <3> QED BY <3>1, <2>1
  <2>3. CASE hkEmit[e].at # "emit"
    <3>1. hkEmit'[e] = hkEmit[e]
      BY <1>1, <2>3
    <3> QED BY <3>1, <2>1, <2>3 DEF EmitSound
  <2> QED BY <2>2, <2>3
<1>4. Hook!TypeOK'
  <2>1. hkEmit' \in [HkEvents -> [at : {"new", "emit", "done"}, n : 0..2, todo : SUBSET HkSubs]]
    <3>1. \A e \in HkEvents : hkEmit'[e] \in [at : {"new", "emit", "done"}, n : 0..2, todo : SUBSET HkSubs]
      BY <1>3
    <3>2. hkEmit' = [e \in HkEvents |-> hkEmit'[e]]
      BY <1>1
    <3> QED BY <3>1, <3>2
  <2>2. hkEnded' \in [Hook!Jobs -> {None} \cup Fates]
    BY <1>1, <1>2 DEF Fates
  <2>3. hkJobs' \in Seq(Hook!Jobs) /\ Len(hkJobs') <= HkQueueSize
    <3>1. <<>> \in Seq(Hook!Jobs) /\ Len(<<>>) = 0
      OBVIOUS
    <3>2. 0 <= HkQueueSize
      BY DEF HookAssumption
    <3> QED BY <1>1, <3>1, <3>2
  <2>4. hkWorker' \in [HkWorkers -> WorkerShape]
    BY <1>1, FreeShape
  <2> QED BY <1>1, <2>1, <2>2, <2>3, <2>4 DEF HookInv, Hook!TypeOK, WorkerShape, Fates
<1>5. \A e \in HkEvents : EmitSound(e)'
  BY <1>1, <1>3 DEF HookInv, EmitSound
<1>6. ASSUME NEW j \in Hook!Jobs PROVE JobSound(j)'
  <2>1. JobSound(j) /\ j # None /\ j.event \in HkEvents
    BY JobShape DEF HookInv
  <2>2. DOMAIN hkJobs' = {} /\ \A w \in HkWorkers : hkWorker'[w].job = None
    <3>1. DOMAIN <<>> = {}
      OBVIOUS
    <3> QED BY <1>1, <3>1, FreeShape
  <2>3. ~InLine(j)' /\ ~Held(j)' /\ ~Awaits(j)'
    BY <1>3, <2>1, <2>2 DEF InLine, Held, Awaits
  <2>4. hkEnded'[j] = IF Awaits(j) \/ InLine(j) \/ Held(j) THEN "lost" ELSE hkEnded[j]
    BY <1>1, PlacesAre
  <2>5. hkEnded'[j] # None => Behind(j)'
    <3>1. hkEnded'[j] # None => j.n <= hkEmit[j.event].n
      <4>1. Awaits(j) => j.n = hkEmit[j.event].n /\ j.n \in 1..2
        BY JobShape DEF Awaits
      <4> QED BY <2>1, <2>4, <4>1 DEF JobSound, Behind
    <3> QED BY <3>1, <1>3, <2>1, <2>3 DEF Behind
  <2>6. InOneOf(j)'
    BY <2>1, <2>2, <2>3 DEF InOneOf
  <2>7. Counted(j)'
    BY <1>1, <2>1, <2>3, <2>4 DEF JobSound, Counted, HookAssumption
  <2> QED BY <2>3, <2>5, <2>6, <2>7 DEF JobSound
<1>7. \A w \in HkWorkers : WorkerSound(w)'
  BY <1>1 DEF WorkerSound, Hook!Free
<1>8. Hook!TellsItsName'
  BY <1>1 DEF HookInv, Hook!TellsItsName, Hook!Name
<1> QED BY <1>4, <1>5, <1>6, <1>7, <1>8 DEF HookInv

LEMMA HookNext ==
  ASSUME HookAssumption, HookInv, [Hook!Next]_Hook!vars
  PROVE  HookInv'
<1>1. CASE Hook!Next
  BY <1>1, EmitGoesOn, EnqueueMovesOne, TakeMovesOne, DeliverTellsName, RecordEndsOnce, AwakeTriesAgain,
     ChangeKeepsJobs, CrashLosesThem DEF Hook!Next
<1>2. CASE UNCHANGED Hook!vars
  BY <1>2 DEF Hook!vars, HookInv, Hook!TypeOK, Hook!TellsItsName, Hook!Name, EmitSound, JobSound, Behind,
     InOneOf, Counted, Awaits, InLine, Held, WorkerSound, Tries
<1> QED BY <1>1, <1>2

LEMMA HookInvEnough ==
  ASSUME HookAssumption, HookInv
  PROVE  Hook!TypeOK /\ Hook!TellsItsName /\ Hook!EndsOnce
<1>1. ASSUME NEW j \in Hook!Jobs
      PROVE  /\ Hook!Cardinality(Hook!Places(j)) <= IF hkEnded[j] = None THEN 1 ELSE 0
             /\ hkEnded[j] = "failed" /\ hkRow[j.sub].state # "deleted" => hkAttempts[j] = HkRetries
  <2>1. JobSound(j)
    BY DEF HookInv
  <2>2. Hook!Cardinality(Hook!Places(j)) = Cardinality(Hook!Places(j))
    BY DEF Hook!Cardinality, Cardinality, Hook!IsFiniteSet, IsFiniteSet
  <2>3. CASE Hook!Places(j) = {}
    <3>1. Cardinality(Hook!Places(j)) = 0
      BY <2>3, FS_EmptySet
    <3> QED BY <2>1, <2>2, <3>1 DEF JobSound, Counted
  <2>4. ASSUME NEW x \in Hook!Places(j)
        PROVE  Hook!Cardinality(Hook!Places(j)) <= IF hkEnded[j] = None THEN 1 ELSE 0
    <3>1. Hook!Places(j) = {x} /\ hkEnded[j] = None
      BY <2>1, <2>4, PlacesAre DEF JobSound, InOneOf
    <3>2. Cardinality(Hook!Places(j)) = 1
      BY <3>1, FS_Singleton
    <3> QED BY <2>2, <3>1, <3>2
  <2> QED BY <2>1, <2>3, <2>4 DEF JobSound, Counted
<1>2. \A w \in HkWorkers : hkWorker[w].at = "sleep" => ~hkWorker[w].ok
  BY DEF HookInv, WorkerSound
<1> QED BY <1>1, <1>2 DEF HookInv, Hook!EndsOnce

(* A receiver is told a name it asked for, and each delivery is in one     *)
(* place until it has ended, once, given up after all its tries            *)
(* (webhooks/webhooks.go, workers/webhookdelivery.go).                     *)
THEOREM HooksEndOnce ==
  ASSUME HookAssumption
  PROVE  Hook!Spec => [](Hook!TypeOK /\ Hook!TellsItsName /\ Hook!EndsOnce)
BY HookInit, HookNext, HookInvEnough, PTL DEF Hook!Spec
=============================================================================
