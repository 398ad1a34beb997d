----------------------------- MODULE AgentTask -----------------------------
(***************************************************************************)
(* The tasks other agents give the server (server/a2a_task_handlers.go):   *)
(* a store in memory with room for a few, a goroutine for each task, the   *)
(* streams that watch them (sse.go) and the episodes the reputation is     *)
(* made of (agent_trust_handlers.go).  The action of a task is run by      *)
(* executeA2AAction; of its result the outcome is kept.  The store, the    *)
(* goroutines, the streams and the episodes end with the process.          *)
(***************************************************************************)
EXTENDS Naturals, Sequences, FiniteSets, SequencesExt

CONSTANTS Tasks, Streams,
          MaxStored, MaxEpisodes,   \* a2aTaskMaxStored, agentIdentityMaxEpisode
          MaxDirect,                \* bound on the requests without a task
          None

VARIABLES clock,     \* tasks made so far
          made,      \* task -> its CreatedAt, 0 before
          store,     \* task -> its state, or None
          run,       \* task -> where its request, then its goroutine, is
          result,    \* task -> how its action ended, or None
          ran,       \* task -> how often its action was run
          gone,      \* tasks that made room for younger ones
          stream,    \* stream -> what it watches and has told
          episodes, direct,
          recorded   \* tasks whose episode was recorded, in this process

vars == <<clock, made, store, run, result, ran, gone, stream, episodes, direct, recorded>>

Finals == {"completed", "failed", "rejected", "input_required"}
Closed == [task |-> None, open |-> FALSE, told |-> <<>>]

TypeOK ==
    /\ clock \in 0..Cardinality(Tasks) /\ made \in [Tasks -> 0..Cardinality(Tasks)]
    /\ store \in [Tasks -> {"submitted", "working"} \cup Finals \cup {None}]
    /\ run \in [Tasks -> {"no", "made", "queued", "running", "executed", "recorded", "over", "lost"}]
    /\ result \in [Tasks -> Finals \cup {None}] /\ ran \in [Tasks -> Nat]
    /\ gone \subseteq Tasks /\ recorded \subseteq Tasks /\ direct \in 0..MaxDirect
    /\ stream \in [Streams -> [task : Tasks \cup {None}, open : BOOLEAN,
                               told : Seq({"submitted", "working", "missing"} \cup Finals)]]
    /\ episodes \in Seq([task : Tasks \cup {None}, status : {"completed", "failed"}])

Init ==
    /\ clock = 0 /\ made = [t \in Tasks |-> 0]
    /\ store = [t \in Tasks |-> None] /\ run = [t \in Tasks |-> "no"]
    /\ result = [t \in Tasks |-> None] /\ ran = [t \in Tasks |-> 0] /\ gone = {}
    /\ stream = [s \in Streams |-> Closed]
    /\ episodes = <<>> /\ direct = 0 /\ recorded = {}

-----------------------------------------------------------------------------
(* handleA2ATaskCreate: the time is taken before the lock.                 *)
NewTask(t) ==
    /\ run[t] = "no"
    /\ clock' = clock + 1 /\ made' = [made EXCEPT ![t] = clock + 1]
    /\ run' = [run EXCEPT ![t] = "made"]
    /\ UNCHANGED <<store, result, ran, gone, stream, episodes, direct, recorded>>

Oldest(kept) == CHOOSE t \in kept : \A u \in kept : made[t] <= made[u]

(* The oldest makes room, whatever it is at: it may be this one.           *)
StoreTask(t) ==
    LET kept == {u \in Tasks : store[u] # None} \cup {t}
        out == IF Cardinality(kept) <= MaxStored THEN {} ELSE {Oldest(kept)}
    IN  /\ run[t] = "made"
        /\ store' = [u \in Tasks |-> IF u \in out THEN None
                                     ELSE IF u = t THEN "submitted" ELSE store[u]]
        /\ gone' = gone \cup out
        /\ run' = [run EXCEPT ![t] = "queued"]
        /\ UNCHANGED <<clock, made, result, ran, stream, episodes, direct, recorded>>

\* A task that is no longer there is not updated.
UpdateTask(t, st) == store' = [store EXCEPT ![t] = IF @ = None THEN None ELSE st]

(* runA2ATask.  What is gone before its goroutine looks is not run; what   *)
(* is gone later is.                                                       *)
StartTask(t) ==
    /\ run[t] = "queued"
    /\ run' = [run EXCEPT ![t] = IF store[t] = None THEN "over" ELSE "running"]
    /\ UpdateTask(t, "working")
    /\ UNCHANGED <<clock, made, result, ran, gone, stream, episodes, direct, recorded>>

ClassifyFailure(status) ==
    IF status \in {400, 422} THEN "input_required"
    ELSE IF status \in {401, 403} THEN "rejected" ELSE "failed"

Execute(t) ==
    /\ run[t] = "running"
    /\ \E st \in {"completed"} \cup {ClassifyFailure(code) : code \in {400, 401, 503}} :
          result' = [result EXCEPT ![t] = st]
    /\ ran' = [ran EXCEPT ![t] = @ + 1]
    /\ run' = [run EXCEPT ![t] = "executed"]
    /\ UNCHANGED <<clock, made, store, gone, stream, episodes, direct, recorded>>

\* The last MaxEpisodes.
WithEpisode(e) ==
    LET all == Append(episodes, e) IN
    IF Len(all) <= MaxEpisodes THEN all ELSE Tail(all)

RecordEpisode(t) ==
    /\ run[t] = "executed"
    /\ episodes' = WithEpisode([task |-> t,
           status |-> IF result[t] = "completed" THEN "completed" ELSE "failed"])
    /\ recorded' = recorded \cup {t}
    /\ run' = [run EXCEPT ![t] = "recorded"]
    /\ UNCHANGED <<clock, made, store, result, ran, gone, stream, direct>>

FinishTask(t) ==
    /\ run[t] = "recorded"
    /\ UpdateTask(t, result[t])
    /\ run' = [run EXCEPT ![t] = "over"]
    /\ UNCHANGED <<clock, made, result, ran, gone, stream, episodes, direct, recorded>>

(* handleA2A: the answer is the result.                                    *)
HandleA2A ==
    /\ direct < MaxDirect /\ direct' = direct + 1
    /\ \E st \in {"completed", "failed"} : episodes' = WithEpisode([task |-> None, status |-> st])
    /\ UNCHANGED <<clock, made, store, run, result, ran, gone, stream, recorded>>

-----------------------------------------------------------------------------
(* handleA2ATaskEvents: a stream is opened on a task that is there.        *)
OpenStream(s, t) ==
    /\ ~stream[s].open /\ store[t] # None
    /\ stream' = [stream EXCEPT ![s] = [task |-> t, open |-> TRUE, told |-> <<>>]]
    /\ UNCHANGED <<clock, made, store, run, result, ran, gone, episodes, direct, recorded>>

Update(t) == IF store[t] = None THEN "missing" ELSE store[t]
New(s, u) == stream[s].told = <<>> \/ Last(stream[s].told) # u

(* A turn of the ticker: what is new is told, what is final ends it.       *)
Poll(s) ==
    LET u == Update(stream[s].task) IN
    /\ stream[s].open
    /\ stream' = [stream EXCEPT ![s].told = IF New(s, u) THEN Append(@, u) ELSE @,
                                ![s].open = u \notin Finals \cup {"missing"}]
    /\ UNCHANGED <<clock, made, store, run, result, ran, gone, episodes, direct, recorded>>

(* Ten minutes, or the client.                                             *)
CloseStream(s) ==
    /\ stream[s].open
    /\ stream' = [stream EXCEPT ![s].open = FALSE]
    /\ UNCHANGED <<clock, made, store, run, result, ran, gone, episodes, direct, recorded>>

Restart ==
    /\ \E t \in Tasks : run[t] \notin {"no", "over", "lost"} \/ store[t] # None
    /\ store' = [t \in Tasks |-> None]
    /\ run' = [t \in Tasks |-> IF run[t] = "no" THEN "no" ELSE "lost"]
    /\ stream' = [s \in Streams |-> [stream[s] EXCEPT !.open = FALSE]]
    /\ episodes' = <<>> /\ recorded' = {}
    /\ UNCHANGED <<clock, made, result, ran, gone, direct>>

Next ==
    \/ \E t \in Tasks : NewTask(t) \/ StoreTask(t) \/ StartTask(t) \/ Execute(t)
                        \/ RecordEpisode(t) \/ FinishTask(t)
    \/ \E s \in Streams : Poll(s) \/ CloseStream(s) \/ \E t \in Tasks : OpenStream(s, t)
    \/ HandleA2A \/ Restart

Spec == Init /\ [][Next]_vars

-----------------------------------------------------------------------------
(* A task that was accepted is run once, unless it was gone from the store *)
(* when its goroutine looked, or the process ended.                        *)
RunsOnce == \A t \in Tasks :
    /\ ran[t] <= 1
    /\ run[t] = "over" /\ t \notin gone => ran[t] = 1 /\ store[t] = result[t]

(* Only the oldest make room: for each that left, as many younger ones     *)
(* came as the store holds, however requests overtake one another between  *)
(* the clock and the lock.                                                 *)
OldestMakesRoom == \A t \in gone :
    Cardinality({u \in Tasks : made[u] > made[t] /\ run[u] # "made"}) >= MaxStored

(* A stream never goes back: it tells each state once, in their order, and *)
(* an outcome it tells is the one of a run; only that a task is missing    *)
(* says nothing of whether it ran.                                         *)
Rank(st) == CASE st = "submitted" -> 1 [] st = "working" -> 2 [] OTHER -> 3
StreamsTellTheTruth == \A s \in Streams :
    LET told == stream[s].told IN
    /\ \A i \in 1..(Len(told) - 1) : Rank(told[i]) < Rank(told[i + 1])
    /\ \A i \in 1..Len(told) : told[i] \in Finals =>
           ran[stream[s].task] = 1 /\ told[i] = result[stream[s].task]
    /\ "missing" \in ToSet(told) => stream[s].task \in gone

(* An outcome that is shown has its episode, unless later ones pushed it   *)
(* out, and no run counts twice in the reputation.                         *)
EpisodePerRun ==
    /\ \A t \in Tasks : store[t] \in Finals => t \in recorded
    /\ \A t \in recorded :
           LET own == {i \in 1..Len(episodes) : episodes[i].task = t} IN
           Cardinality(own) <= 1 /\ (own = {} => Len(episodes) = MaxEpisodes)
=============================================================================
