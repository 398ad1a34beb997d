------------------------------ MODULE EventBus ------------------------------
(***************************************************************************)
(* The bus between the workers (workers/bus.go) and the goroutines that    *)
(* use it.  Publish holds the read lock of the bus while it offers an event to each *)
(* subscriber in turn; Subscribe, Unsubscribe and Close take the lock for  *)
(* themselves.  Every subscriber here listens to the same type.            *)
(***************************************************************************)
EXTENDS Naturals, Sequences, FiniteSets

CONSTANTS Workers,    \* goroutines that subscribe, read and publish
          Senders,    \* goroutines that publish, and shut the bus down
          Leavers,    \* workers that unsubscribe when they stop, as kyc.go does
          Capacity,   \* of a subscriber's channel
          MaxEvents   \* bound on the events published

VARIABLES subs,       \* the subscribers, in the order of their subscription
          queue,      \* worker -> its channel
          open,       \* worker -> its channel is not closed
          busClosed,
          thread,     \* goroutine -> what it does
          published,
          dropped,    \* <<event, worker>>
          handled,    \* worker -> the events it read
          target      \* event -> the subscribers when it was published

vars == <<subs, queue, open, busClosed, thread, published, dropped, handled, target>>

Threads == Workers \cup Senders
Events == 1..MaxEvents
Idle == [at |-> "run", event |-> 0, critical |-> FALSE, todo |-> <<>>]
Points == {"new", "read", "run", "offer", "wait", "leave", "close", "stopped", "panic"}
Elements(s) == {s[i] : i \in DOMAIN s}
Without(s, i) == [j \in 1..(Len(s) - 1) |-> s[IF j < i THEN j ELSE j + 1]]

TypeOK ==
    /\ subs \in Seq(Workers) /\ open \in [Workers -> BOOLEAN] /\ busClosed \in BOOLEAN
    /\ thread \in [Threads -> [at : Points, event : 0..MaxEvents, critical : BOOLEAN,
                               todo : Seq(Workers)]]
    /\ \A w \in Workers : /\ queue[w] \in Seq(Events) /\ Len(queue[w]) <= Capacity
                          /\ handled[w] \subseteq Events
    /\ published \in 0..MaxEvents /\ dropped \subseteq Events \X Workers
    /\ target \in [Events -> SUBSET Workers]

Init ==
    /\ subs = <<>> /\ queue = [w \in Workers |-> <<>>] /\ open = [w \in Workers |-> FALSE]
    /\ busClosed = FALSE /\ published = 0 /\ dropped = {}
    /\ thread = [t \in Threads |-> [Idle EXCEPT !.at = IF t \in Workers THEN "new" ELSE "run"]]
    /\ handled = [w \in Workers |-> {}]
    /\ target = [e \in Events |-> {}]

Goto(t, at) == thread' = [thread EXCEPT ![t].at = at]

\* The lock of the bus: a writer waits for the readers, a new reader for the writers.
ReadLocked == \E t \in Threads : thread[t].at \in {"offer", "wait"}
WriterWaits == \E t \in Threads : thread[t].at \in {"leave", "close"}

-----------------------------------------------------------------------------
Subscribe(w) ==
    /\ thread[w].at = "new" /\ ~ReadLocked
    /\ open' = [open EXCEPT ![w] = ~busClosed]
    /\ subs' = IF busClosed THEN subs ELSE Append(subs, w)
    /\ Goto(w, "read")
    /\ UNCHANGED <<queue, busClosed, published, dropped, handled, target>>

(* Publish up to its loop: a closed bus only counts the event.             *)
Publish(t, critical) ==
    /\ thread[t].at = "run" /\ published < MaxEvents /\ ~WriterWaits
    /\ published' = published + 1
    /\ target' = [target EXCEPT ![published + 1] = Elements(subs)]
    /\ thread' = [thread EXCEPT ![t] = [@ EXCEPT !.event = published + 1,
           !.critical = critical, !.todo = subs,
           !.at = IF subs = <<>> THEN "run" ELSE "offer"]]
    /\ UNCHANGED <<subs, queue, open, busClosed, dropped, handled>>

(* The loop goes on to the next subscriber, or ends and unlocks.           *)
Advance(t) == [thread[t] EXCEPT !.todo = Tail(@),
                              !.at = IF Len(thread[t].todo) = 1 THEN "run" ELSE "offer"]

(* publishOne, without waiting or within the time it waits; a send on a    *)
(* closed channel panics.                                                  *)
Put(t) ==
    LET w == Head(thread[t].todo) IN
    /\ thread[t].at \in {"offer", "wait"}
    /\ \/ /\ open[w] /\ Len(queue[w]) < Capacity
          /\ queue' = [queue EXCEPT ![w] = Append(@, thread[t].event)]
          /\ thread' = [thread EXCEPT ![t] = Advance(t)]
       \/ ~open[w] /\ Goto(t, "panic") /\ UNCHANGED queue
    /\ UNCHANGED <<subs, open, busClosed, published, dropped, handled, target>>

Full(t) ==
    LET w == Head(thread[t].todo) IN open[w] /\ Len(queue[w]) = Capacity

DropNow(t) ==
    /\ thread[t].at = "offer" /\ Full(t)
    /\ IF thread[t].critical THEN Goto(t, "wait") /\ UNCHANGED dropped
       ELSE /\ dropped' = dropped \cup {<<thread[t].event, Head(thread[t].todo)>>}
            /\ thread' = [thread EXCEPT ![t] = Advance(t)]
    /\ UNCHANGED <<subs, queue, open, busClosed, published, handled, target>>

\* Mutant: there is no timer.
NoTimer(t) == FALSE
TimerFires(t) == thread[t].at = "wait"

WaitEnds(t) ==
    /\ TimerFires(t)
    /\ dropped' = dropped \cup {<<thread[t].event, Head(thread[t].todo)>>}
    /\ thread' = [thread EXCEPT ![t] = Advance(t)]
    /\ UNCHANGED <<subs, queue, open, busClosed, published, handled, target>>

-----------------------------------------------------------------------------
(* The loop of a worker                                                    *)

Read(w) ==
    /\ thread[w].at = "read" /\ queue[w] # <<>>
    /\ queue' = [queue EXCEPT ![w] = Tail(@)]
    /\ handled' = [handled EXCEPT ![w] = @ \cup {Head(queue[w])}]
    /\ Goto(w, "run")
    /\ UNCHANGED <<subs, open, busClosed, published, dropped, target>>

HandlerEnds(w) ==
    /\ thread[w].at = "run"
    /\ Goto(w, "read")
    /\ UNCHANGED <<subs, queue, open, busClosed, published, dropped, handled, target>>

(* The context ends, or the channel is closed and empty.                   *)
Stop(w) ==
    /\ thread[w].at = "read"
    /\ Goto(w, IF w \in Leavers THEN "leave" ELSE "stopped")
    /\ UNCHANGED <<subs, queue, open, busClosed, published, dropped, handled, target>>

\* Mutant: the channel is closed while an event may be offered to it.
Unlocked(t) == TRUE
Exclusive(t) == ~ReadLocked

Unsubscribe(w) ==
    /\ thread[w].at = "leave" /\ Exclusive(w)
    /\ \/ /\ \E i \in DOMAIN subs : subs[i] = w /\ subs' = Without(subs, i)
          /\ open' = [open EXCEPT ![w] = FALSE]
       \/ w \notin Elements(subs) /\ UNCHANGED <<subs, open>>
    /\ Goto(w, "stopped")
    /\ UNCHANGED <<queue, busClosed, published, dropped, handled, target>>

Shutdown(t) ==
    /\ t \in Senders /\ thread[t].at = "run"
    /\ Goto(t, "close")
    /\ UNCHANGED <<subs, queue, open, busClosed, published, dropped, handled, target>>

Close(t) ==
    /\ thread[t].at = "close" /\ Exclusive(t)
    /\ busClosed' = TRUE /\ subs' = <<>>
    /\ open' = [w \in Workers |-> FALSE]
    /\ Goto(t, "stopped")
    /\ UNCHANGED <<queue, published, dropped, handled, target>>

LoopStep(t) == Put(t) \/ DropNow(t) \/ WaitEnds(t)

Next ==
    \/ \E w \in Workers : Subscribe(w) \/ Read(w) \/ HandlerEnds(w) \/ Stop(w) \/ Unsubscribe(w)
    \/ \E t \in Threads : \/ \E b \in BOOLEAN : Publish(t, b)
                          \/ LoopStep(t) \/ Shutdown(t) \/ Close(t)

(* The loop of Publish runs, its timer fires, and a lock that is free goes *)
(* to who waits for it; no worker need ever read.                          *)
Fairness ==
    /\ \A t \in Threads : WF_vars(LoopStep(t))
    /\ \A t \in Senders : WF_vars(Close(t))
    /\ \A w \in Leavers : WF_vars(Unsubscribe(w))

Spec == Init /\ [][Next]_vars
FairSpec == Spec /\ Fairness

-----------------------------------------------------------------------------
(* No event is sent on a closed channel (bus.go:60-75, 142-160): that      *)
(* would end the process.                                                  *)
NoSendOnClosed == \A t \in Threads : thread[t].at # "panic"

(* An event reaches each of its subscribers once or is counted as dropped  *)
(* there: it is with the publisher, in the channel, read or dropped, in    *)
(* one of the four (bus.go:85-135).                                        *)
Offering(e, w) == {t \in Threads : /\ thread[t].event = e /\ w \in Elements(thread[t].todo)}
Places(e, w) ==
    {<<"offered", t>> : t \in Offering(e, w)} \cup
    {<<"queued", i>> : i \in {j \in DOMAIN queue[w] : queue[w][j] = e}} \cup
    (IF e \in handled[w] THEN {<<"read", w>>} ELSE {}) \cup
    (IF <<e, w>> \in dropped THEN {<<"dropped", w>>} ELSE {})
ReachesOnce ==
    \A e \in 1..published, w \in Workers :
        Cardinality(Places(e, w)) = IF w \in target[e] THEN 1 ELSE 0

(* No publisher waits for ever, not even two workers each for the other's  *)
(* full channel, and the bus can always be shut down (bus.go:142, 166).    *)
BusGoesOn ==
    \A t \in Threads : /\ thread[t].at \in {"offer", "wait"} ~> thread[t].at = "run"
                       /\ thread[t].at = "close" ~> busClosed
=============================================================================
