-------------------------- MODULE SellPayoutProofs --------------------------
(***************************************************************************)
(* Theorems of SellPayout, for any number of orders, workers, calls and    *)
(* crashes, and any mix of payout modes.  The inductive invariant IndInv   *)
(* adds to the properties what they rest on: transfers are keyed by their  *)
(* order, a busy activity holds an order, and what an activity remembers   *)
(* of Efi's answer is still true of Efi when it is finally applied.        *)
(***************************************************************************)
EXTENDS SellPayout, FiniteSetTheorems, TLAPS

Done(o) == \E p \in pix : p.order = o /\ p.st = "done"

KeyedByOrder == /\ \A p \in pix  : p.id = p.order
                /\ \A m \in wire : m.id = m.order

BusyHoldsOrder == \A w \in Workers :
    /\ task[w].at # "idle" => task[w].order \in Orders
    /\ task[w].at \in {"submitted", "apply"} => task[w].reply \in PixStatus

RememberedIsTrue == \A w \in Workers :
    task[w].at \in {"submitted", "apply"} /\ task[w].reply = "done" => Done(task[w].order)

CompletedIsPaid == \A o \in Orders : exec[o].st = "completed" => Done(o)

IndInv == /\ TypeOK
          /\ KeyedByOrder
          /\ OnePixPerOrder
          /\ BusyHoldsOrder
          /\ RememberedIsTrue
          /\ CompletedIsPaid
          /\ ConcludedIsPaid

-----------------------------------------------------------------------------
LEMMA InitIndInv == Init => IndInv
  <1> SUFFICES ASSUME Init PROVE IndInv
    OBVIOUS
  <1> USE SellPayoutAssumption DEF Init
  <1>1. TypeOK
    BY DEF TypeOK, Funding, OrderStatus, Row, NoRow, DueStatus, TerminalStatus,
           Task, Idle, Steps, PixStatus
  <1>2. KeyedByOrder /\ OnePixPerOrder
    BY DEF KeyedByOrder, OnePixPerOrder
  <1>3. BusyHoldsOrder /\ RememberedIsTrue
    BY DEF BusyHoldsOrder, RememberedIsTrue, Idle
  <1>4. CompletedIsPaid /\ ConcludedIsPaid
    BY DEF CompletedIsPaid, ConcludedIsPaid, NoRow, Funding
  <1> QED
    BY <1>1, <1>2, <1>3, <1>4 DEF IndInv

(* Tasks and rows that the steps of an activity write are well typed.      *)
LEMMA TaskTyped ==
  ASSUME task \in [Workers -> Task], NEW w \in Workers
  PROVE  /\ Finish(w) => task' \in [Workers -> Task]
         /\ \A step \in Steps : GoTo(w, step) => task' \in [Workers -> Task]
         /\ \A step \in Steps, s \in PixStatus :
              GoWith(w, step, s) => task' \in [Workers -> Task]
  <1>1. Finish(w) => task' \in [Workers -> Task]
    BY DEF Finish, Idle, Task, Steps
  <1>2. \A step \in Steps : GoTo(w, step) => task' \in [Workers -> Task]
    BY DEF GoTo, Task
  <1>3. ASSUME NEW step \in Steps, NEW s \in PixStatus, GoWith(w, step, s)
        PROVE  task' \in [Workers -> Task]
    <2>1. [task[w] EXCEPT !.at = step, !.reply = s] \in Task
      BY DEF Task
    <2> QED
      BY <1>3, <2>1 DEF GoWith
  <1> QED
    BY <1>1, <1>2, <1>3

LEMMA RowTyped ==
  ASSUME NEW r \in Row, NEW st \in DueStatus \cup TerminalStatus \cup {"none"},
         NEW cnf \in 0..MinNotFound, NEW amb \in {"no", "fresh", "aged"},
         NEW due \in BOOLEAN
  PROVE  /\ [r EXCEPT !.st = st, !.due = due] \in Row
         /\ [r EXCEPT !.st = st, !.amb = amb, !.due = due] \in Row
         /\ [r EXCEPT !.st = st, !.cnf = cnf, !.due = due] \in Row
  BY DEF Row

LEMMA NoRowTyped == NoRow \in Row /\ 0 \in 0..MinNotFound
  BY SellPayoutAssumption DEF NoRow, Row

LEMMA DispatchTyped ==
  ASSUME task \in [Workers -> Task], NEW w \in Workers, NEW row, Dispatch(w, row)
  PROVE  /\ task' \in [Workers -> Task]
         /\ \/ Finish(w) \/ GoTo(w, "get") \/ GoTo(w, "mark")
  <1>1. Finish(w) \/ GoTo(w, "get") \/ GoTo(w, "mark")
    BY DEF Dispatch
  <1> QED
    BY <1>1, TaskTyped DEF Steps

LEMMA WorkerTypeOK ==
  ASSUME IndInv, NEW w \in Workers, WorkerStep(w)
  PROVE  TypeOK'
  <1> DEFINE o == task[w].order
  <1> USE SellPayoutAssumption DEF external
  <1>0. /\ TypeOK
        /\ task \in [Workers -> Task] /\ ord \in [Orders -> OrderStatus]
        /\ exec \in [Orders -> Row]
        /\ task[w].at # "idle" => o \in Orders
    BY DEF IndInv, TypeOK, BusyHoldsOrder
  <1>1. CASE ClaimManual(w)
    BY <1>0, <1>1, TaskTyped DEF ClaimManual, TypeOK, OrderStatus
  <1>2. CASE OverwriteStatus(w)
    BY <1>0, <1>2, TaskTyped DEF OverwriteStatus, StatusWritten, TypeOK, OrderStatus
  <1>3. CASE Claim(w)
    BY <1>0, <1>3, TaskTyped DEF Claim, TypeOK, Steps, OrderStatus
  <1>4. CASE Ensure(w)
    <2>1. task' \in [Workers -> Task]
      BY <1>0, <1>4, DispatchTyped DEF Ensure
    <2>2. [NoRow EXCEPT !.st = "pending", !.due = TRUE] \in Row
      BY RowTyped, NoRowTyped DEF DueStatus
    <2>3. exec' \in [Orders -> Row]
      BY <1>0, <1>4, <2>2 DEF Ensure
    <2> QED
      BY <1>0, <1>4, <2>1, <2>3 DEF Ensure, TypeOK
  <1>5. CASE Lookup(w)
    BY <1>0, <1>5, TaskTyped, DispatchTyped DEF Lookup, TypeOK, Steps
  <1>6. CASE MarkSubmitStarted(w)
    <2>1. task' \in [Workers -> Task]
      BY <1>0, <1>6, TaskTyped DEF MarkSubmitStarted, Steps
    <2>2. exec' \in [Orders -> Row]
      <3>1. exec[o] \in Row /\ exec[o].att + 1 \in Nat
        BY <1>0, <1>6 DEF MarkSubmitStarted, Row
      <3>2. [exec[o] EXCEPT !.st = "submit_started", !.att = exec[o].att + 1] \in Row
        BY <3>1 DEF Row, DueStatus
      <3> QED
        BY <1>0, <1>6, <3>2 DEF MarkSubmitStarted
    <2> QED
      BY <1>0, <1>6, <2>1, <2>2 DEF MarkSubmitStarted, TypeOK
  <1>7. CASE PutAnswered(w)
    <2>1. PICK s \in PixStatus :
            pix' = pix \/ pix' = pix \cup {[id |-> o, order |-> o, st |-> s]}
      BY <1>7 DEF PutAnswered, Accepted, IdEnvio, PixStatus
    <2>2. pix' \subseteq [id : Orders, order : Orders, st : PixStatus]
      BY <1>0, <1>7, <2>1 DEF PutAnswered, TypeOK
    <2>3. task' \in [Workers -> Task]
      BY <1>0, <1>7, <2>2, TaskTyped DEF PutAnswered, Steps
    <2> QED
      BY <1>0, <1>7, <2>2, <2>3 DEF PutAnswered, TypeOK
  <1>8. CASE PutRefused(w)
    BY <1>0, <1>8, TaskTyped DEF PutRefused, TypeOK, Steps
  <1>9. CASE PutUnanswered(w)
    <2>1. wire' \subseteq [id : Orders, order : Orders]
      BY <1>0, <1>9 DEF PutUnanswered, IdEnvio, TypeOK
    <2> QED
      BY <1>0, <1>9, <2>1, TaskTyped DEF PutUnanswered, TypeOK, Steps
  <1>10. CASE GetAnswered(w)
    <2>1. task' \in [Workers -> Task]
      BY <1>0, <1>10, TaskTyped DEF GetAnswered, PixFor, TypeOK, Steps
    <2> QED
      BY <1>0, <1>10, <2>1 DEF GetAnswered, TypeOK
  <1>11. CASE GetFailed(w)
    BY <1>0, <1>11, TaskTyped DEF GetFailed, TypeOK, Steps
  <1>12. CASE MarkProviderUnknown(w)
    <2> DEFINE amb == IF exec[o].amb = "no" THEN "fresh" ELSE exec[o].amb
    <2>0. exec[o] \in Row /\ amb \in {"no", "fresh", "aged"}
      BY <1>0, <1>12 DEF MarkProviderUnknown, Row
    <2>1. [exec[o] EXCEPT !.st = "provider_unknown", !.amb = amb, !.due = FALSE] \in Row
      BY <2>0, RowTyped, NoRowTyped DEF DueStatus
    <2>2. exec' \in [Orders -> Row]
      BY <1>0, <1>12, <2>1 DEF MarkProviderUnknown
    <2> QED
      BY <1>0, <1>12, <2>2, TaskTyped DEF MarkProviderUnknown, TypeOK
  <1>13. CASE MarkFailed(w)
    <2>1. exec' \in [Orders -> Row]
      BY <1>0, <1>13 DEF MarkFailed, Row, TerminalStatus
    <2> QED
      BY <1>0, <1>13, <2>1, TaskTyped DEF MarkFailed, TypeOK, OrderStatus
  <1>14. CASE MarkSubmitted(w)
    <2>1. [exec[o] EXCEPT !.st = "provider_pending", !.cnf = 0, !.due = FALSE] \in Row
      BY <1>0, <1>14, RowTyped, NoRowTyped DEF MarkSubmitted, DueStatus
    <2>2. exec' \in [Orders -> Row]
      BY <1>0, <1>14, <2>1 DEF MarkSubmitted
    <2> QED
      BY <1>0, <1>14, <2>2, TaskTyped DEF MarkSubmitted, TypeOK, Steps
  <1>15. CASE ApplyProviderEvent(w)
    <2> DEFINE next == RowStatus(task[w].reply)
    <2>1. next \in DueStatus \cup TerminalStatus \cup {"none"}
      BY <1>15 DEF ApplyProviderEvent, IndInv, BusyHoldsOrder, RowStatus, PixStatus,
                   DueStatus, TerminalStatus
    <2>2. [exec[o] EXCEPT !.st = next, !.cnf = 0, !.due = FALSE] \in Row
      BY <1>0, <1>15, <2>1, RowTyped, NoRowTyped DEF ApplyProviderEvent
    <2>3. exec' \in [Orders -> Row]
      BY <1>0, <1>15, <2>2 DEF ApplyProviderEvent
    <2>4. \/ ord' = ord
          \/ ord' = [ord EXCEPT ![o] = "concluida"]
          \/ ord' = [ord EXCEPT ![o] = "incidente_validacao"]
      BY <1>15 DEF ApplyProviderEvent
    <2>5. ord' \in [Orders -> OrderStatus]
      BY <1>0, <2>4 DEF OrderStatus
    <2> QED
      BY <1>0, <1>15, <2>3, <2>5, TaskTyped DEF ApplyProviderEvent, TypeOK
  <1>16. CASE MarkNotFound(w)
    <2> DEFINE st(g) == IF g THEN "manual_review" ELSE exec[o].st
               cnf   == IF exec[o].cnf < MinNotFound THEN exec[o].cnf + 1 ELSE exec[o].cnf
    <2>0. /\ exec[o] \in Row /\ cnf \in 0..MinNotFound
          /\ \A g \in BOOLEAN : st(g) \in DueStatus \cup TerminalStatus \cup {"none"}
      BY <1>0, <1>16 DEF MarkNotFound, Row, TerminalStatus
    <2>1. \A g \in BOOLEAN :
            [exec[o] EXCEPT !.st = st(g), !.cnf = cnf, !.due = FALSE] \in Row
      BY <2>0, RowTyped
    <2>2. exec' \in [Orders -> Row]
      BY <1>0, <1>16, <2>1 DEF MarkNotFound
    <2> QED
      BY <1>0, <1>16, <2>2, TaskTyped DEF MarkNotFound, TypeOK, OrderStatus
  <1> QED
    BY <1>1, <1>2, <1>3, <1>4, <1>5, <1>6, <1>7, <1>8, <1>9, <1>10, <1>11, <1>12,
       <1>13, <1>14, <1>15, <1>16 DEF WorkerStep

(* What a step of activity w can do to the things the invariant relates:   *)
(* only w's task moves, and a row completes, or an order concludes, only   *)
(* when Efi's answer "done" is applied (or in simulation).                 *)
Applies(w, x) == task[w].at = "apply" /\ task[w].reply = "done" /\ x = task[w].order

Effect(w) ==
    /\ hand' = hand
    /\ \A v \in Workers \ {w} : task'[v] = task[v]
    /\ \A x \in Orders : exec'[x].st = "completed" =>
          exec[x].st = "completed" \/ Applies(w, x)
    /\ \A x \in Orders : ord'[x] = "concluida" =>
          ord[x] = "concluida" \/ Applies(w, x) \/ x \in shown'
    /\ shown \subseteq shown'
    /\ \/ task'[w] = Idle
       \/ /\ task[w].at # "idle" /\ task'[w].order = task[w].order
          /\ \/ task'[w].at \notin {"submitted", "apply"}
             \/ task[w].at = "submitted" /\ task'[w].reply = task[w].reply
             \/ /\ task[w].at \in {"put", "get"}
                /\ \E p \in pix' : p.id = IdEnvio(task[w].order) /\ task'[w].reply = p.st

LEMMA WorkerEffect ==
  ASSUME IndInv, NEW w \in Workers, WorkerStep(w)
  PROVE  Effect(w)
  <1> DEFINE o == task[w].order
  <1> USE DEF Effect, Applies, external
  <1>0. /\ task \in [Workers -> Task] /\ ord \in [Orders -> OrderStatus]
        /\ exec \in [Orders -> Row]
        /\ task[w].at # "idle" => o \in Orders
    BY DEF IndInv, TypeOK, BusyHoldsOrder
  <1>1. CASE ClaimManual(w)
    BY <1>0, <1>1 DEF ClaimManual, Finish
  <1>2. CASE OverwriteStatus(w)
    BY <1>0, <1>2 DEF OverwriteStatus, StatusWritten, Finish
  <1>3. CASE Claim(w)
    BY <1>0, <1>3 DEF Claim, Finish, GoTo, Task
  <1>4. CASE Ensure(w)
    <2>1. \A x \in Orders : exec'[x].st = "completed" => exec[x].st = "completed"
      BY <1>0, <1>4 DEF Ensure, NoRow
    <2>2. Finish(w) \/ GoTo(w, "get") \/ GoTo(w, "mark")
      BY <1>0, <1>4, DispatchTyped DEF Ensure
    <2> QED
      BY <1>0, <1>4, <2>1, <2>2 DEF Ensure, Finish, GoTo, Task
  <1>5. CASE Lookup(w)
    <2>1. Finish(w) \/ GoTo(w, "get") \/ GoTo(w, "mark") \/ GoTo(w, "missing")
      BY <1>0, <1>5, DispatchTyped DEF Lookup
    <2> QED
      BY <1>0, <1>5, <2>1 DEF Lookup, Finish, GoTo, Task
  <1>6. CASE MarkSubmitStarted(w)
    BY <1>0, <1>6 DEF MarkSubmitStarted, GoTo, Task, Row
  <1>7. CASE PutAnswered(w)
    BY <1>0, <1>7 DEF PutAnswered, GoWith, Task
  <1>8. CASE PutRefused(w)
    BY <1>0, <1>8 DEF PutRefused, GoTo, Task
  <1>9. CASE PutUnanswered(w)
    BY <1>0, <1>9 DEF PutUnanswered, GoTo, Task
  <1>10. CASE GetAnswered(w)
    BY <1>0, <1>10 DEF GetAnswered, PixFor, GoTo, GoWith, Task
  <1>11. CASE GetFailed(w)
    BY <1>0, <1>11 DEF GetFailed, GoTo, Task
  <1>12. CASE MarkProviderUnknown(w)
    BY <1>0, <1>12 DEF MarkProviderUnknown, Finish, Row
  <1>13. CASE MarkFailed(w)
    BY <1>0, <1>13 DEF MarkFailed, Finish, Row
  <1>14. CASE MarkSubmitted(w)
    BY <1>0, <1>14 DEF MarkSubmitted, GoTo, Task, Row
  <1>15. CASE ApplyProviderEvent(w)
    <2>1. task[w].reply \in PixStatus
      BY <1>15 DEF ApplyProviderEvent, IndInv, BusyHoldsOrder
    <2>2. RowStatus(task[w].reply) = "completed" <=> task[w].reply = "done"
      BY <2>1 DEF RowStatus, PixStatus
    <2>3. \A x \in Orders : exec'[x].st = "completed" =>
            exec[x].st = "completed" \/ (x = o /\ RowStatus(task[w].reply) = "completed")
      BY <1>0, <1>15 DEF ApplyProviderEvent, Row
    <2>4. \A x \in Orders : ord'[x] = "concluida" =>
            ord[x] = "concluida" \/ (x = o /\ RowStatus(task[w].reply) = "completed")
      BY <1>0, <1>15 DEF ApplyProviderEvent
    <2> QED
      BY <1>0, <1>15, <2>2, <2>3, <2>4 DEF ApplyProviderEvent, Finish
  <1>16. CASE MarkNotFound(w)
    <2>1. /\ task[w].at = "notFound" /\ Finish(w)
          /\ \A x \in Orders : ord'[x] = "concluida" => ord[x] = "concluida"
      BY <1>0, <1>16 DEF MarkNotFound
    <2>2. \A x \in Orders : exec'[x].st = "completed" => exec[x].st = "completed"
      <3>1. o \in Orders /\ exec[o] \in Row
        BY <1>0, <2>1
      <3>2. CASE exec' = exec
        BY <3>2
      <3>3. CASE exec' # exec
        <4> DEFINE g == exec[o].amb = "aged" /\ exec[o].cnf + 1 >= MinNotFound
                   st == IF g THEN "manual_review" ELSE exec[o].st
                   cnf == IF exec[o].cnf < MinNotFound THEN exec[o].cnf + 1 ELSE exec[o].cnf
                   n == [exec[o] EXCEPT !.st = st, !.cnf = cnf, !.due = FALSE]
        <4>1. exec' = [exec EXCEPT ![o] = n] /\ exec[o].st # "completed"
          BY <1>16, <3>3 DEF MarkNotFound
        <4>2. st # "completed"
          BY <4>1
        <4> HIDE DEF g, st, cnf
        <4>3. n.st = st
          BY <3>1 DEF Row
        <4> HIDE DEF n
        <4>4. \A x \in Orders : exec'[x] = IF x = o THEN n ELSE exec[x]
          BY <1>0, <3>1, <4>1
        <4> QED
          BY <4>2, <4>3, <4>4
      <3> QED
        BY <3>2, <3>3
    <2> QED
      BY <1>0, <1>16, <2>1, <2>2 DEF MarkNotFound, Finish
  <1> QED
    BY <1>1, <1>2, <1>3, <1>4, <1>5, <1>6, <1>7, <1>8, <1>9, <1>10, <1>11, <1>12,
       <1>13, <1>14, <1>15, <1>16 DEF WorkerStep

(* Efi's side: transfers stay keyed by their order and unique, and one     *)
(* that is done stays.                                                     *)
EfiKept == /\ KeyedByOrder' /\ OnePixPerOrder'
           /\ \A p \in pix : p.st = "done" => p \in pix'

LEMMA AddingOnePix ==
  ASSUME IndInv, NEW o \in Orders, NEW s \in PixStatus,
         pix' = pix \/ (PixFor(o) = {} /\ pix' = pix \cup {[id |-> o, order |-> o, st |-> s]}),
         \A m \in wire' : m.id = m.order
  PROVE  EfiKept
  BY DEF IndInv, KeyedByOrder, OnePixPerOrder, PixFor, EfiKept

LEMMA WorkerEfi ==
  ASSUME IndInv, NEW w \in Workers, WorkerStep(w)
  PROVE  EfiKept
  <1> DEFINE o == task[w].order
  <1>0. task[w].at # "idle" => o \in Orders
    BY DEF IndInv, BusyHoldsOrder
  <1>1. CASE PutAnswered(w)
    <2>1. o \in Orders /\ \A m \in wire' : m.id = m.order
      BY <1>0, <1>1 DEF PutAnswered, IndInv, KeyedByOrder
    <2>2. PICK s \in PixStatus : pix' = pix \/
            (PixFor(o) = {} /\ pix' = pix \cup {[id |-> o, order |-> o, st |-> s]})
      BY <1>1 DEF PutAnswered, Accepted, IdEnvio, PixStatus
    <2> QED
      BY <2>1, <2>2, AddingOnePix
  <1>2. CASE PutUnanswered(w)
    BY <1>2 DEF PutUnanswered, IdEnvio, IndInv, KeyedByOrder, OnePixPerOrder, EfiKept
  <1>3. CASE UNCHANGED <<pix, wire>>
    BY <1>3 DEF IndInv, KeyedByOrder, OnePixPerOrder, EfiKept
  <1> QED
    BY <1>1, <1>2, <1>3 DEF WorkerStep, external, ClaimManual, OverwriteStatus, Claim, Ensure,
       Lookup, MarkSubmitStarted, PutRefused, GetAnswered, GetFailed, MarkProviderUnknown,
       MarkFailed, MarkSubmitted, ApplyProviderEvent, MarkNotFound

-----------------------------------------------------------------------------
LEMMA WorkerIndInv ==
  ASSUME IndInv, NEW w \in Workers, WorkerStep(w)
  PROVE  IndInv'
  <1>1. TypeOK' /\ Effect(w) /\ EfiKept
    BY WorkerTypeOK, WorkerEffect, WorkerEfi
  <1>2. \A x \in Orders : Done(x) => Done(x)'
    BY <1>1 DEF Done, EfiKept
  <1>3. \A x \in Orders : Applies(w, x) => Done(x)
    BY DEF Applies, IndInv, RememberedIsTrue
  <1>4. ASSUME NEW v \in Workers
        PROVE  /\ task'[v].at # "idle" => task'[v].order \in Orders
               /\ task'[v].at \in {"submitted", "apply"} => task'[v].reply \in PixStatus
    <2>1. CASE v # w
      BY <1>1, <2>1 DEF Effect, IndInv, BusyHoldsOrder
    <2>2. CASE v = w
      <3>1. \A p \in pix' : p.st \in PixStatus
        BY <1>1 DEF TypeOK
      <3> QED
        BY <1>1, <2>2, <3>1 DEF Effect, Idle, IndInv, BusyHoldsOrder
    <2> QED
      BY <2>1, <2>2
  <1>5. ASSUME NEW v \in Workers, task'[v].at \in {"submitted", "apply"},
               task'[v].reply = "done"
        PROVE  \E p \in pix' : p.order = task'[v].order /\ p.st = "done"
    <2>1. CASE v # w
      BY <1>1, <1>2, <1>5, <2>1 DEF Effect, IndInv, RememberedIsTrue, BusyHoldsOrder, Done
    <2>2. CASE v = w
      <3>1. CASE task[w].at = "submitted" /\ task'[w].reply = task[w].reply
        BY <1>1, <1>2, <1>5, <2>2, <3>1 DEF Effect, Idle, IndInv, RememberedIsTrue,
           BusyHoldsOrder, Done
      <3>2. CASE \E p \in pix' : p.id = IdEnvio(task[w].order) /\ task'[w].reply = p.st
        <4>1. PICK p \in pix' : p.id = task[w].order /\ p.st = "done"
          BY <1>5, <2>2, <3>2 DEF IdEnvio
        <4>2. p.order = task[w].order /\ task'[w].order = task[w].order
          BY <1>1, <1>5, <2>2, <4>1 DEF Effect, EfiKept, KeyedByOrder, Idle
        <4> QED
          BY <4>1, <4>2, <2>2
      <3> QED
        BY <1>1, <1>5, <2>2, <3>1, <3>2 DEF Effect, Idle
    <2> QED
      BY <2>1, <2>2
  <1>6. CompletedIsPaid'
    BY <1>1, <1>2, <1>3 DEF Effect, IndInv, CompletedIsPaid
  <1>7. ConcludedIsPaid'
    <2>1. \A x \in Orders : Paid(x) => Paid(x)'
      BY <1>1, <1>2 DEF Paid, Done, Effect
    <2> QED
      BY <1>1, <1>2, <1>3, <2>1 DEF Effect, IndInv, ConcludedIsPaid, Paid, Done
  <1>8. BusyHoldsOrder' /\ RememberedIsTrue'
    BY <1>4, <1>5 DEF BusyHoldsOrder, RememberedIsTrue, Done
  <1> QED
    BY <1>1, <1>6, <1>7, <1>8 DEF IndInv, EfiKept

(* Starting and ending an activity.                                        *)
LEMMA BeginIndInv ==
  ASSUME IndInv, NEW w \in Workers, NEW o \in Orders, TakeEvent(w, o) \/ Recover(w, o)
  PROVE  IndInv'
  <1> DEFINE step == FirstStep(w, o)
  <1>1. step \in Steps \ {"submitted", "apply"}
    BY DEF FirstStep, Steps
  <1>2. /\ task'[w] \in Task
        /\ task'[w].at # "idle" => task'[w].order = o
        /\ task'[w].at \notin {"submitted", "apply"}
        /\ task' \in [Workers -> Task]
        /\ \A v \in Workers \ {w} : task'[v] = task[v]
    <2>1. \/ step = "idle" /\ task' = [task EXCEPT ![w] = Idle]
          \/ task' = [task EXCEPT ![w] = [at |-> step, order |-> o, reply |-> "none"]]
      BY DEF TakeEvent, Recover, Begin
    <2>2. Idle \in Task /\ [at |-> step, order |-> o, reply |-> "none"] \in Task
      BY <1>1 DEF Idle, Task, Steps
    <2> QED
      BY <1>1, <2>1, <2>2 DEF IndInv, TypeOK, Idle
  <1>3. /\ exec' \in [Orders -> Row] /\ bus' \in [Orders -> Nat]
        /\ \A x \in Orders : exec'[x].st = exec[x].st
    <2>1. CASE TakeEvent(w, o)
      BY <2>1 DEF TakeEvent, IndInv, TypeOK
    <2>2. CASE Recover(w, o)
      <3>1. [exec[o] EXCEPT !.due = FALSE] \in Row
        BY DEF IndInv, TypeOK, Row
      <3> QED
        BY <2>2, <3>1 DEF Recover, IndInv, TypeOK, Row
    <2> QED
      BY <2>1, <2>2
  <1>4. /\ UNCHANGED <<ord, call, pix, wire, hand, shown, crashes>>
    BY DEF TakeEvent, Recover, external
  <1>5. TypeOK'
    BY <1>2, <1>3, <1>4 DEF IndInv, TypeOK
  <1>6. KeyedByOrder' /\ OnePixPerOrder' /\ CompletedIsPaid' /\ ConcludedIsPaid'
    BY <1>3, <1>4 DEF IndInv, KeyedByOrder, OnePixPerOrder, CompletedIsPaid, Done,
       ConcludedIsPaid, Paid
  <1>7. BusyHoldsOrder' /\ RememberedIsTrue'
    BY <1>2, <1>4 DEF IndInv, BusyHoldsOrder, RememberedIsTrue, Done
  <1> QED
    BY <1>5, <1>6, <1>7 DEF IndInv

LEMMA EndIndInv ==
  ASSUME IndInv, Crash \/ \E w \in Workers : Abandon(w)
  PROVE  IndInv'
  <1>1. /\ UNCHANGED <<ord, exec, pix, wire, hand, shown>>
        /\ call' \in [Calls -> Orders \cup {"new", "done"}]
        /\ bus' \in [Orders -> Nat] /\ crashes' \in 0..MaxCrashes
    BY SellPayoutAssumption DEF Crash, Abandon, external, IndInv, TypeOK
  <1>2. /\ task' \in [Workers -> Task]
        /\ \A v \in Workers : task'[v] = task[v] \/ task'[v].at = "idle"
    BY DEF Crash, Abandon, Finish, Idle, Task, Steps, IndInv, TypeOK
  <1>3. TypeOK'
    BY <1>1, <1>2 DEF IndInv, TypeOK
  <1> QED
    BY <1>1, <1>2, <1>3 DEF IndInv, KeyedByOrder, OnePixPerOrder, CompletedIsPaid, Done,
       ConcludedIsPaid, Paid, BusyHoldsOrder, RememberedIsTrue

(* Steps of the environment write no row but for the clocks.               *)
LEMMA EnvironmentIndInv ==
  ASSUME IndInv, Environment
  PROVE  IndInv'
  <1> USE DEF external
  <1>1. ASSUME NEW o \in Orders, DepositConfirmed(o) \/ \E c \in Calls :
                 SignerChecks(c, o) \/ SignerWrites(c, o)
        PROVE  IndInv'
    <2>1. /\ UNCHANGED <<exec, task, pix, wire, hand, shown, crashes>>
          /\ ord' \in [Orders -> OrderStatus] /\ bus' \in [Orders -> Nat]
          /\ call' \in [Calls -> Orders \cup {"new", "done"}]
          /\ \A x \in Orders : ord'[x] = "concluida" => ord[x] = "concluida"
      BY <1>1 DEF DepositConfirmed, SignerChecks, SignerWrites, Publish, IndInv, TypeOK,
         OrderStatus
    <2>2. TypeOK'
      BY <2>1 DEF IndInv, TypeOK
    <2> QED
      BY <2>1, <2>2 DEF IndInv, KeyedByOrder, OnePixPerOrder, CompletedIsPaid, Done,
         ConcludedIsPaid, Paid, BusyHoldsOrder, RememberedIsTrue
  <1>2. ASSUME NEW o \in Orders, PayByHand(o) \/ MarkManualPixPaid(o)
        PROVE  IndInv'
    <2>1. /\ UNCHANGED <<exec, bus, call, task, pix, wire, shown, crashes>>
          /\ ord' \in [Orders -> OrderStatus] /\ hand' \subseteq Orders
          /\ hand \subseteq hand'
          /\ \A x \in Orders : ord'[x] = "concluida" => ord[x] = "concluida" \/ x \in hand'
      BY <1>2 DEF PayByHand, MarkManualPixPaid, IndInv, TypeOK, OrderStatus
    <2>2. TypeOK'
      BY <2>1 DEF IndInv, TypeOK
    <2> QED
      BY <2>1, <2>2 DEF IndInv, KeyedByOrder, OnePixPerOrder, CompletedIsPaid, Done,
         ConcludedIsPaid, Paid, BusyHoldsOrder, RememberedIsTrue
  <1>3. ASSUME NEW o \in Orders, BecomesDue(o) \/ GraceElapses(o)
        PROVE  IndInv'
    <2>1. [exec[o] EXCEPT !.due = TRUE] \in Row /\ [exec[o] EXCEPT !.amb = "aged"] \in Row
      BY DEF IndInv, TypeOK, Row
    <2>2. /\ UNCHANGED <<ord, bus, call, task, pix, wire, hand, shown, crashes>>
          /\ exec' \in [Orders -> Row]
          /\ \A x \in Orders : exec'[x].st = exec[x].st
      <3>1. CASE BecomesDue(o)
        BY <3>1, <2>1 DEF BecomesDue, IndInv, TypeOK, Row
      <3>2. CASE GraceElapses(o)
        BY <3>2, <2>1 DEF GraceElapses, IndInv, TypeOK, Row
      <3> QED
        BY <1>3, <3>1, <3>2
    <2>3. TypeOK'
      BY <2>2 DEF IndInv, TypeOK
    <2> QED
      BY <2>2, <2>3 DEF IndInv, KeyedByOrder, OnePixPerOrder, CompletedIsPaid, Done,
         ConcludedIsPaid, Paid, BusyHoldsOrder, RememberedIsTrue
  <1>4. ASSUME NEW p \in pix, PixWebhook(p)
        PROVE  IndInv'
    <2>1. /\ UNCHANGED <<exec, bus, call, task, pix, wire, hand, shown, crashes>>
          /\ ord' \in [Orders -> OrderStatus]
          /\ \A x \in Orders : ord'[x] = "concluida" => ord[x] = "concluida" \/ Done(x)
      BY <1>4 DEF PixWebhook, IndInv, TypeOK, OrderStatus, PixStatus, Done
    <2>2. TypeOK'
      BY <2>1 DEF IndInv, TypeOK
    <2> QED
      BY <2>1, <2>2 DEF IndInv, KeyedByOrder, OnePixPerOrder, CompletedIsPaid, Done,
         ConcludedIsPaid, Paid, BusyHoldsOrder, RememberedIsTrue
  <1>5. ASSUME UNCHANGED <<ord, exec, bus, call, task, hand, shown, crashes>>, EfiKept, TypeOK'
        PROVE  IndInv'
    <2>1. \A x \in Orders : Done(x) => Done(x)'
      BY <1>5 DEF Done, EfiKept
    <2> QED
      BY <1>5, <2>1 DEF IndInv, EfiKept, CompletedIsPaid, Done, ConcludedIsPaid, Paid,
         BusyHoldsOrder, RememberedIsTrue
  <1>6. ASSUME NEW m \in wire, WireArrives(m) \/ WireLost(m)
        PROVE  IndInv'
    <2>1. m.id = m.order /\ m.order \in Orders /\ wire' \subseteq wire
      BY <1>6 DEF WireArrives, WireLost, IndInv, KeyedByOrder, TypeOK
    <2>2. pix' = pix \/ (PixFor(m.order) = {} /\
             pix' = pix \cup {[id |-> m.order, order |-> m.order, st |-> "processing"]})
      BY <1>6, <2>1 DEF WireArrives, WireLost
    <2>3. EfiKept
      BY <2>1, <2>2, AddingOnePix DEF PixStatus, IndInv, KeyedByOrder
    <2>4. TypeOK'
      BY <1>6, <2>1, <2>2 DEF WireArrives, WireLost, IndInv, TypeOK, PixStatus
    <2> QED
      BY <1>5, <1>6, <2>3, <2>4 DEF WireArrives, WireLost
  <1>7. ASSUME NEW p \in pix, PixSettles(p)
        PROVE  IndInv'
    <2>1. PICK s \in {"done", "refused"} : pix' = (pix \ {p}) \cup {[p EXCEPT !.st = s]}
      BY <1>7 DEF PixSettles
    <2>2. p = [id |-> p.id, order |-> p.order, st |-> p.st]
      BY DEF IndInv, TypeOK
    <2>3. [p EXCEPT !.st = s] = [id |-> p.id, order |-> p.order, st |-> s]
      BY <2>2
    <2>4. TypeOK'
      BY <1>7, <2>1, <2>3 DEF PixSettles, IndInv, TypeOK, PixStatus
    <2>5. EfiKept
      BY <1>7, <2>1, <2>3 DEF PixSettles, IndInv, TypeOK, KeyedByOrder, OnePixPerOrder, EfiKept
    <2> QED
      BY <1>5, <1>7, <2>4, <2>5 DEF PixSettles
  <1> QED
    BY <1>1, <1>2, <1>3, <1>4, <1>6, <1>7 DEF Environment

LEMMA NextIndInv == IndInv /\ [Next]_vars => IndInv'
  <1> SUFFICES ASSUME IndInv, [Next]_vars PROVE IndInv'
    OBVIOUS
  <1>1. CASE \E w \in Workers : WorkerStep(w)
    BY <1>1, WorkerIndInv
  <1>2. CASE \E w \in Workers, o \in Orders : TakeEvent(w, o) \/ Recover(w, o)
    BY <1>2, BeginIndInv
  <1>3. CASE Crash \/ \E w \in Workers : Abandon(w)
    BY <1>3, EndIndInv
  <1>4. CASE Environment
    BY <1>4, EnvironmentIndInv
  <1>5. CASE UNCHANGED vars
    BY <1>5 DEF vars, IndInv, TypeOK, KeyedByOrder, OnePixPerOrder, CompletedIsPaid, Done,
       ConcludedIsPaid, Paid, BusyHoldsOrder, RememberedIsTrue
  <1> QED
    BY <1>1, <1>2, <1>3, <1>4, <1>5 DEF Next

(* The inductive invariant holds of every behaviour.                       *)
THEOREM SellPayoutInvariant == Spec => []IndInv
  BY InitIndInv, NextIndInv, PTL DEF Spec

(* Every variable keeps its type.                                          *)
THEOREM SellPayoutTypeOK == Spec => []TypeOK
  <1>1. IndInv => TypeOK
    BY DEF IndInv
  <1> QED
    BY <1>1, SellPayoutInvariant, PTL

(* Efi never holds two transfers for one order.                            *)
THEOREM EfiPaysOnce == Spec => []OnePixPerOrder
  <1>1. IndInv => OnePixPerOrder
    BY DEF IndInv
  <1> QED
    BY <1>1, SellPayoutInvariant, PTL

(* No order is shown as concluded before its seller has been paid.         *)
THEOREM ConcludedOrdersArePaid == Spec => []ConcludedIsPaid
  <1>1. IndInv => ConcludedIsPaid
    BY DEF IndInv
  <1> QED
    BY <1>1, SellPayoutInvariant, PTL

-----------------------------------------------------------------------------
(* A completed row is only ever rewritten as completed.                    *)
LEMMA CompletedKept ==
  ASSUME IndInv, [Next]_vars, NEW o \in Orders, exec[o].st = "completed"
  PROVE  exec'[o].st = "completed"
  <1> USE DEF IndInv, TypeOK, Row
  <1>1. CASE \E w \in Workers : WorkerStep(w)
    <2> SUFFICES ASSUME NEW w \in Workers, WorkerStep(w) PROVE exec'[o].st = "completed"
      BY <1>1
    <2>1. CASE Ensure(w)
      BY <2>1 DEF Ensure
    <2>2. CASE MarkSubmitStarted(w)
      BY <2>2 DEF MarkSubmitStarted
    <2>3. CASE MarkProviderUnknown(w)
      BY <2>3 DEF MarkProviderUnknown, TerminalStatus
    <2>4. CASE MarkFailed(w)
      BY <2>4 DEF MarkFailed
    <2>5. CASE MarkSubmitted(w)
      BY <2>5 DEF MarkSubmitted, TerminalStatus
    <2>6. CASE ApplyProviderEvent(w)
      BY <2>6 DEF ApplyProviderEvent
    <2>7. CASE MarkNotFound(w)
      BY <2>7 DEF MarkNotFound
    <2>8. CASE UNCHANGED exec
      BY <2>8
    <2> QED
      BY <2>1, <2>2, <2>3, <2>4, <2>5, <2>6, <2>7, <2>8 DEF WorkerStep, ClaimManual,
         OverwriteStatus, Claim, Lookup, PutAnswered, PutRefused, PutUnanswered,
         GetAnswered, GetFailed
  <1>2. CASE \E w \in Workers, x \in Orders : TakeEvent(w, x) \/ Recover(w, x)
    BY <1>2 DEF TakeEvent, Recover
  <1>3. CASE Crash \/ \E w \in Workers : Abandon(w)
    BY <1>3 DEF Crash, Abandon
  <1>4. CASE Environment
    <2>1. CASE \E x \in Orders : BecomesDue(x)
      BY <2>1 DEF BecomesDue
    <2>2. CASE \E x \in Orders : GraceElapses(x)
      BY <2>2 DEF GraceElapses
    <2>3. CASE UNCHANGED exec
      BY <2>3
    <2> QED
      BY <1>4, <2>1, <2>2, <2>3 DEF Environment, DepositConfirmed, PayByHand,
         MarkManualPixPaid, SignerChecks, SignerWrites, WireArrives, WireLost, PixSettles,
         PixWebhook
  <1>5. CASE UNCHANGED vars
    BY <1>5 DEF vars
  <1> QED
    BY <1>1, <1>2, <1>3, <1>4, <1>5 DEF Next

(* No late timeout, rejection or 404 answer changes a completed verdict.   *)
THEOREM CompletedNeverChanges == Spec => CompletedIsFinal
  <1>1. IndInv /\ [Next]_vars =>
          [\A o \in Orders : exec[o].st = "completed" => exec'[o].st = "completed"]_vars
    BY CompletedKept
  <1> QED
    BY <1>1, SellPayoutInvariant, PTL DEF Spec, CompletedIsFinal

-----------------------------------------------------------------------------
(* What keeps submissions safe.  An activity on the paying path is an      *)
(* automatic one and its order can be paid; a request that is still on the *)
(* wire, too.  A row whose submit was counted has left "pending" for ever, *)
(* so nobody who reads it afterwards marks it again.  And as long as no    *)
(* signer call meddles, a row, or an activity past its claim, is only      *)
(* found on an order that was claimed.                                     *)
Unpayable   == NoPixKey \cup BadAmount
PayingSteps == {"claim", "ensure", "lookup", "missing", "mark", "put", "get", "unknown",
                "rejected", "submitted", "apply", "notFound"}
Closed      == {"concluida", "incidente_validacao", "erro"}
Claimed     == Closed \cup {"processando_payout"}
NoCalls     == \A c \in Calls : call[c] = "new"
OnPath(w, o) == task[w].at \in PayingSteps \ {"claim"} /\ task[w].order = o

PayersAreSound == \A w \in Workers : task[w].at \in PayingSteps =>
    Mode[w] = "auto" /\ task[w].order \notin Unpayable
RequestsArePayable == \A m \in wire : m.order \notin Unpayable
AttemptLeavesPending == \A o \in Orders :
    exec[o].att > 0 => exec[o].st \notin {"none", "pending"}
RowFollowsClaim == NoCalls => \A o \in Orders :
    exec[o].st # "none" \/ (\E w \in Workers : OnPath(w, o)) => ord[o] \in Claimed

SafeInv == /\ PayersAreSound /\ RequestsArePayable /\ UnpayableIsNotPaid
           /\ AttemptLeavesPending /\ SubmitsOnlySideBySide
           /\ RowFollowsClaim /\ CompletedClosesOrder

LEMMA AutomaticFinite ==
  /\ IsFiniteSet(Automatic) /\ Cardinality(Automatic) \in Nat
  /\ \A S \in SUBSET Automatic : IsFiniteSet(S) /\ Cardinality(S) \in Nat
                                 /\ Cardinality(S) <= Cardinality(Automatic)
  <1>1. IsFiniteSet(Automatic)
    BY SellPayoutAssumption, FS_Subset DEF Automatic
  <1> QED
    BY <1>1, FS_Subset, FS_CardinalityType

LEMMA InitSafeInv == Init => SafeInv
  <1> SUFFICES ASSUME Init PROVE SafeInv
    OBVIOUS
  <1> USE DEF Init, NoRow, Idle
  <1>1. PayersAreSound /\ RequestsArePayable /\ UnpayableIsNotPaid
    BY DEF PayersAreSound, RequestsArePayable, UnpayableIsNotPaid, PayingSteps
  <1>2. AttemptLeavesPending /\ SubmitsOnlySideBySide /\ CompletedClosesOrder
    BY DEF AttemptLeavesPending, SubmitsOnlySideBySide, CompletedClosesOrder
  <1>3. RowFollowsClaim
    BY DEF RowFollowsClaim, OnPath, PayingSteps
  <1> QED
    BY <1>1, <1>2, <1>3 DEF SafeInv

(* The part of the invariant that speaks of one activity's next step.      *)
Proceeds(w) ==
    \/ task'[w] = Idle
    \/ /\ task[w].at \in PayingSteps /\ task'[w].at \in PayingSteps \ {"claim"}
       /\ task'[w].order = task[w].order
       /\ task[w].at = "claim" => ord'[task[w].order] \in Claimed
       /\ task'[w].at = "mark" => exec'[task[w].order].att = 0

LEMMA DispatchProceeds ==
  ASSUME NEW w \in Workers, NEW row \in Row, Dispatch(w, row),
         row.att > 0 => row.st \notin {"none", "pending"}
  PROVE  \/ Finish(w) \/ GoTo(w, "get")
         \/ GoTo(w, "mark") /\ row.att = 0
  BY DEF Dispatch, Row, DueStatus, TerminalStatus

LEMMA WorkerProceeds ==
  ASSUME IndInv, AttemptLeavesPending, NEW w \in Workers, WorkerStep(w)
  PROVE  Proceeds(w)
  <1> DEFINE o == task[w].order
  <1> USE DEF Proceeds, PayingSteps
  <1>0. /\ task \in [Workers -> Task] /\ ord \in [Orders -> OrderStatus]
        /\ exec \in [Orders -> Row] /\ task[w] \in Task
        /\ task[w].at # "idle" => o \in Orders
    BY DEF IndInv, TypeOK, BusyHoldsOrder
  <1>1. ASSUME Finish(w) PROVE Proceeds(w)
    BY <1>0, <1>1 DEF Finish
  <1>2. ASSUME NEW step \in PayingSteps \ {"claim", "mark"}, GoTo(w, step),
               task[w].at \in PayingSteps \ {"claim"}
        PROVE  Proceeds(w)
    BY <1>0, <1>2 DEF GoTo, Task
  <1>3. ASSUME NEW step \in PayingSteps \ {"claim", "mark"}, NEW s, GoWith(w, step, s),
               task[w].at \in PayingSteps \ {"claim"}
        PROVE  Proceeds(w)
    BY <1>0, <1>3 DEF GoWith, Task
  <1>4. CASE Claim(w)
    BY <1>0, <1>1, <1>4 DEF Claim, GoTo, Task, Claimed
  <1>5. CASE Ensure(w)
    <2> DEFINE row == IF exec[o].st = "none"
                      THEN [NoRow EXCEPT !.st = "pending", !.due = TRUE] ELSE exec[o]
    <2>1. row \in Row /\ (row.att > 0 => row.st \notin {"none", "pending"})
      <3>1. o \in Orders /\ exec[o] \in Row
        BY <1>0, <1>5 DEF Ensure
      <3>2. /\ [NoRow EXCEPT !.st = "pending", !.due = TRUE] \in Row
            /\ [NoRow EXCEPT !.st = "pending", !.due = TRUE].att = 0
        BY RowTyped, NoRowTyped DEF DueStatus, NoRow
      <3> QED
        BY <3>1, <3>2 DEF AttemptLeavesPending
    <2>2. exec'[o] = row /\ Dispatch(w, row) /\ task[w].at = "ensure"
      BY <1>0, <1>5 DEF Ensure
    <2> HIDE DEF row
    <2>3. Finish(w) \/ GoTo(w, "get") \/ (GoTo(w, "mark") /\ row.att = 0)
      BY <2>1, <2>2, DispatchProceeds
    <2> QED
      BY <1>0, <1>1, <1>2, <2>2, <2>3 DEF GoTo, Task
  <1>6. CASE Lookup(w)
    <2>1. CASE exec[o].st = "none"
      BY <1>2, <1>6, <2>1 DEF Lookup
    <2>2. CASE exec[o].st # "none"
      <3>1. Dispatch(w, exec[o]) /\ exec' = exec /\ task[w].at = "lookup" /\ exec[o] \in Row
        BY <1>0, <1>6, <2>2 DEF Lookup
      <3>2. Finish(w) \/ GoTo(w, "get") \/ (GoTo(w, "mark") /\ exec[o].att = 0)
        BY <1>0, <3>1, DispatchProceeds DEF AttemptLeavesPending
      <3> QED
        BY <1>0, <1>1, <1>2, <3>1, <3>2 DEF GoTo, Task
    <2> QED
      BY <2>1, <2>2
  <1>7. CASE MarkSubmitStarted(w) \/ PutRefused(w) \/ PutUnanswered(w) \/ GetFailed(w)
    BY <1>2, <1>7 DEF MarkSubmitStarted, PutRefused, PutUnanswered, GetFailed
  <1>8. CASE PutAnswered(w) \/ GetAnswered(w) \/ MarkSubmitted(w)
    BY <1>2, <1>3, <1>8 DEF PutAnswered, GetAnswered, MarkSubmitted
  <1> QED
    BY <1>1, <1>4, <1>5, <1>6, <1>7, <1>8 DEF WorkerStep, ClaimManual, OverwriteStatus,
       MarkProviderUnknown, MarkFailed, ApplyProviderEvent, MarkNotFound

(* What a step of activity w does to the rows: one appears only where w    *)
(* ensures it, a submit is counted only by the marking step, which leaves  *)
(* "pending", and a row completes only where Efi's answer is applied.      *)
RowMoves(w) == \A x \in Orders :
    /\ exec'[x].st # "none" => exec[x].st # "none" \/ OnPath(w, x)
    /\ \/ exec'[x].att = exec[x].att
       \/ /\ task[w].at = "mark" /\ task[w].order = x
          /\ exec'[x].att = exec[x].att + 1 /\ exec'[x].st = "submit_started"
    /\ exec'[x].st \in {"none", "pending"} => exec[x].st \in {"none", "pending"}
    /\ exec'[x].st = "completed" =>
          \/ exec[x].st = "completed"
          \/ OnPath(w, x) /\ (ord[x] \in Claimed => ord'[x] \in Closed)

LEMMA WorkerRows ==
  ASSUME IndInv, AttemptLeavesPending, NEW w \in Workers, WorkerStep(w)
  PROVE  RowMoves(w)
  <1> DEFINE o == task[w].order
  <1> USE DEF RowMoves, OnPath, PayingSteps
  <1>0. /\ exec \in [Orders -> Row] /\ ord \in [Orders -> OrderStatus]
        /\ task[w].at # "idle" => o \in Orders
    BY DEF IndInv, TypeOK, BusyHoldsOrder
  <1>1. CASE UNCHANGED exec
    BY <1>1
  <1>2. CASE Ensure(w)
    BY <1>0, <1>2 DEF Ensure, NoRow, AttemptLeavesPending, Row
  <1>3. CASE MarkSubmitStarted(w)
    <2>1. o \in Orders /\ \A x \in Orders \ {o} : exec'[x] = exec[x]
      BY <1>0, <1>3 DEF MarkSubmitStarted
    <2>2. \/ exec'[o] = exec[o]
          \/ /\ exec'[o].att = exec[o].att + 1 /\ exec'[o].st = "submit_started"
             /\ exec[o].st # "none"
      BY <1>0, <1>3, <2>1 DEF MarkSubmitStarted, Row
    <2> QED
      BY <1>3, <2>1, <2>2 DEF MarkSubmitStarted
  <1>4. CASE MarkProviderUnknown(w)
    <2>1. o \in Orders /\ \A x \in Orders \ {o} : exec'[x] = exec[x]
      BY <1>0, <1>4 DEF MarkProviderUnknown
    <2>2. exec[o] = [st |-> exec[o].st, att |-> exec[o].att, amb |-> exec[o].amb,
                     cnf |-> exec[o].cnf, due |-> exec[o].due]
      BY <1>0, <2>1 DEF Row
    <2>3. exec'[o].att = exec[o].att
      BY <1>0, <1>4, <2>1, <2>2 DEF MarkProviderUnknown
    <2>4. exec'[o].st \in {exec[o].st, "provider_unknown"}
      BY <1>0, <1>4, <2>1, <2>2 DEF MarkProviderUnknown
    <2>5. o \in Orders /\ exec[o].st = "none" => OnPath(w, o)
      BY <1>4 DEF MarkProviderUnknown
    <2> QED
      BY <1>4, <2>1, <2>3, <2>4, <2>5 DEF MarkProviderUnknown
  <1>5. CASE MarkFailed(w)
    <2>1. o \in Orders /\ \A x \in Orders \ {o} : exec'[x] = exec[x]
      BY <1>0, <1>5 DEF MarkFailed
    <2>2. exec'[o].att = exec[o].att /\ exec'[o].st \in {exec[o].st, "manual_review"}
      BY <1>0, <1>5, <2>1 DEF MarkFailed, Row
    <2> QED
      BY <1>5, <2>1, <2>2 DEF MarkFailed
  <1>6. CASE MarkSubmitted(w)
    <2>1. o \in Orders /\ \A x \in Orders \ {o} : exec'[x] = exec[x]
      BY <1>0, <1>6 DEF MarkSubmitted
    <2>2. exec'[o].att = exec[o].att /\ exec'[o].st \in {exec[o].st, "provider_pending"}
      <3> DEFINE n == [exec[o] EXCEPT !.st = "provider_pending", !.cnf = 0, !.due = FALSE]
      <3>1. exec' = exec \/ exec' = [exec EXCEPT ![o] = n]
        BY <1>6 DEF MarkSubmitted
      <3>2. n.att = exec[o].att /\ n.st = "provider_pending"
        BY <1>0, <2>1 DEF Row
      <3> HIDE DEF n
      <3> QED
        BY <1>0, <2>1, <3>1, <3>2
    <2>3. exec[o].st = "none" => OnPath(w, o)
      BY <1>6 DEF MarkSubmitted
    <2> QED
      BY <2>1, <2>2, <2>3
  <1>7. CASE ApplyProviderEvent(w)
    <2> DEFINE next == RowStatus(task[w].reply)
    <2>1. next \in {"completed", "failed", "provider_pending"}
      BY <1>7 DEF ApplyProviderEvent, IndInv, BusyHoldsOrder, RowStatus, PixStatus
    <2>2. task[w].at = "apply" /\ o \in Orders
      BY <1>0, <1>7 DEF ApplyProviderEvent
    <2>3. CASE exec[o].st = "completed"
      BY <1>7, <2>3 DEF ApplyProviderEvent
    <2>4. CASE exec[o].st # "completed"
      <3>1. /\ \A x \in Orders : x # o => exec'[x] = exec[x]
            /\ exec'[o].st = next /\ exec'[o].att = exec[o].att
        BY <1>0, <1>7, <2>2, <2>4 DEF ApplyProviderEvent, Row
      <3>2. next = "completed" /\ ord[o] \in Claimed => ord'[o] \in Closed
        BY <1>0, <1>7, <2>2, <2>4 DEF ApplyProviderEvent, Claimed, Closed
      <3> HIDE DEF next
      <3> QED
        BY <2>1, <2>2, <3>1, <3>2
    <2> QED
      BY <2>3, <2>4
  <1>8. CASE MarkNotFound(w)
    <2>1. o \in Orders /\ \A x \in Orders \ {o} : exec'[x] = exec[x]
      BY <1>0, <1>8 DEF MarkNotFound
    <2>4. exec[o] = [st |-> exec[o].st, att |-> exec[o].att, amb |-> exec[o].amb,
                     cnf |-> exec[o].cnf, due |-> exec[o].due]
      BY <1>0, <2>1 DEF Row
    <2>2. exec'[o].att = exec[o].att
      BY <1>0, <1>8, <2>1, <2>4 DEF MarkNotFound
    <2>3. exec'[o].st \in {exec[o].st, "manual_review"}
      BY <1>0, <1>8, <2>1, <2>4 DEF MarkNotFound
    <2> QED
      BY <1>8, <2>1, <2>2, <2>3 DEF MarkNotFound
  <1> QED
    BY <1>1, <1>2, <1>3, <1>4, <1>5, <1>6, <1>7, <1>8 DEF WorkerStep, ClaimManual,
       OverwriteStatus, Claim, Lookup, PutAnswered, PutRefused, PutUnanswered,
       GetAnswered, GetFailed

(* Claimed and closed orders stay so, whatever the activities write.       *)
LEMMA WorkerClosing ==
  ASSUME IndInv, NEW w \in Workers, WorkerStep(w)
  PROVE  /\ call' = call
         /\ \A x \in Orders : /\ ord[x] \in Claimed => ord'[x] \in Claimed
                              /\ ord[x] \in Closed  => ord'[x] \in Closed
  <1> DEFINE o == task[w].order
  <1> USE DEF Claimed, Closed
  <1>0. ord \in [Orders -> OrderStatus]
    BY DEF IndInv, TypeOK
  <1>1. CASE OverwriteStatus(w)
    BY <1>0, <1>1 DEF OverwriteStatus, StatusWritten, external
  <1>2. CASE ClaimManual(w) \/ Claim(w)
    BY <1>0, <1>2 DEF ClaimManual, Claim, external
  <1>3. CASE MarkFailed(w) \/ ApplyProviderEvent(w) \/ MarkNotFound(w)
    <2>1. \/ ord' = ord
          \/ ord' = [ord EXCEPT ![o] = "concluida"]
          \/ ord' = [ord EXCEPT ![o] = "incidente_validacao"]
      BY <1>3 DEF MarkFailed, ApplyProviderEvent, MarkNotFound
    <2> QED
      BY <1>0, <1>3, <2>1 DEF MarkFailed, ApplyProviderEvent, MarkNotFound
  <1>4. CASE UNCHANGED <<ord, call>>
    BY <1>4
  <1> QED
    BY <1>1, <1>2, <1>3, <1>4 DEF WorkerStep, external, Ensure, Lookup, MarkSubmitStarted,
       PutAnswered, PutRefused, PutUnanswered, GetAnswered, GetFailed, MarkProviderUnknown,
       MarkSubmitted

(* Efi's side of an activity's step: what is new there is its own order.   *)
LEMMA WorkerAsks ==
  ASSUME IndInv, NEW w \in Workers, WorkerStep(w)
  PROVE  /\ \A p \in pix' : p \in pix \/ (task[w].at \in PayingSteps /\ p.order = task[w].order)
         /\ \A m \in wire' : m \in wire \/ (task[w].at \in PayingSteps /\ m.order = task[w].order)
  <1>1. CASE PutAnswered(w)
    BY <1>1 DEF PutAnswered, Accepted, PayingSteps
  <1>2. CASE PutUnanswered(w)
    BY <1>2 DEF PutUnanswered, PayingSteps
  <1>3. CASE UNCHANGED <<pix, wire>>
    BY <1>3
  <1> QED
    BY <1>1, <1>2, <1>3 DEF WorkerStep, external, ClaimManual, OverwriteStatus, Claim, Ensure,
       Lookup, MarkSubmitStarted, PutRefused, GetAnswered, GetFailed, MarkProviderUnknown,
       MarkFailed, MarkSubmitted, ApplyProviderEvent, MarkNotFound

(* The count of submits, plus those about to be made, does not grow.       *)
LEMMA WorkerCount ==
  ASSUME IndInv, SafeInv, NEW w \in Workers, WorkerStep(w), NEW x \in Orders,
         exec'[x].att > 0
  PROVE  exec'[x].att + Cardinality(Marking(x)') <= Cardinality(Automatic)
  <1>1. /\ Proceeds(w) /\ RowMoves(w) /\ \A v \in Workers \ {w} : task'[v] = task[v]
        /\ PayersAreSound /\ SubmitsOnlySideBySide
    BY WorkerProceeds, WorkerRows, WorkerEffect DEF SafeInv, Effect
  <1>2. exec[x].att \in Nat
    BY DEF IndInv, TypeOK, Row
  <1>3. Marking(x) \in SUBSET Automatic
    BY <1>1 DEF Marking, Automatic, PayersAreSound, PayingSteps
  <1>4. Marking(x)' \in SUBSET Marking(x)
    BY <1>1 DEF Marking, Proceeds, Idle
  <1>5. /\ Cardinality(Marking(x)) \in Nat /\ IsFiniteSet(Marking(x))
        /\ Cardinality(Automatic) \in Nat
        /\ Cardinality(Marking(x)) <= Cardinality(Automatic)
    BY <1>3, AutomaticFinite
  <1>6. CASE exec'[x].att = exec[x].att
    <2>1. /\ Cardinality(Marking(x)') <= Cardinality(Marking(x))
          /\ Cardinality(Marking(x)') \in Nat
      BY <1>4, <1>5, FS_Subset, FS_CardinalityType
    <2>2. exec[x].att + Cardinality(Marking(x)) <= Cardinality(Automatic)
      BY <1>1, <1>6 DEF SubmitsOnlySideBySide
    <2> QED
      BY <1>2, <1>5, <1>6, <2>1, <2>2
  <1>7. CASE /\ task[w].at = "mark" /\ task[w].order = x
             /\ exec'[x].att = exec[x].att + 1
    <2>1. w \in Marking(x) /\ w \notin Marking(x)'
      BY <1>1, <1>2, <1>7 DEF Marking, Proceeds, Idle
    <2>2. Marking(x)' \in SUBSET (Marking(x) \ {w})
      BY <1>4, <2>1
    <2>3. /\ IsFiniteSet(Marking(x) \ {w})
          /\ Cardinality(Marking(x) \ {w}) = Cardinality(Marking(x)) - 1
      BY <1>5, <2>1, FS_RemoveElement
    <2>4. /\ Cardinality(Marking(x)') <= Cardinality(Marking(x)) - 1
          /\ Cardinality(Marking(x)') \in Nat
      BY <2>2, <2>3, FS_Subset, FS_CardinalityType
    <2>5. exec[x].att > 0 =>
            exec[x].att + Cardinality(Marking(x)) <= Cardinality(Automatic)
      BY <1>1 DEF SubmitsOnlySideBySide
    <2> QED
      BY <1>2, <1>5, <1>7, <2>4, <2>5
  <1> QED
    BY <1>1, <1>6, <1>7 DEF RowMoves

LEMMA WorkerSafeInv ==
  ASSUME IndInv, SafeInv, NEW w \in Workers, WorkerStep(w)
  PROVE  SafeInv'
  <1>1. /\ Proceeds(w) /\ RowMoves(w) /\ \A v \in Workers \ {w} : task'[v] = task[v]
        /\ PayersAreSound /\ RequestsArePayable /\ UnpayableIsNotPaid
        /\ AttemptLeavesPending /\ RowFollowsClaim /\ CompletedClosesOrder
    BY WorkerProceeds, WorkerRows, WorkerEffect DEF SafeInv, Effect
  <1>2. PayersAreSound'
    BY <1>1 DEF PayersAreSound, Proceeds, Idle, PayingSteps
  <1>3. RequestsArePayable' /\ UnpayableIsNotPaid'
    BY <1>1, WorkerAsks DEF PayersAreSound, RequestsArePayable, UnpayableIsNotPaid, Unpayable
  <1>4. AttemptLeavesPending'
    BY <1>1 DEF RowMoves, AttemptLeavesPending
  <1>5. SubmitsOnlySideBySide'
    BY WorkerCount DEF SubmitsOnlySideBySide
  <1>6. RowFollowsClaim'
    <2> SUFFICES ASSUME NoCalls', NEW x \in Orders,
                        exec'[x].st # "none" \/ (\E v \in Workers : OnPath(v, x)')
                 PROVE  ord'[x] \in Claimed
      BY DEF RowFollowsClaim
    <2>1. NoCalls /\ (ord[x] \in Claimed => ord'[x] \in Claimed)
      BY WorkerClosing DEF NoCalls
    <2>2. CASE exec[x].st # "none" \/ \E v \in Workers : OnPath(v, x)
      BY <1>1, <2>1, <2>2 DEF RowFollowsClaim
    <2>3. CASE OnPath(w, x)' /\ task[w].at = "claim"
      BY <1>1, <2>3 DEF Proceeds, OnPath, Idle, PayingSteps
    <2>4. OnPath(w, x)' => OnPath(w, x) \/ task[w].at = "claim"
      BY <1>1 DEF Proceeds, OnPath, Idle, PayingSteps
    <2>5. \A v \in Workers \ {w} : OnPath(v, x)' => OnPath(v, x)
      BY <1>1 DEF OnPath
    <2> QED
      BY <1>1, <2>2, <2>3, <2>4, <2>5 DEF RowMoves
  <1>7. CompletedClosesOrder'
    <2> SUFFICES ASSUME NoCalls', NEW x \in Orders, exec'[x].st = "completed"
                 PROVE  ord'[x] \in Closed
      BY DEF CompletedClosesOrder, NoCalls, Closed
    <2>1. NoCalls /\ (ord[x] \in Closed => ord'[x] \in Closed)
      BY WorkerClosing DEF NoCalls
    <2>2. CASE exec[x].st = "completed"
      BY <1>1, <2>1, <2>2 DEF CompletedClosesOrder, NoCalls, Closed
    <2>3. CASE OnPath(w, x) /\ (ord[x] \in Claimed => ord'[x] \in Closed)
      BY <1>1, <2>1, <2>3 DEF RowFollowsClaim
    <2> QED
      BY <1>1, <2>2, <2>3 DEF RowMoves
  <1> QED
    BY <1>2, <1>3, <1>4, <1>5, <1>6, <1>7 DEF SafeInv

(* An activity starts on the paying path only with an order that can be    *)
(* paid, and past the claim only if the order was claimed already.         *)
LEMMA BeginSafeInv ==
  ASSUME IndInv, SafeInv, NEW w \in Workers, NEW o \in Orders, TakeEvent(w, o) \/ Recover(w, o)
  PROVE  SafeInv'
  <1> DEFINE step == FirstStep(w, o)
  <1>1. /\ step \in PayingSteps => Mode[w] = "auto" /\ o \notin Unpayable
        /\ step \in PayingSteps \ {"claim"} => ord[o] \in Claimed
        /\ step # "mark"
    BY SellPayoutAssumption DEF FirstStep, PayingSteps, Unpayable, Claimed, Closed, Modes
  <1>2. /\ \A v \in Workers \ {w} : task'[v] = task[v]
        /\ task'[w] = Idle \/ (task'[w].at = step /\ task'[w].order = o)
    BY DEF TakeEvent, Recover, Begin, IndInv, TypeOK
  <1>3. /\ \A x \in Orders : exec'[x].st = exec[x].st /\ exec'[x].att = exec[x].att
        /\ UNCHANGED <<ord, call, pix, wire>>
    BY DEF TakeEvent, Recover, external, IndInv, TypeOK, Row
  <1> HIDE DEF step
  <1>4. PayersAreSound'
    BY <1>1, <1>2 DEF SafeInv, PayersAreSound, Idle, PayingSteps
  <1>5. RequestsArePayable' /\ UnpayableIsNotPaid' /\ AttemptLeavesPending' /\ CompletedClosesOrder'
    BY <1>3 DEF SafeInv, RequestsArePayable, UnpayableIsNotPaid, AttemptLeavesPending,
       CompletedClosesOrder
  <1>6. SubmitsOnlySideBySide'
    <2>1. \A x \in Orders : Marking(x)' \in SUBSET Marking(x) /\ Marking(x) \in SUBSET Automatic
      BY <1>1, <1>2 DEF Marking, Automatic, Idle, SafeInv, PayersAreSound, PayingSteps
    <2>2. \A x \in Orders : /\ Cardinality(Marking(x)') <= Cardinality(Marking(x))
                            /\ Cardinality(Marking(x)') \in Nat /\ Cardinality(Marking(x)) \in Nat
      BY <2>1, AutomaticFinite, FS_Subset, FS_CardinalityType
    <2>3. \A x \in Orders : exec[x].att \in Nat
      BY DEF IndInv, TypeOK, Row
    <2> SUFFICES ASSUME NEW x \in Orders, exec[x].att > 0
                 PROVE  exec[x].att + Cardinality(Marking(x)') <= Cardinality(Automatic)
      BY <1>3 DEF SubmitsOnlySideBySide
    <2>4. exec[x].att + Cardinality(Marking(x)) <= Cardinality(Automatic)
      BY DEF SafeInv, SubmitsOnlySideBySide
    <2> QED
      BY <2>2, <2>3, <2>4, AutomaticFinite
  <1>7. RowFollowsClaim'
    <2> SUFFICES ASSUME NoCalls', NEW x \in Orders,
                        exec'[x].st # "none" \/ (\E v \in Workers : OnPath(v, x)')
                 PROVE  ord'[x] \in Claimed
      BY DEF RowFollowsClaim
    <2>1. NoCalls /\ ord'[x] = ord[x] /\ exec'[x].st = exec[x].st
      BY <1>3 DEF NoCalls
    <2>2. \A v \in Workers \ {w} : OnPath(v, x)' => OnPath(v, x)
      BY <1>2 DEF OnPath
    <2>3. OnPath(w, x)' => ord[x] \in Claimed
      BY <1>1, <1>2 DEF OnPath, Idle, PayingSteps
    <2> QED
      BY <2>1, <2>2, <2>3 DEF SafeInv, RowFollowsClaim
  <1> QED
    BY <1>4, <1>5, <1>6, <1>7 DEF SafeInv

(* A step that starts no activity, counts no submit and asks Efi nothing   *)
(* new.                                                                    *)
QuietStep ==
    /\ \A w \in Workers : task'[w] = task[w] \/ task'[w] = Idle
    /\ \A x \in Orders : exec'[x].st = exec[x].st /\ exec'[x].att = exec[x].att
    /\ \A m \in wire' : m \in wire
    /\ \A p \in pix' : (\E q \in pix : q.order = p.order) \/ (\E m \in wire : m.order = p.order)
    /\ NoCalls' => /\ NoCalls
                   /\ \A x \in Orders : /\ ord[x] \in Claimed => ord'[x] \in Claimed
                                        /\ ord[x] \in Closed  => ord'[x] \in Closed

LEMMA QuietSafeInv ==
  ASSUME IndInv, SafeInv, QuietStep
  PROVE  SafeInv'
  <1>1. PayersAreSound'
    BY DEF QuietStep, SafeInv, PayersAreSound, Idle, PayingSteps
  <1>2. RequestsArePayable' /\ UnpayableIsNotPaid' /\ AttemptLeavesPending'
    BY DEF QuietStep, SafeInv, RequestsArePayable, UnpayableIsNotPaid, Unpayable,
       AttemptLeavesPending
  <1>3. CompletedClosesOrder'
    BY DEF QuietStep, SafeInv, CompletedClosesOrder, NoCalls, Closed
  <1>4. SubmitsOnlySideBySide'
    <2> SUFFICES ASSUME NEW x \in Orders, exec[x].att > 0
                 PROVE  exec[x].att + Cardinality(Marking(x)') <= Cardinality(Automatic)
      BY DEF SubmitsOnlySideBySide, QuietStep
    <2>1. Marking(x)' \in SUBSET Marking(x) /\ Marking(x) \in SUBSET Automatic
      BY DEF QuietStep, Marking, Automatic, Idle, SafeInv, PayersAreSound, PayingSteps
    <2>2. /\ Cardinality(Marking(x)') <= Cardinality(Marking(x))
          /\ Cardinality(Marking(x)') \in Nat /\ Cardinality(Marking(x)) \in Nat
      BY <2>1, AutomaticFinite, FS_Subset, FS_CardinalityType
    <2>3. exec[x].att \in Nat
      BY DEF IndInv, TypeOK, Row
    <2>4. exec[x].att + Cardinality(Marking(x)) <= Cardinality(Automatic)
      BY DEF SafeInv, SubmitsOnlySideBySide
    <2> QED
      BY <2>2, <2>3, <2>4, AutomaticFinite
  <1>5. RowFollowsClaim'
    BY DEF QuietStep, SafeInv, RowFollowsClaim, OnPath, Idle, PayingSteps
  <1> QED
    BY <1>1, <1>2, <1>3, <1>4, <1>5 DEF SafeInv

LEMMA EndIsQuiet ==
  ASSUME IndInv, Crash \/ \E w \in Workers : Abandon(w)
  PROVE  QuietStep
  <1>1. /\ UNCHANGED <<ord, exec, pix, wire>>
        /\ \A w \in Workers : task'[w] = task[w] \/ task'[w] = Idle
    BY DEF Crash, Abandon, Finish, external, IndInv, TypeOK
  <1>2. NoCalls' => NoCalls
    BY DEF Crash, Abandon, external, NoCalls
  <1> QED
    BY <1>1, <1>2 DEF QuietStep

LEMMA EnvironmentIsQuiet ==
  ASSUME IndInv, Environment
  PROVE  QuietStep
  <1> USE DEF external, QuietStep
  <1>0. ord \in [Orders -> OrderStatus] /\ exec \in [Orders -> Row]
        /\ call \in [Calls -> Orders \cup {"new", "done"}]
    BY DEF IndInv, TypeOK
  <1>1. CASE \E o \in Orders : DepositConfirmed(o) \/ PayByHand(o) \/ MarkManualPixPaid(o)
    BY <1>0, <1>1 DEF DepositConfirmed, PayByHand, MarkManualPixPaid, Funding, Claimed, Closed,
       NoCalls
  <1>2. CASE \E o \in Orders, c \in Calls : SignerChecks(c, o)
    BY <1>0, <1>2 DEF SignerChecks, NoCalls
  <1>3. CASE \E o \in Orders, c \in Calls : SignerWrites(c, o)
    <2>1. ~NoCalls'
      BY <1>0, <1>3 DEF SignerWrites, NoCalls
    <2> QED
      BY <1>3, <2>1 DEF SignerWrites
  <1>4. CASE \E o \in Orders : BecomesDue(o)
    BY <1>0, <1>4 DEF BecomesDue, Row, NoCalls
  <1>5. CASE \E o \in Orders : GraceElapses(o)
    BY <1>0, <1>5 DEF GraceElapses, Row, NoCalls
  <1>6. CASE \E m \in wire : WireArrives(m) \/ WireLost(m)
    BY <1>0, <1>6 DEF WireArrives, WireLost, NoCalls
  <1>7. ASSUME NEW p \in pix, PixSettles(p) PROVE QuietStep
    <2>1. \A s : [p EXCEPT !.st = s].order = p.order
      BY DEF IndInv, TypeOK
    <2> QED
      BY <1>7, <2>1 DEF PixSettles, NoCalls
  <1>8. CASE \E p \in pix : PixWebhook(p)
    BY <1>0, <1>8 DEF PixWebhook, Claimed, Closed, NoCalls
  <1> QED
    BY <1>1, <1>2, <1>3, <1>4, <1>5, <1>6, <1>7, <1>8 DEF Environment

LEMMA NextSafeInv == IndInv /\ SafeInv /\ [Next]_vars => SafeInv'
  <1> SUFFICES ASSUME IndInv, SafeInv, [Next]_vars PROVE SafeInv'
    OBVIOUS
  <1>1. CASE \E w \in Workers : WorkerStep(w)
    BY <1>1, WorkerSafeInv
  <1>2. CASE \E w \in Workers, o \in Orders : TakeEvent(w, o) \/ Recover(w, o)
    BY <1>2, BeginSafeInv
  <1>3. CASE Crash \/ \E w \in Workers : Abandon(w)
    BY <1>3, EndIsQuiet, QuietSafeInv
  <1>4. CASE Environment
    BY <1>4, EnvironmentIsQuiet, QuietSafeInv
  <1>5. CASE UNCHANGED vars
    <2>1. QuietStep
      BY <1>5 DEF vars, QuietStep, NoCalls
    <2> QED
      BY <2>1, QuietSafeInv
  <1> QED
    BY <1>1, <1>2, <1>3, <1>4, <1>5 DEF Next

(* A submit is repeated only by activities that ran side by side, a        *)
(* completed row closes its order, and no transfer is made for an order    *)
(* that cannot be paid, with any number of replicas of any mix of modes.   *)
THEOREM SubmitsAreSafe == Spec => []SubmissionsAreSafe
  <1>1. IndInv /\ SafeInv => SubmissionsAreSafe
    BY DEF IndInv, SafeInv, SubmissionsAreSafe
  <1> QED
    BY <1>1, InitIndInv, InitSafeInv, NextIndInv, NextSafeInv, PTL DEF Spec

-----------------------------------------------------------------------------
(* SellPayout implements PayoutPromise.  Efi holds at most one transfer of *)
(* an order, so what TransferOf chooses is that one; a step either touches *)
(* Efi and asks or settles one transfer, or rewrites one row and judges    *)
(* one order, or is invisible to the promise.                              *)
LEMMA TransferIs ==
  ASSUME OnePixPerOrder, NEW p \in pix
  PROVE  TransferOf(p.order) = p.st
  <1> DEFINE c == CHOOSE q \in pix : q.order = p.order
  <1>1. c \in pix /\ c.order = p.order
    OBVIOUS
  <1>2. c = p
    BY <1>1 DEF OnePixPerOrder
  <1> QED
    BY <1>2 DEF TransferOf

LEMMA TransferIsNone ==
  ASSUME NEW o, \A p \in pix : p.order # o
  PROVE  TransferOf(o) = "none"
  BY DEF TransferOf

(* A step that leaves Efi's transfers and all rows but one alone.          *)
LEMMA JudgeStep ==
  ASSUME IndInv, IndInv', [Next]_vars, NEW o \in Orders, pix' = pix,
         \A x \in Orders : x # o => exec'[x].st = exec[x].st
  PROVE  Promise!Judge(o) \/ UNCHANGED Promise!promise
  <1> DEFINE T == [x \in Orders |-> TransferOf(x)]
             V == [x \in Orders |-> VerdictOf(x)]
  <1>1. T' = T
    <2>1. \A x \in Orders : TransferOf(x)' = TransferOf(x)
      BY DEF TransferOf
    <2> QED
      BY <2>1
  <1>2. \A x \in Orders : x # o => VerdictOf(x)' = VerdictOf(x)
    BY DEF VerdictOf
  <1>3. V' = [V EXCEPT ![o] = VerdictOf(o)']
    BY <1>2
  <1>4. CASE VerdictOf(o)' = VerdictOf(o)
    <2>1. V' = V
      BY <1>2, <1>4
    <2> QED
      BY <1>1, <2>1 DEF Promise!promise
  <1>5. CASE VerdictOf(o)' # VerdictOf(o)
    <2>1. VerdictOf(o) # "completed"
      <3>1. exec[o].st # "completed"
        <4>1. exec[o].st = "completed" => VerdictOf(o) = "completed"
          BY DEF VerdictOf
        <4>2. exec'[o].st = "completed" => VerdictOf(o)' = "completed"
          BY DEF VerdictOf
        <4> QED
          BY <1>5, <4>1, <4>2, CompletedKept
      <3> QED
        BY <3>1 DEF VerdictOf
    <2>2. VerdictOf(o)' \in {"open", "completed", "rejected"}
      BY DEF VerdictOf
    <2>3. VerdictOf(o)' = "completed" => TransferOf(o) = "done"
      <3> SUFFICES ASSUME VerdictOf(o)' = "completed" PROVE TransferOf(o) = "done"
        OBVIOUS
      <3>1. exec'[o].st = "completed"
        BY DEF VerdictOf
      <3>2. PICK p \in pix : p.order = o /\ p.st = "done"
        BY <3>1 DEF IndInv, CompletedIsPaid, Done
      <3> QED
        BY <3>2, TransferIs DEF IndInv
    <2>4. T[o] = TransferOf(o) /\ V[o] = VerdictOf(o)
      OBVIOUS
    <2> QED
      BY <1>1, <1>3, <2>1, <2>2, <2>3, <2>4 DEF Promise!Judge
  <1> QED
    BY <1>4, <1>5

(* A step that leaves the rows alone.                                      *)
LEMMA SameVerdicts ==
  ASSUME \A x \in Orders : exec'[x].st = exec[x].st
  PROVE  [x \in Orders |-> VerdictOf(x)]' = [x \in Orders |-> VerdictOf(x)]
  <1>1. \A x \in Orders : VerdictOf(x)' = VerdictOf(x)
    BY DEF VerdictOf
  <1> QED
    BY <1>1

(* A request reaches Efi: the first of its order, or one Efi knows.        *)
LEMMA RequestStep ==
  ASSUME IndInv, IndInv', exec' = exec, NEW o \in Orders, NEW s \in PixStatus,
         \/ pix' = pix
         \/ PixFor(o) = {} /\ pix' = pix \cup {[id |-> o, order |-> o, st |-> s]}
  PROVE  Promise!Request(o) \/ UNCHANGED Promise!promise
  <1> DEFINE T == [x \in Orders |-> TransferOf(x)]
             V == [x \in Orders |-> VerdictOf(x)]
  <1>1. V' = V
    BY SameVerdicts
  <1>2. CASE pix' = pix
    <2>1. T' = T
      BY <1>2 DEF TransferOf
    <2> QED
      BY <1>1, <2>1 DEF Promise!promise
  <1>3. CASE PixFor(o) = {} /\ pix' = pix \cup {[id |-> o, order |-> o, st |-> s]}
    <2> DEFINE n == [id |-> o, order |-> o, st |-> s]
    <2>1. \A p \in pix : p.order # o
      BY <1>3 DEF PixFor, IndInv, KeyedByOrder
    <2>2. TransferOf(o) = "none"
      BY <2>1, TransferIsNone
    <2>3. TransferOf(o)' = s
      <3>1. n \in pix' /\ OnePixPerOrder'
        BY <1>3 DEF IndInv
      <3>2. TransferOf(n.order)' = n.st
        <4>1. \A p \in pix' : TransferOf(p.order)' = p.st
          <5> SUFFICES ASSUME NEW p \in pix' PROVE TransferOf(p.order)' = p.st
            OBVIOUS
          <5> DEFINE c == CHOOSE q \in pix' : q.order = p.order
          <5>1. c \in pix' /\ c.order = p.order
            OBVIOUS
          <5>2. c = p
            BY <3>1, <5>1 DEF OnePixPerOrder
          <5> QED
            BY <5>2 DEF TransferOf
        <4> QED
          BY <3>1, <4>1
      <3> QED
        BY <3>2
    <2>4. ASSUME NEW x \in Orders, x # o
          PROVE  TransferOf(x)' = TransferOf(x)
      <3>1. {p \in pix' : p.order = x} = {p \in pix : p.order = x}
        BY <1>3, <2>4
      <3> QED
        BY <3>1, <1>3, <2>4 DEF TransferOf
    <2>5. T' = [T EXCEPT ![o] = s] /\ T[o] = "none"
      BY <2>2, <2>3, <2>4
    <2> QED
      BY <1>1, <2>5 DEF Promise!Request, PixStatus
  <1> QED
    BY <1>2, <1>3

(* Efi settles a transfer it was processing.                               *)
LEMMA SettleStep ==
  ASSUME IndInv, IndInv', NEW p \in pix, PixSettles(p)
  PROVE  \E o \in Orders : Promise!Settle(o)
  <1> DEFINE T == [x \in Orders |-> TransferOf(x)]
             V == [x \in Orders |-> VerdictOf(x)]
             o == p.order
  <1>1. PICK s \in {"done", "refused"} : pix' = (pix \ {p}) \cup {[p EXCEPT !.st = s]}
    BY DEF PixSettles
  <1> DEFINE n == [p EXCEPT !.st = s]
  <1>2. o \in Orders /\ n.order = o /\ n.st = s /\ n \in pix'
    BY <1>1 DEF IndInv, TypeOK
  <1>3. TransferOf(o) = "processing"
    BY TransferIs DEF IndInv, PixSettles
  <1>4. TransferOf(o)' = s
    <2> DEFINE c == CHOOSE q \in pix' : q.order = o
    <2>1. c \in pix' /\ c.order = o
      BY <1>2
    <2>2. c = n
      BY <1>2, <2>1 DEF IndInv, OnePixPerOrder
    <2> QED
      BY <1>2, <2>2 DEF TransferOf
  <1>5. ASSUME NEW x \in Orders, x # o
        PROVE  TransferOf(x)' = TransferOf(x)
    <2>1. \A q : q \in pix' /\ q.order = x <=> q \in pix /\ q.order = x
      BY <1>1, <1>2, <1>5
    <2> QED
      BY <2>1 DEF TransferOf
  <1>6. T' = [T EXCEPT ![o] = s] /\ T[o] = "processing"
    BY <1>2, <1>3, <1>4, <1>5
  <1>7. V' = V
    BY SameVerdicts DEF PixSettles
  <1>8. Promise!Settle(o)
    BY <1>6, <1>7 DEF Promise!Settle
  <1> QED
    BY <1>2, <1>8

(* The rows one activity's step may rewrite: its own order's.              *)
LEMMA WorkerOneRow ==
  ASSUME IndInv, NEW w \in Workers, WorkerStep(w)
  PROVE  /\ \A x \in Orders : x # task[w].order => exec'[x].st = exec[x].st
         /\ task[w].order \in Orders
  <1>1. exec \in [Orders -> Row]
    BY DEF IndInv, TypeOK
  <1>2. task[w].at # "idle"
    BY DEF WorkerStep, ClaimManual, OverwriteStatus, Claim, Ensure, Lookup, MarkSubmitStarted,
       PutAnswered, PutRefused, PutUnanswered, GetAnswered, GetFailed, MarkProviderUnknown,
       MarkFailed, MarkSubmitted, ApplyProviderEvent, MarkNotFound
  <1>3. \/ exec' = exec
        \/ \E r : exec' = [exec EXCEPT ![task[w].order] = r]
    BY DEF WorkerStep, external, ClaimManual, OverwriteStatus, Claim, Ensure, Lookup,
       MarkSubmitStarted, PutAnswered, PutRefused, PutUnanswered, GetAnswered, GetFailed,
       MarkProviderUnknown, MarkFailed, MarkSubmitted, ApplyProviderEvent, MarkNotFound
  <1> QED
    BY <1>1, <1>2, <1>3 DEF IndInv, BusyHoldsOrder

LEMMA WorkerImplements ==
  ASSUME IndInv, IndInv', NEW w \in Workers, WorkerStep(w)
  PROVE  Promise!Next \/ UNCHANGED Promise!promise
  <1> DEFINE o == task[w].order
  <1>1. o \in Orders /\ \A x \in Orders : x # o => exec'[x].st = exec[x].st
    BY WorkerOneRow
  <1>2. [Next]_vars
    BY DEF Next
  <1>3. CASE PutAnswered(w)
    <2>1. PICK s \in PixStatus : pix' = pix \/
            (PixFor(o) = {} /\ pix' = pix \cup {[id |-> o, order |-> o, st |-> s]})
      BY <1>3 DEF PutAnswered, Accepted, IdEnvio, PixStatus
    <2>2. exec' = exec
      BY <1>3 DEF PutAnswered
    <2> QED
      BY <1>1, <2>1, <2>2, RequestStep DEF Promise!Next
  <1>4. CASE pix' = pix
    BY <1>1, <1>2, <1>4, JudgeStep DEF Promise!Next
  <1> QED
    BY <1>3, <1>4 DEF WorkerStep, external, ClaimManual, OverwriteStatus, Claim, Ensure, Lookup,
       MarkSubmitStarted, PutRefused, PutUnanswered, GetAnswered, GetFailed,
       MarkProviderUnknown, MarkFailed, MarkSubmitted, ApplyProviderEvent, MarkNotFound

LEMMA UnseenImplements ==
  ASSUME pix' = pix, \A x \in Orders : exec'[x].st = exec[x].st
  PROVE  UNCHANGED Promise!promise
  <1>1. \A x \in Orders : TransferOf(x)' = TransferOf(x)
    BY DEF TransferOf
  <1>2. [x \in Orders |-> TransferOf(x)]' = [x \in Orders |-> TransferOf(x)]
    BY <1>1
  <1> QED
    BY <1>2, SameVerdicts DEF Promise!promise

LEMMA EnvironmentImplements ==
  ASSUME IndInv, IndInv', Environment
  PROVE  Promise!Next \/ UNCHANGED Promise!promise
  <1>1. CASE \E p \in pix : PixSettles(p)
    BY <1>1, SettleStep DEF Promise!Next
  <1>2. ASSUME NEW m \in wire, WireArrives(m)
        PROVE  Promise!Next \/ UNCHANGED Promise!promise
    <2>1. m.id = m.order /\ m.order \in Orders /\ exec' = exec
      BY <1>2 DEF WireArrives, IndInv, KeyedByOrder, TypeOK
    <2>2. pix' = pix \/ (PixFor(m.order) = {} /\
             pix' = pix \cup {[id |-> m.order, order |-> m.order, st |-> "processing"]})
      BY <1>2, <2>1 DEF WireArrives
    <2> QED
      BY <2>1, <2>2, RequestStep DEF PixStatus, Promise!Next
  <1>3. CASE pix' = pix
    <2>1. \A x \in Orders : exec'[x].st = exec[x].st
      BY EnvironmentIsQuiet DEF QuietStep
    <2> QED
      BY <1>3, <2>1, UnseenImplements
  <1> QED
    BY <1>1, <1>2, <1>3 DEF Environment, external, DepositConfirmed, PayByHand,
       MarkManualPixPaid, BecomesDue, GraceElapses, SignerChecks, SignerWrites, WireLost,
       PixWebhook

LEMMA NextImplements ==
  ASSUME IndInv, IndInv', [Next]_vars
  PROVE  Promise!Next \/ UNCHANGED Promise!promise
  <1>1. CASE \E w \in Workers : WorkerStep(w)
    BY <1>1, WorkerImplements
  <1>2. CASE \E w \in Workers, o \in Orders : TakeEvent(w, o) \/ Recover(w, o)
    <2>1. pix' = pix /\ \A x \in Orders : exec'[x].st = exec[x].st
      BY <1>2 DEF TakeEvent, Recover, external, IndInv, TypeOK, Row
    <2> QED
      BY <2>1, UnseenImplements
  <1>3. CASE Crash \/ \E w \in Workers : Abandon(w)
    <2>1. pix' = pix /\ exec' = exec
      BY <1>3 DEF Crash, Abandon, external
    <2> QED
      BY <2>1, UnseenImplements
  <1>4. CASE Environment
    BY <1>4, EnvironmentImplements
  <1>5. CASE UNCHANGED vars
    BY <1>5, UnseenImplements DEF vars
  <1> QED
    BY <1>1, <1>2, <1>3, <1>4, <1>5 DEF Next

LEMMA InitImplements == Init => Promise!Init
  <1> SUFFICES ASSUME Init PROVE Promise!Init
    OBVIOUS
  <1>1. \A o \in Orders : TransferOf(o) = "none" /\ VerdictOf(o) = "open"
    BY DEF Init, NoRow, TransferOf, VerdictOf
  <1> QED
    BY <1>1 DEF Promise!Init

(* The workers, events, leases, retries and crashes of the payout only     *)
(* ever do what PayoutPromise says of one order: its transfer is requested *)
(* once and settles once, and "completed" is said of a transfer that was   *)
(* made, and never taken back.                                             *)
THEOREM PayoutKeepsItsPromise == Spec => ImplementsPromise
  <1>1. IndInv /\ IndInv' /\ [Next]_vars => [Promise!Next]_(Promise!promise)
    BY NextImplements
  <1> QED
    BY <1>1, InitImplements, SellPayoutInvariant, PTL DEF Spec, ImplementsPromise, Promise!Spec
=============================================================================
