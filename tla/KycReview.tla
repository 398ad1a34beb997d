----------------------------- MODULE KycReview -----------------------------
(***************************************************************************)
(* The verification of users: submission (mobile/kyc_v2.go), the worker    *)
(* that analyses (workers/kyc.go, mobile/kyc_engine), once per replica,    *)
(* and the review by an administrator (server/admin_kyc_handlers.go).  The *)
(* worker takes a request from the event of its submission or, later, from *)
(* the table; none of its writes but the first looks at the status.        *)
(***************************************************************************)
EXTENDS Naturals, FiniteSets

CONSTANTS Requests, Users,
          UserOf,      \* request -> user
          LevelOf,     \* request -> 1..3
          FaceOf,      \* request -> the hash of the face in it
          NoVideo,     \* requests made with document_only
          Workers,     \* one per replica
          None

VARIABLES status,      \* kyc_requests.status, "none" before the submission
          kyc,         \* users.kyc_status
          event,       \* worker -> requests in its channel
          due,         \* requests older than 30 seconds
          task,        \* worker -> what it does
          profile,     \* user -> the request of user_face_biometrics, or None
          cleared,     \* requests an analysis approved, or an administrator
          unchecked    \* requests whose duplicate check failed, or came before another
                       \* worker had kept the face it was to see

vars == <<status, kyc, event, due, task, profile, cleared, unchecked>>

Open == {"pending", "pending_processing"}
Decisions == {"approved", "rejected", "manual_review"}
Statuses == {"none", "in_review"} \cup Open \cup Decisions
Idle == [at |-> "idle", req |-> None, device |-> FALSE, says |-> None]

TypeOK ==
    /\ status \in [Requests -> Statuses]
    /\ kyc \in [Users -> {"pending", "submitted", "approved", "rejected"}]
    /\ event \in [Workers -> SUBSET Requests] /\ due \subseteq Requests
    /\ task \in [Workers -> [at : {"idle", "mark", "analyze", "count", "status", "profile", "user"},
           req : Requests \cup {None}, device : BOOLEAN, says : Decisions \cup {None}]]
    /\ profile \in [Users -> Requests \cup {None}]
    /\ cleared \subseteq Requests /\ unchecked \subseteq Requests

Init ==
    /\ status = [r \in Requests |-> "none"] /\ kyc = [u \in Users |-> "pending"]
    /\ event = [w \in Workers |-> {}] /\ due = {}
    /\ task = [w \in Workers |-> Idle] /\ profile = [u \in Users |-> None]
    /\ cleared = {} /\ unchecked = {}

Goto(w, at) == task' = [task EXCEPT ![w].at = at]
Ends(w) == task' = [task EXCEPT ![w] = Idle]
At(w, at) == task[w].at = at

-----------------------------------------------------------------------------
Insert(r) == status[r] = "none" /\ status' = [status EXCEPT ![r] = "pending"]

(* The insert, and the event to the worker of the same process, which may  *)
(* be dropped; the answer names the level asked for as a potential one.    *)
Submit(r, w) ==
    /\ Insert(r)
    /\ \/ event' = [event EXCEPT ![w] = @ \cup {r}]
       \/ UNCHANGED event
    /\ UNCHANGED <<kyc, due, task, profile, cleared, unchecked>>

HalfAMinutePasses(r) ==
    /\ status[r] \in Open /\ r \notin due
    /\ due' = due \cup {r}
    /\ UNCHANGED <<status, kyc, event, task, profile, cleared, unchecked>>

(* The two cases of the worker's select; the table does not have the       *)
(* fingerprint of the device, which only the event carries.                *)
TakeEvent(w, r) ==
    /\ At(w, "idle") /\ r \in event[w]
    /\ event' = [event EXCEPT ![w] = @ \ {r}]
    /\ task' = [task EXCEPT ![w] = [Idle EXCEPT !.at = "mark", !.req = r, !.device = TRUE]]
    /\ UNCHANGED <<status, kyc, due, profile, cleared, unchecked>>

ProcessPending(w, r) ==
    /\ At(w, "idle") /\ r \in due /\ status[r] \in Open
    /\ task' = [task EXCEPT ![w] = [Idle EXCEPT !.at = "mark", !.req = r]]
    /\ UNCHANGED <<status, kyc, event, due, profile, cleared, unchecked>>

(* processRequest: how many rows the first UPDATE matched is not asked.    *)
Mark(w) ==
    LET r == task[w].req IN
    /\ At(w, "mark")
    /\ status' = IF status[r] \in Open THEN [status EXCEPT ![r] = "pending_processing"] ELSE status
    /\ Goto(w, "analyze")
    /\ UNCHANGED <<kyc, event, due, profile, cleared, unchecked>>

(* decide, with the flags of the internal engine.                          *)
Flagged(w) == task[w].req \in NoVideo \/ ~task[w].device
Decided(w) ==
    IF Flagged(w) \/ LevelOf[task[w].req] >= 3 THEN {"rejected", "manual_review"} ELSE Decisions

(* Analyze: the external provider decides as it likes, whatever the level; *)
(* when it fails the internal engine does.                                 *)
Analyze(w) ==
    /\ At(w, "analyze")
    /\ \E d \in Decisions, external \in BOOLEAN :
          /\ external \/ d \in Decided(w)
          /\ task' = [task EXCEPT ![w] = [@ EXCEPT !.at = "count", !.says = d]]
    /\ UNCHANGED <<status, kyc, event, due, profile, cleared, unchecked>>

(* countDuplicateFaces                                                     *)
SameFace(r) == {u \in Users \ {UserOf[r]} : profile[u] # None /\ FaceOf[profile[u]] = FaceOf[r]}

(* The same, in the hands of workers that have counted and not kept it yet.*)
UnderWay(w) ==
    LET r == task[w].req
    IN  {x \in Workers \ {w} : /\ task[x].at \in {"status", "profile"} /\ task[x].says = "approved"
                              /\ UserOf[task[x].req] # UserOf[r] /\ FaceOf[task[x].req] = FaceOf[r]}

AfterCount(w, duplicate) ==
    IF duplicate /\ task[w].says = "approved" THEN "manual_review" ELSE task[w].says

(* The count, an error of which is taken for none, then the write of the   *)
(* analysis.                                                               *)
CountAndSave(w) ==
    LET r == task[w].req IN
    /\ At(w, "count")
    /\ \E fails \in BOOLEAN :
          LET d == AfterCount(w, ~fails /\ SameFace(r) # {}) IN
          /\ task' = [task EXCEPT ![w] = [@ EXCEPT !.at = "status", !.says = d]]
          /\ unchecked' = IF fails \/ UnderWay(w) # {} THEN unchecked \cup {r} ELSE unchecked
          /\ cleared' = IF d = "approved" THEN cleared \cup {r} ELSE cleared
    /\ UNCHANGED <<status, kyc, event, due, profile>>

WriteStatus(w) ==
    /\ At(w, "status")
    /\ status' = [status EXCEPT ![task[w].req] = task[w].says]
    /\ Goto(w, IF task[w].says = "approved" THEN "profile" ELSE "user")
    /\ UNCHANGED <<kyc, event, due, profile, cleared, unchecked>>

SaveBiometricProfile(w) ==
    /\ At(w, "profile")
    /\ profile' = [profile EXCEPT ![UserOf[task[w].req]] = task[w].req]
    /\ Goto(w, "user")
    /\ UNCHANGED <<status, kyc, event, due, cleared, unchecked>>

(* The error of this write is ignored.                                     *)
WriteUser(w) ==
    /\ At(w, "user")
    /\ \/ kyc' = [kyc EXCEPT ![UserOf[task[w].req]] =
                    IF task[w].says = "manual_review" THEN "submitted" ELSE task[w].says]
       \/ UNCHANGED kyc
    /\ Ends(w)
    /\ UNCHANGED <<status, event, due, profile, cleared, unchecked>>

(* A statement fails and processRequest returns, or the process stops with *)
(* the events it has.                                                      *)
GivesUp(w) ==
    /\ ~At(w, "idle") /\ ~At(w, "user") /\ Ends(w)
    /\ UNCHANGED <<status, kyc, event, due, profile, cleared, unchecked>>
Stops(w) ==
    /\ task[w] # Idle \/ event[w] # {}
    /\ Ends(w) /\ event' = [event EXCEPT ![w] = {}]
    /\ UNCHANGED <<status, kyc, due, profile, cleared, unchecked>>

Reviewed == {"approved", "rejected", "in_review"}

(* reviewKYCRequest, in one transaction.                                   *)
Review(r, decision) ==
    /\ status[r] # "none"
    /\ status' = [status EXCEPT ![r] = decision]
    /\ kyc' = [kyc EXCEPT ![UserOf[r]] = IF decision = "in_review" THEN "submitted" ELSE decision]
    /\ cleared' = IF decision = "approved" THEN cleared \cup {r} ELSE cleared
    /\ UNCHANGED <<event, due, task, profile, unchecked>>

Next ==
    \/ \E r \in Requests :
          \/ \E w \in Workers : Submit(r, w) \/ TakeEvent(w, r) \/ ProcessPending(w, r)
          \/ HalfAMinutePasses(r)
          \/ \E d \in Reviewed : Review(r, d)
    \/ \E w \in Workers :
          \/ Mark(w) \/ Analyze(w) \/ CountAndSave(w) \/ WriteStatus(w)
          \/ SaveBiometricProfile(w) \/ WriteUser(w) \/ GivesUp(w) \/ Stops(w)

Spec == Init /\ [][Next]_vars

-----------------------------------------------------------------------------
(* GetApprovedKYCLevel                                                     *)
ApprovedLevel(u) ==
    LET levels == {LevelOf[r] : r \in {q \in Requests : UserOf[q] = u /\ status[q] = "approved"}}
    IN  IF levels = {} THEN 0 ELSE CHOOSE n \in levels : \A m \in levels : m <= n

(* However events, polls and reviews cross, the level of a user and what   *)
(* the account says are backed by an analysis or a review that approved,   *)
(* and a face is kept only of a request that was (kyc.go:64-135).          *)
VerifiedWasCleared ==
    \A u \in Users :
        LET mine == {r \in cleared : UserOf[r] = u} IN
        /\ ApprovedLevel(u) > 0 => \E r \in mine : LevelOf[r] = ApprovedLevel(u)
        /\ kyc[u] = "approved" => mine # {}
        /\ profile[u] # None => profile[u] \in mine

(* A face is kept for two accounts only when the check of one of them      *)
(* failed, or was made while the other's was between its own check and its *)
(* save, which nothing excludes between two replicas (kyc.go:84-117).      *)
FaceServesOneAccount ==
    \A u, v \in Users :
        u # v /\ None \notin {profile[u], profile[v]} /\ FaceOf[profile[u]] = FaceOf[profile[v]]
        => {profile[u], profile[v]} \cap unchecked # {}
=============================================================================
