---------------------------- MODULE RequestGate ----------------------------
(***************************************************************************)
(* The way in of the HTTP server: withSmartRateLimit (server/middleware.go)*)
(* with its limiter (ratelimit.go) and penalty box (penaltybox.go), and    *)
(* the developer key it asks the database about (auth.go,                  *)
(* database/developer_console.go).  Requests with one secret from one      *)
(* address, of one route class: another secret has a counter and an entry  *)
(* of its own.  The box and the limiter have a lock each, which a request  *)
(* takes one after the other.  A step of the clock is longer than the      *)
(* minute between two cleanups.                                            *)
(***************************************************************************)
EXTENDS Naturals, Sequences

CONSTANTS Requests,
          Limit, InvalidLimit,    \* smartRateLimitMax with a good key and a bad one
          Window,                 \* of the limiter
          Threshold, ViolationWindow, Bans, OffenseReset,    \* of the penalty box
          MaxTime, MaxKeyChanges  \* bounds

VARIABLES now,
          bucket,     \* the limiter's counter
          entry,      \* of the penalty box
          req,        \* request -> where it is, whether its secret is good
          key,        \* developer_api_keys: its status, or "rotated": another secret
          changes,
          served,     \* requests let in since the counter began
          bans        \* what the box said, in order

vars == <<now, bucket, entry, req, key, changes, served, bans>>

NoEntry == [there |-> FALSE, start |-> 0, violations |-> 0, until |-> 0, offenses |-> 0, last |-> 0]
Idle == [at |-> "idle", valid |-> FALSE]

TypeOK ==
    /\ now \in 0..MaxTime /\ changes \in 0..MaxKeyChanges /\ served \in 0..Limit
    /\ bucket \in [reset : 0..(MaxTime + Window), count : 0..(Limit + 1)]
    /\ entry \in [there : BOOLEAN, start : 0..MaxTime, violations : 0..(Threshold - 1),
                  until : 0..(MaxTime + Bans[3]), offenses : 0..3, last : 0..MaxTime]
    /\ req \in [Requests -> [at : {"idle", "box", "key", "count", "violate"},
                             valid : BOOLEAN]]
    /\ key \in {"active", "disabled", "revoked", "rotated"}
    /\ bans \in Seq([start : 0..MaxTime, for : 0..Bans[3]])

(* Times begin at 1: 0 is that of what was never set.                      *)
Init ==
    /\ now = 1 /\ bucket = [reset |-> 0, count |-> 0] /\ entry = NoEntry
    /\ req = [r \in Requests |-> Idle]
    /\ key = "active" /\ changes = 0
    /\ served = 0 /\ bans = <<>>

-----------------------------------------------------------------------------
At(r, at) == req[r].at = at
Goto(r, at) == req' = [req EXCEPT ![r].at = at]
Answers(r) == req' = [req EXCEPT ![r] = Idle]

Begin(r) ==
    /\ At(r, "idle") /\ Goto(r, "box")
    /\ UNCHANGED <<now, bucket, entry, key, changes, served, bans>>

CleanupLocked ==
    IF entry.there /\ now > entry.until /\ now - entry.last > OffenseReset
    THEN NoEntry ELSE entry

Banned(r) ==
    /\ At(r, "box")
    /\ entry' = IF CleanupLocked.there THEN [CleanupLocked EXCEPT !.last = now] ELSE NoEntry
    /\ IF entry'.there /\ now < entry'.until THEN Answers(r) ELSE Goto(r, "key")
    /\ UNCHANGED <<now, bucket, key, changes, served, bans>>

(* chainFXAuthContext; an error of the database makes a key a bad one.     *)
ValidateDeveloperAPIKey(r) ==
    /\ At(r, "key")
    /\ \E valid \in {FALSE, key = "active"} :
          req' = [req EXCEPT ![r].at = "count", ![r].valid = valid]
    /\ UNCHANGED <<now, bucket, entry, key, changes, served, bans>>

SmartRateLimitMax(valid) == IF valid THEN Limit ELSE InvalidLimit

(* AllowN, with the count no higher than it can tell.                      *)
Fresh == bucket.reset = 0 \/ now > bucket.reset
AllowN(r) ==
    /\ At(r, "count")
    /\ bucket' = IF Fresh THEN [reset |-> now + Window, count |-> 1]
                 ELSE [bucket EXCEPT !.count = IF @ > Limit THEN @ ELSE @ + 1]
    /\ IF bucket'.count <= SmartRateLimitMax(req[r].valid)
       THEN Answers(r) /\ served' = (IF Fresh THEN 1 ELSE served + 1)
       ELSE Goto(r, "violate") /\ served' = (IF Fresh THEN 0 ELSE served)
    /\ UNCHANGED <<now, entry, key, changes, bans>>

BanDuration(offenses) == Bans[IF offenses > 3 THEN 3 ELSE offenses]

(* The entry as the violation finds it, with the window and the offenses   *)
(* that have lapsed.                                                       *)
Lapsed ==
    LET e == IF CleanupLocked.there THEN CleanupLocked ELSE [NoEntry EXCEPT !.there = TRUE, !.start = now]
        w == IF now - e.start > ViolationWindow THEN [e EXCEPT !.start = now, !.violations = 0] ELSE e
    IN  [w EXCEPT !.last = now,
                  !.offenses = IF e.until # 0 /\ now > e.until + OffenseReset THEN 0 ELSE @]

RecordViolation(r) ==
    /\ At(r, "violate")
    /\ IF Lapsed.violations + 1 < Threshold
       THEN entry' = [Lapsed EXCEPT !.violations = @ + 1] /\ UNCHANGED bans
       ELSE LET n == Lapsed.offenses + 1 IN
            /\ entry' = [Lapsed EXCEPT !.offenses = IF n > 3 THEN 3 ELSE n, !.violations = 0,
                                       !.start = now, !.until = now + BanDuration(n)]
            /\ bans' = Append(bans, [start |-> now, for |-> BanDuration(n)])
    /\ Answers(r)
    /\ UNCHANGED <<now, bucket, key, changes, served>>

-----------------------------------------------------------------------------
Change(k) ==
    /\ changes < MaxKeyChanges /\ changes' = changes + 1
    /\ key' = k
    /\ UNCHANGED <<now, bucket, entry, req, served, bans>>

(* The key has a new secret, whatever its status was.                      *)
RotateDeveloperAPIKey == key # "rotated" /\ Change("rotated")

(* Of a rotated key it is the new secret that is turned on and off.        *)
SetDeveloperAPIKeyStatus == \E st \in {"active", "disabled", "revoked"} \ {key} :
    key # "rotated" /\ Change(st)

Tick ==
    /\ now < MaxTime /\ now' = now + 1
    /\ UNCHANGED <<bucket, entry, req, key, changes, served, bans>>

Next ==
    \/ \E r \in Requests : Begin(r) \/ Banned(r) \/ ValidateDeveloperAPIKey(r) \/ AllowN(r)
                           \/ RecordViolation(r)
    \/ RotateDeveloperAPIKey \/ SetDeveloperAPIKeyStatus \/ Tick

Spec == Init /\ [][Next]_vars

-----------------------------------------------------------------------------
(* A ban that a caller was told of is kept to its end: neither the cleanup *)
(* nor a later violation ends it sooner.                                   *)
ToldBansHold == \A i \in 1..Len(bans) :
    now < bans[i].start + bans[i].for =>
        entry.there /\ entry.until >= bans[i].start + bans[i].for

(* Who offends again before the last ban has ended, or its memory is due   *)
(* to fade, is banned for longer, up to the longest ban; requests that     *)
(* were under way when the ban was spoken count as well.                   *)
RepeatIsLonger == \A i \in 1..(Len(bans) - 1) :
    LET gap == bans[i + 1].start - bans[i].start IN
    gap <= OffenseReset \/ gap <= bans[i].for =>
        bans[i + 1].for > bans[i].for \/ bans[i + 1].for = Bans[3]

(* However the requests of a window interleave, and whatever becomes of    *)
(* the key meanwhile, no more are let in than the better limit.            *)
LimitHolds == served <= Limit
=============================================================================
