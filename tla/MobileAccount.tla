--------------------------- MODULE MobileAccount ---------------------------
(***************************************************************************)
(* The account behind the mobile app: the e-mail code and the registration,*)
(* the session whose refresh token is kept as a digest in the users row,   *)
(* the gate of the authenticated routes with its cache of active users,    *)
(* the custodial wallet that the first of several requests creates, logout *)
(* and the deletion of the account.  One e-mail address and one replica;   *)
(* a row is numbered in the order of its insertion.  A refresh token is    *)
(* known by its user and the second it was issued in, which is all that    *)
(* tells two of them apart.                                                *)
(***************************************************************************)
EXTENDS Naturals, FiniteSets

CONSTANTS Requests, \* HTTP requests at work at once
          Devices,  \* device_id of the app's copies
          Own,      \* the address of a wallet the client made
          MaxUsers, \* bound: rows of the e-mail address
          MaxTime,  \* bound: seconds in which sessions are issued
          None

Users == 1..MaxUsers

VARIABLES row,   \* users
          key,   \* mobile_wallet_keys.wallet_address of each user
          otp,   \* the latest code sent: not consumed yet, mistyped
          proof, \* the client holds a verification token
          cache, \* "user_active:" entries
          now,   \* second
          held,  \* refresh tokens the client was given
          req,   \* what each request is doing
          shown, \* history: addresses shown to the user
          read   \* history: a code sent to the address was typed in

vars == <<row, key, otp, proof, cache, now, held, req, shown, read>>
code == <<otp, proof, read>>
session == <<row, held, now>>
wallet == <<key, shown>>

Authed == {"logout", "delete", "address", "generate"}
Idle == [op |-> "none", at |-> "idle", u |-> 0, dev |-> None]
Addresses == {Own} \cup (Requests \X Users)
MaxTries == 5
NoRow == [st |-> "none", wallet |-> None, hash |-> 0, dev |-> None]

(* A user of the time before the wallets, or nobody yet.                   *)
Init ==
    /\ \E old \in BOOLEAN :
         /\ row = [u \in Users |-> IF old /\ u = 1 THEN [NoRow EXCEPT !.st = "active"] ELSE NoRow]
         /\ read = old
    /\ key = [u \in Users |-> None] /\ shown = [u \in Users |-> {}]
    /\ otp = [open |-> FALSE, tries |-> 0] /\ proof = FALSE
    /\ cache = [u \in Users |-> "none"] /\ now = 1 /\ held = {}
    /\ req = [c \in Requests |-> Idle]

\* Mutant: deleted_at is not asked for.
Stored(u) == row[u].st # "none"
Active(u) == row[u].st = "active"
ByEmail == {u \in Users : Active(u)}
Goto(c, at) == req' = [req EXCEPT ![c].at = at]
Ends(c) == req' = [req EXCEPT ![c] = Idle]
Starts(c, op, at, u, d) == req' = [req EXCEPT ![c] = [op |-> op, at |-> at, u |-> u, dev |-> d]]

-----------------------------------------------------------------------------
(* handleRegisterRequestCode: a new code, unless the address has a user.   *)
RequestCode ==
    /\ ByEmail = {} /\ otp' = [open |-> TRUE, tries |-> 0]
    /\ UNCHANGED <<session, wallet, proof, read, cache, req>>

(* handleRegisterVerifyCode with the right code, and with a wrong one.     *)
VerifyCode ==
    /\ otp.open /\ otp.tries < MaxTries
    /\ otp' = [otp EXCEPT !.open = FALSE] /\ proof' = TRUE /\ read' = TRUE
    /\ UNCHANGED <<session, wallet, cache, req>>
Mistype ==
    /\ otp.open /\ otp.tries < MaxTries
    /\ \E n \in {otp.tries + 1, MaxTries} : otp' = [otp EXCEPT !.tries = n]
    /\ UNCHANGED <<session, wallet, proof, read, cache, req>>

(* The code ends after ten minutes and the token after fifteen.            *)
CodeEnds ==
    /\ \/ otp.open /\ otp' = [otp EXCEPT !.open = FALSE] /\ UNCHANGED proof
       \/ proof /\ proof' = FALSE /\ UNCHANGED otp
    /\ UNCHANGED <<session, wallet, read, cache, req>>

(* CreateUser: users.email is unique.                                      *)
CreateUser(u) ==
    /\ ByEmail = {} /\ row[u].st = "none" /\ \A v \in 1..u - 1 : row[v].st # "none"
    /\ row' = [row EXCEPT ![u].st = "active"]

(* The code is asked for as a server with SMTP does.                       *)
Register(c, u, d) ==
    /\ req[c] = Idle /\ proof
    /\ CreateUser(u) /\ Starts(c, "register", "attach", u, d)
    /\ UNCHANGED <<code, wallet, cache, now, held>>

(* ensureUserWallet: what a request does first for a user it has read.     *)
EnsureUserWallet(u) == IF row[u].wallet = None THEN "attach" ELSE "session"

Login(c, u, d) ==
    /\ req[c] = Idle /\ u \in ByEmail
    /\ Starts(c, "login", EnsureUserWallet(u), u, d)
    /\ UNCHANGED <<code, session, wallet, cache>>

(* handleRefresh reads the user, then the device of its session.           *)
Refresh(c, t) ==
    /\ req[c] = Idle /\ t \in held
    /\ Active(t.u) /\ row[t.u].hash = t.second
    /\ Starts(c, "refresh", "device", t.u, t.dev)
    /\ UNCHANGED <<code, session, wallet, cache>>

CheckDevice(c) == LET d == row[req[c].u].dev IN
    /\ req[c].at = "device"
    /\ IF d \in {None, req[c].dev} THEN Goto(c, "session") ELSE Ends(c)
    /\ UNCHANGED <<code, session, wallet, cache>>

(* SaveRefreshTokenForDevice, of a row whoever it belongs to by now.       *)
SaveSession(c) == LET u == req[c].u IN
    /\ req[c].at = "session"
    /\ row' = [row EXCEPT ![u].hash = now, ![u].dev = req[c].dev]
    /\ held' = held \cup {[u |-> u, second |-> now, dev |-> req[c].dev]}
    /\ Ends(c)
    /\ UNCHANGED <<code, wallet, cache, now>>

-----------------------------------------------------------------------------
(* Mutant: the key of the last request overwrites the first.               *)
OverwriteKey(u, a) ==
    /\ key' = [key EXCEPT ![u] = a]
    /\ row' = IF Active(u) /\ row[u].wallet = None THEN [row EXCEPT ![u].wallet = a] ELSE row

(* AttachSystemWallet, in one transaction: the key of the user is inserted *)
(* only once, and whatever address is stored is the one the row takes.     *)
AttachSystemWallet(u, a) ==
    /\ key' = IF key[u] = None THEN [key EXCEPT ![u] = a] ELSE key
    /\ row' = IF Active(u) /\ row[u].wallet = None THEN [row EXCEPT ![u].wallet = key'[u]] ELSE row

EnsureGeneratedWallet(c) ==
    /\ req[c].at = "attach"
    /\ AttachSystemWallet(req[c].u, <<c, req[c].u>>)
    /\ Goto(c, "reread")
    /\ UNCHANGED <<code, cache, now, held, shown>>

(* The user is read again and answered with the address; a user that is    *)
(* gone by now is an error.                                                *)
Reread(c) == LET u == req[c].u IN
    /\ req[c].at = "reread"
    /\ IF ~Active(u) THEN Ends(c) /\ UNCHANGED shown
       ELSE /\ shown' = [shown EXCEPT ![u] = @ \cup {row[u].wallet}]
            /\ IF req[c].op = "address" THEN Ends(c) ELSE Goto(c, "session")
    /\ UNCHANGED <<code, session, key, cache>>

(* handleWalletAddress                                                     *)
WalletAddress(c) == LET u == req[c].u IN
    /\ req[c].at = "address"
    /\ IF ~Active(u) THEN Ends(c) /\ UNCHANGED shown
       ELSE IF row[u].wallet = None THEN Goto(c, "attach") /\ UNCHANGED shown
       ELSE Ends(c) /\ shown' = [shown EXCEPT ![u] = @ \cup {row[u].wallet}]
    /\ UNCHANGED <<code, session, key, cache>>

(* handleWalletGenerate registers the address of a wallet the client made, *)
(* unless the row it has read has one.                                     *)
WalletGenerate(c) == LET u == req[c].u IN
    /\ req[c].at = "generate"
    /\ IF Active(u) /\ row[u].wallet # None
       THEN Ends(c) /\ shown' = [shown EXCEPT ![u] = @ \cup {row[u].wallet}]
       ELSE Goto(c, "own") /\ UNCHANGED shown
    /\ UNCHANGED <<code, session, key, cache>>

(* UpdateUser asks for nothing but the id.                                 *)
UpdateUser(c) ==
    /\ req[c].at = "own"
    /\ row' = [row EXCEPT ![req[c].u].wallet = Own] /\ Ends(c)
    /\ UNCHANGED <<code, wallet, cache, now, held>>

-----------------------------------------------------------------------------
(* requireAuth: an access token of the user, and the cache.                *)
RequireAuth(c, op, u) ==
    /\ req[c] = Idle /\ \E t \in held : t.u = u
    /\ cache[u] # "no"
    /\ Starts(c, op, IF cache[u] = "yes" THEN op ELSE "check", u, None)
    /\ UNCHANGED <<code, session, wallet, cache>>

IsUserActive(c) ==
    /\ req[c].at = "check"
    /\ Goto(c, IF Active(req[c].u) THEN "admit" ELSE "refuse")
    /\ UNCHANGED <<code, session, wallet, cache>>

SetCache(c) ==
    /\ req[c].at \in {"admit", "refuse"}
    /\ cache' = [cache EXCEPT ![req[c].u] = IF req[c].at = "admit" THEN "yes" ELSE "no"]
    /\ IF req[c].at = "admit" THEN Goto(c, req[c].op) ELSE Ends(c)
    /\ UNCHANGED <<code, session, wallet>>

(* Five seconds later.                                                     *)
CacheLapses(u) ==
    /\ cache[u] # "none" /\ cache' = [cache EXCEPT ![u] = "none"]
    /\ UNCHANGED <<code, session, wallet, req>>

Logout(c) ==
    /\ req[c].at = "logout"
    /\ row' = [row EXCEPT ![req[c].u].hash = 0, ![req[c].u].dev = None]
    /\ Goto(c, "forget")
    /\ UNCHANGED <<code, wallet, cache, now, held>>

(* handleDeleteAccount with the right password; the row is anonymised in   *)
(* one transaction, and its key is kept.                                   *)
DeleteUserAccount(c) == LET u == req[c].u IN
    /\ req[c].at = "delete"
    /\ IF Active(u) THEN row' = [row EXCEPT ![u] = [NoRow EXCEPT !.st = "deleted", !.dev = row[u].dev]]
                         /\ Goto(c, "forget")
       ELSE Ends(c) /\ UNCHANGED row
    /\ UNCHANGED <<code, wallet, cache, now, held>>

InvalidateUserActiveCache(c) ==
    /\ req[c].at = "forget"
    /\ cache' = [cache EXCEPT ![req[c].u] = "none"] /\ Ends(c)
    /\ UNCHANGED <<code, session, wallet>>

Tick ==
    /\ now < MaxTime /\ now' = now + 1
    /\ UNCHANGED <<code, row, held, wallet, cache, req>>

Next ==
    \/ RequestCode \/ VerifyCode \/ Mistype \/ CodeEnds \/ Tick
    \/ \E u \in Users : CacheLapses(u)
    \/ \E c \in Requests :
          \/ \E u \in Users, d \in Devices : Register(c, u, d) \/ Login(c, u, d)
          \/ \E u \in Users, op \in Authed : RequireAuth(c, op, u)
          \/ \E t \in held : Refresh(c, t)
          \/ CheckDevice(c) \/ SaveSession(c) \/ EnsureGeneratedWallet(c) \/ Reread(c)
          \/ WalletAddress(c) \/ WalletGenerate(c) \/ UpdateUser(c)
          \/ IsUserActive(c) \/ SetCache(c) \/ Logout(c) \/ DeleteUserAccount(c)
          \/ InvalidateUserActiveCache(c)

Spec == Init /\ [][Next]_vars

-----------------------------------------------------------------------------
TypeOK ==
    /\ \A u \in Users :
         /\ row[u].st \in {"none", "active", "deleted"} /\ row[u].hash \in 0..MaxTime
         /\ row[u].wallet \in Addresses \cup {None} /\ row[u].dev \in Devices \cup {None}
         /\ key[u] \in Addresses \cup {None} /\ shown[u] \subseteq Addresses
         /\ cache[u] \in {"none", "yes", "no"}
    /\ otp.tries \in 0..MaxTries /\ now \in 1..MaxTime
    /\ \A c \in Requests : req[c].u \in 0..MaxUsers

(* Whoever was shown an address that the platform generated finds its key  *)
(* stored, whichever of the requests that wanted a wallet came first, and  *)
(* whatever wallet the row names by now.                                   *)
KeysAreKept == \A u \in Users : shown[u] \ {Own} \subseteq {key[u]}

(* An address has one account at a time, opened by who reads its mail.     *)
OneAccountPerEmail ==
    /\ Cardinality(ByEmail) <= 1
    /\ ByEmail # {} => read

(* A deleted account, once no cache entry and no request remembers it.     *)
Gone(u) ==
    /\ row[u].st = "deleted" /\ cache[u] # "yes"
    /\ \A c \in Requests : req[c].u = u => req[c].at \in {"check", "refuse", "forget"}

(* Nothing brings it back: no session, token or wallet of it is served, and*)
(* its row does not change again.                                          *)
StaysGone == \A u \in Users : Gone(u) => Gone(u)' /\ UNCHANGED <<row[u], key[u]>>
GoneIsGone == [][StaysGone]_vars

=============================================================================
