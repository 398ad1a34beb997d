----------------------------- MODULE McpServer -----------------------------
(***************************************************************************)
(* The tools and resources agents call over MCP (internal/mcp): the        *)
(* sliding window of each caller and class, who is let in to which tool,   *)
(* the catalog that is read once for all who ask at the same time, and the *)
(* payment intents that a tool or an execution of payments_fx makes.  Time *)
(* is counted in ticks; a catalog is known by the time it was read.        *)
(***************************************************************************)
EXTENDS Naturals, Sequences, FiniteSets, FiniteSetsExt

CONSTANTS Calls, Callers,
          Anonymous,            \* the callers without a key
          Asked,                \* the tools and resources asked for here
          Limit,                \* tier -> class -> calls in a window
          Window, CatalogTtl, RouteTtl, Life, MaxTime,
          Keys, PaymentTypes, Rates, Addresses,   \* Addresses is a sequence
          MaxAttempts,          \* providers of payments_fx
          None

VARIABLES now,
          bucket,     \* <<caller, class>> -> times in the window
          admitted,   \* <<caller, class>> -> all the times let through
          call,       \* call -> where its request is
          cache,      \* entry -> value and when it ends
          build,      \* entry -> the call that reads it, or None
          answers,    \* what was answered from the catalog
          intent,     \* agent_payment_intents, by idempotency key
          event       \* marketplace_execution_events, by idempotency key

vars == <<now, bucket, admitted, call, cache, build, answers, intent, event>>

Reading == {"get_rates", "getCapability", "chooseRoute", "dryRunCapability", "getPaymentIntent"}
Financial == {"createPaymentIntent", "executeCapability"}
AI == {"market_analysis"}
Writing == {"create_webhook_subscription"}
Public == {"get_rates", "getCapability", "chooseRoute", "dryRunCapability", "executeCapability"}
StatusTools == {"getPaymentIntent"}
Resources == {"capabilities", "products", "policy"}
PublicResources == {"capabilities", "products"}

Classes == {"mcp_tool_read", "mcp_tool_write", "mcp_ai_expensive", "mcp_financial", "mcp_abuse"}
Buckets == Callers \X Classes
Entries == {"capability", "routes", "dry_capability", "dry_routes", "capabilities", "products"}

Fees == {"pix", "card", "own"}         \* whose basis points were applied
Terms == [type : PaymentTypes, fee : Fees, rate : Rates, address : {Addresses[i] : i \in DOMAIN Addresses}]
NoIntent == [terms |-> None, status |-> "none", expires |-> 0]
Told(what, value) == [what |-> what, value |-> value]
Idle == [at |-> "idle", who |-> None, tool |-> None, left |-> <<>>, looked |-> 0, started |-> 0,
         floor |-> 0, read |-> None, key |-> None, type |-> None, offer |-> None, tries |-> 0,
         told |-> Told("nothing", None)]

TypeOK ==
    /\ now \in 0..MaxTime
    /\ bucket \in [Buckets -> Seq(0..MaxTime)] /\ admitted \in [Buckets -> Seq(0..MaxTime)]
    /\ \A c \in Calls :
          /\ call[c].at \in {"idle", "gate", "look", "join", "read", "publish", "ask",
                             "prepare", "lookup", "insert", "record", "complete", "done"}
          /\ call[c].offer \in Terms \cup {None}
          /\ \A i \in DOMAIN call[c].left : call[c].left[i] \in Entries
    /\ build \in [Entries -> Calls \cup {None}]
    /\ \A k \in Keys : intent[k].terms \in Terms \cup {None}
    /\ event \in [Keys -> {"none", "completed", "real_completed", "mock_fallback"}]

Init ==
    /\ now = 0
    /\ bucket = [b \in Buckets |-> <<>>] /\ admitted = [b \in Buckets |-> <<>>]
    /\ call = [c \in Calls |-> Idle]
    /\ cache = [e \in Entries |-> [read |-> None, until |-> 0]]
    /\ build = [e \in Entries |-> None] /\ answers = {}
    /\ intent = [k \in Keys |-> NoIntent] /\ event = [k \in Keys |-> "none"]

Tick == now < MaxTime /\ now' = now + 1
        /\ UNCHANGED <<bucket, admitted, call, cache, build, answers, intent, event>>

Goto(c, at) == call' = [call EXCEPT ![c] = [@ EXCEPT !.at = at]]
Done(r, what, value) == [r EXCEPT !.at = "done", !.told = Told(what, value)]
Tells(c, what, value) == call' = [call EXCEPT ![c] = Done(@, what, value)]
NoMoney == UNCHANGED <<intent, event>>
NoCatalog == UNCHANGED <<cache, build, answers>>
NoGate == UNCHANGED <<bucket, admitted>>

-----------------------------------------------------------------------------
(* mcpToolRateClass, tierLimit                                             *)
ToolClass(t) ==
    CASE t \in Reading -> "mcp_tool_read" [] t \in AI -> "mcp_ai_expensive"
      [] t \in Financial -> "mcp_financial" [] t \in Writing -> "mcp_tool_write"
      [] OTHER -> "mcp_abuse"
TierLimit(x, class) == Limit[IF x \in Anonymous THEN "anonymous" ELSE "live"][class]

InWindow(b) == SelectSeq(bucket[b], LAMBDA t : t + Window >= now)

(* mcpRateLimiter.allow, under its lock.                                   *)
Allow(b, limit, r) ==
    /\ bucket' = [bucket EXCEPT ![b] = IF Len(InWindow(b)) < limit
                                       THEN Append(InWindow(b), now) ELSE InWindow(b)]
    /\ IF Len(InWindow(b)) < limit
       THEN /\ admitted' = [admitted EXCEPT ![b] = Append(@, now)]
            /\ call' = [call EXCEPT ![r.c] = [r.rec EXCEPT !.at = "gate"]]
       ELSE /\ call' = [call EXCEPT ![r.c] = Done(r.rec, "limited", None)]
            /\ UNCHANGED admitted

Request(x, t, k, y) ==
    IF t \in Financial \cup StatusTools
    THEN [Idle EXCEPT !.who = x, !.tool = t, !.key = k, !.type = y]
    ELSE [Idle EXCEPT !.who = x, !.tool = t]

CallTool(c, x, t, k, y) ==
    LET class == ToolClass(t) IN
    /\ call[c] = Idle /\ t \notin Resources
    /\ Allow(<<x, class>>, TierLimit(x, class), [c |-> c, rec |-> Request(x, t, k, y)])
    /\ UNCHANGED now /\ NoCatalog /\ NoMoney

(* handleResourcesRead: no limit is asked.                                 *)
ReadResource(c, x, t, k, y) ==
    /\ call[c] = Idle /\ t \in Resources
    /\ call' = [call EXCEPT ![c] = [Request(x, t, k, y) EXCEPT !.at = "gate"]]
    /\ UNCHANGED now /\ NoGate /\ NoCatalog /\ NoMoney

-----------------------------------------------------------------------------
(* callTool, readResource: what is read of the catalog, in order.          *)
LooksUp(t) ==
    CASE t = "getCapability" -> <<"capability">> [] t = "chooseRoute" -> <<"routes">>
      [] t = "dryRunCapability" -> <<"dry_capability", "dry_routes">>
      [] t \in PublicResources -> <<t>> [] OTHER -> <<>>
\* These tell something made up when the catalog cannot be read.
HasFallback(t) == t \in {"dryRunCapability", "capabilities"}

Enter(r) ==
    CASE LooksUp(r.tool) # <<>> -> [r EXCEPT !.at = "look", !.left = LooksUp(r.tool)]
      [] r.tool = "createPaymentIntent" -> [r EXCEPT !.at = "prepare"]
      [] r.tool = "executeCapability" -> [r EXCEPT !.at = "record"]
      [] r.tool \in StatusTools -> [r EXCEPT !.at = "ask"]
      [] r.tool \in {"get_rates", "policy"} \cup Writing -> Done(r, "ok", None)
      [] OTHER -> Done(r, "error", None)

(* handleToolsCallWithAuthorize after the limit: who may go on.  The       *)
(* authorization is the server's; it refuses who has no key.               *)
Authorized(r) ==
    {Enter(r) : ok \in {x \in {r.who} : x \notin Anonymous}} \cup {Done(r, "unauthorized", None)}
CallAI(r) == {Done(r, w, None) : w \in {"analysis", "fallback"}}
LetIn(r) ==
    LET anonymous == r.who \in Anonymous IN
    IF r.tool \in AI
    THEN IF anonymous THEN {Done(r, "fallback", None)}
         ELSE CallAI(r) \cup {Done(r, "unauthorized", None)}
    ELSE IF r.tool \in Public \cup PublicResources THEN {Enter(r)}
    ELSE IF anonymous /\ r.tool \in StatusTools \cup Resources THEN {Done(r, "authRequired", None)}
    ELSE Authorized(r)

Gate(c) ==
    /\ call[c].at = "gate"
    /\ \E r \in LetIn(call[c]) : call' = [call EXCEPT ![c] = r]
    /\ UNCHANGED now /\ NoGate /\ NoCatalog /\ NoMoney

-----------------------------------------------------------------------------
Ttl(e) == IF e \in {"routes", "dry_routes"} THEN RouteTtl ELSE CatalogTtl

\* What a caller does with the value v of the entry at the head of left.
Given(r, v) ==
    IF v = None /\ ~HasFallback(r.tool) THEN Done(r, "error", None)
    ELSE IF Len(r.left) = 1 THEN [Done(r, "catalog", v) EXCEPT !.left = <<>>]
    ELSE [r EXCEPT !.at = "look", !.left = Tail(@)]
Answer(r, v, shared) ==
    [entry |-> Head(r.left), read |-> v, looked |-> r.looked, floor |-> r.floor, cached |-> shared]
Latest(e) == Max({a.read : a \in {b \in answers : b.entry = e}} \cup {0})
Good(s) == {a \in s : a.read # None}

(* cachedValue up to the build: the cache, then a build under way, then    *)
(* one of its own.                                                         *)
InFlight(e) == build[e]

Look(c) ==
    LET e == Head(call[c].left)
        r == [call[c] EXCEPT !.looked = now, !.floor = Latest(e)]
    IN
    /\ call[c].at = "look"
    /\ \/ /\ cache[e].until > now
          /\ call' = [call EXCEPT ![c] = Given(r, cache[e].read)]
          /\ answers' = answers \cup Good({Answer(r, cache[e].read, TRUE)})
          /\ UNCHANGED build
       \/ /\ cache[e].until <= now /\ InFlight(e) # None
          /\ call' = [call EXCEPT ![c] = [r EXCEPT !.at = "join"]] /\ UNCHANGED <<answers, build>>
       \/ /\ cache[e].until <= now /\ InFlight(e) = None
          /\ call' = [call EXCEPT ![c] = [r EXCEPT !.at = "read", !.started = now]]
          /\ build' = [build EXCEPT ![e] = c] /\ UNCHANGED answers
    /\ UNCHANGED <<now, cache>> /\ NoGate /\ NoMoney

(* The build, in the context of the first caller: it fails with it.        *)
ReadCatalog(c) ==
    /\ call[c].at = "read"
    /\ \E v \in {now, None} : call' = [call EXCEPT ![c] = [@ EXCEPT !.at = "publish", !.read = v]]
    /\ UNCHANGED now /\ NoGate /\ NoCatalog /\ NoMoney

Until(c, e) == call[c].started + Ttl(e)
Waiting(c, e) == {d \in Calls : call[d].at = "join" /\ Head(call[d].left) = e}

(* cachedValue after the build: all who waited are given its outcome.      *)
Publish(c) ==
    LET e == Head(call[c].left)
        v == call[c].read
        given == Waiting(c, e) \cup {c}
    IN
    /\ call[c].at = "publish"
    /\ call' = [d \in Calls |-> IF d \in given THEN Given(call[d], v) ELSE call[d]]
    /\ answers' = answers \cup Good({Answer(call[d], v, FALSE) : d \in given})
    /\ build' = [build EXCEPT ![e] = None]
    /\ cache' = IF v = None THEN cache
                ELSE [cache EXCEPT ![e] = [read |-> v, until |-> Until(c, e)]]
    /\ UNCHANGED now /\ NoGate /\ NoMoney

-----------------------------------------------------------------------------
(* PickAvailableM2MDepositAddress: the first of the least loaded.          *)
Load(a) == Cardinality({k \in Keys : /\ intent[k].terms # None /\ intent[k].terms.address = a
                                     /\ intent[k].status = "pending_deposit" /\ intent[k].expires > now})
LeastLoaded ==
    LET best == Min({Load(Addresses[i]) : i \in DOMAIN Addresses}) IN
    Addresses[Min({i \in DOMAIN Addresses : Load(Addresses[i]) = best})]

\* ResolveM2MFeeBps: the agent's own or its type's; when it cannot be read
\* the tool applies the type's, the execution that of Pix.
FeesFor(r) ==
    {"own", r.type} \cup (IF r.tool = "executeCapability" THEN {"pix"} ELSE {})
Offers(r) == {[type |-> r.type, fee |-> f, rate |-> p, address |-> LeastLoaded] :
                  f \in FeesFor(r), p \in Rates}

(* An error ends the tool; an execution goes on to the next provider and,  *)
(* after the last, to a made-up output.                                    *)
Fails(r) ==
    IF r.tool = "createPaymentIntent" THEN Done(r, "error", None)
    ELSE IF r.tries + 1 < MaxAttempts THEN [r EXCEPT !.at = "prepare", !.tries = @ + 1, !.offer = None]
    ELSE [r EXCEPT !.at = "complete", !.told = Told("mock_fallback", None)]
Succeeds(r, terms) ==
    IF r.tool = "createPaymentIntent" THEN Done(r, "intent", terms)
    ELSE [r EXCEPT !.at = "complete", !.told = Told("real_completed", terms)]

(* toolCreateM2MPaymentIntent, executePaymentsFXCapability up to the       *)
(* transaction: the rate, the policy (of the tool alone), the address.     *)
Prepare(c) ==
    /\ call[c].at = "prepare"
    /\ \/ \E o \in Offers(call[c]) :
             call' = [call EXCEPT ![c] = [@ EXCEPT !.at = "lookup", !.offer = o]]
       \/ call' = [call EXCEPT ![c] = Fails(@)]
    /\ UNCHANGED now /\ NoGate /\ NoCatalog /\ NoMoney

ToldOld(c, k) == intent[k].terms

(* CreateAgentPaymentIntent                                                *)
LookupIntent(c) ==
    LET k == call[c].key IN
    /\ call[c].at = "lookup"
    /\ \/ intent[k] # NoIntent /\ call' = [call EXCEPT ![c] = Succeeds(@, ToldOld(c, k))]
       \/ intent[k] = NoIntent /\ Goto(c, "insert")
       \/ call' = [call EXCEPT ![c] = Fails(@)]
    /\ UNCHANGED now /\ NoGate /\ NoCatalog /\ NoMoney

\* The key is unique; a commit may be done and its answer lost.
InsertIntent(c) ==
    LET k == call[c].key
        new == [terms |-> call[c].offer, status |-> "pending_deposit", expires |-> now + Life]
    IN
    /\ call[c].at = "insert"
    /\ \/ /\ intent[k] = NoIntent /\ intent' = [intent EXCEPT ![k] = new]
          /\ \/ call' = [call EXCEPT ![c] = Succeeds(@, new.terms)]
             \/ call' = [call EXCEPT ![c] = Fails(@)]
       \/ call' = [call EXCEPT ![c] = Fails(@)] /\ UNCHANGED intent
    /\ UNCHANGED <<now, event>> /\ NoGate /\ NoCatalog

(* toolGetM2MPaymentIntent; who asks late makes the intent expire.         *)
AskIntent(c) ==
    LET k == call[c].key
        late == intent[k].status = "pending_deposit" /\ now > intent[k].expires
    IN
    /\ call[c].at = "ask"
    /\ \/ intent[k] = NoIntent /\ Tells(c, "error", None) /\ UNCHANGED intent
       \/ /\ intent[k] # NoIntent /\ Tells(c, "intent", intent[k].terms)
          /\ intent' = [intent EXCEPT ![k].status = IF late THEN "expired" ELSE @]
    /\ UNCHANGED <<now, event>> /\ NoGate /\ NoCatalog

-----------------------------------------------------------------------------
(* toolExecuteCapability: the event is recorded, or is there already and   *)
(* its row is the answer.                                                  *)
RecordEvent(c) ==
    LET k == call[c].key IN
    /\ call[c].at = "record"
    /\ \/ event[k] # "none" /\ Tells(c, "duplicate", None) /\ UNCHANGED event
       \/ event[k] = "none" /\ event' = [event EXCEPT ![k] = "completed"] /\ Goto(c, "prepare")
       \/ Tells(c, "error", None) /\ UNCHANGED event
    /\ UNCHANGED <<now, intent>> /\ NoGate /\ NoCatalog

\* CompleteMarketplaceExecutionMetrics, whose error is ignored.
CompleteEvent(c) ==
    /\ call[c].at = "complete"
    /\ \E done \in {call[c].told.what, event[call[c].key]} : event' = [event EXCEPT ![call[c].key] = done]
    /\ Goto(c, "done")
    /\ UNCHANGED <<now, intent>> /\ NoGate /\ NoCatalog

Next ==
    \/ Tick
    \/ \E c \in Calls :
          \/ \E x \in Callers, t \in Asked, k \in Keys, y \in PaymentTypes :
                CallTool(c, x, t, k, y) \/ ReadResource(c, x, t, k, y)
          \/ Gate(c) \/ Look(c) \/ ReadCatalog(c) \/ Publish(c)
          \/ Prepare(c) \/ LookupIntent(c) \/ InsertIntent(c) \/ AskIntent(c)
          \/ RecordEvent(c) \/ CompleteEvent(c)

Spec == Init /\ [][Next]_vars

-----------------------------------------------------------------------------
(* In no stretch of the length of the window are more calls let through    *)
(* than the limit of the caller and the class.                             *)
WindowHolds ==
    \A b \in Buckets, t \in 0..MaxTime :
        Len(SelectSeq(admitted[b], LAMBDA s : s \in t..(t + Window))) <= TierLimit(b[1], b[2])

(* What comes from the cache was read less than its time ago, however long *)
(* the read took.                                                          *)
CachedIsFresh == \A a \in answers : a.cached => a.looked < a.read + Ttl(a.entry)

(* Who asks after an answer was given is never given an older catalog.     *)
NeverGoesBack == \A a \in answers : a.read >= a.floor

(* Who waits for a build waits for one that is under way.                  *)
WaitsForABuild ==
    \A c \in Calls : call[c].at = "join" =>
        LET d == build[Head(call[c].left)] IN
        d # None /\ d # c /\ call[d].at \in {"read", "publish"}
            /\ Head(call[d].left) = Head(call[c].left)

(* Whoever is told of an intent under a key, by the tool, by an execution  *)
(* at whichever provider or by a question, is told the terms that are      *)
(* stored and that the deposit will be matched with.                       *)
ToldIsStored ==
    \A c \in Calls : call[c].told.what \in {"intent", "real_completed"} =>
        intent[call[c].key].terms # None /\ call[c].told.value = intent[call[c].key].terms
=============================================================================
