----------------------------- MODULE MCPlatform -----------------------------
(***************************************************************************)
(* The services below, before and around the orders, for TLC.  They share  *)
(* no state with one another; the scenario, chosen in the initial state,   *)
(* is what moves.                                                          *)
(***************************************************************************)
EXTENDS RpcPool, TLC

CONSTANTS None, r1, r2, s1, k1, k2, k3, b1, b2, b3

VARIABLES scenario, swSweep, swListed, swSending, swDue, swMoved, swWire, swHot,
    swRead, swOps, swPending, swTouched, bcPrice, bcQuote, bcReq, bcToken,
    bcRefreshing, bcClosed, bcIssued, bcRevoked, bcCharge, bcOrder, ebSubs, ebQueue,
    ebOpen, ebBusClosed, ebThread, ebPublished, ebDropped, ebHandled, ebTarget, whRow,
    whEmit, whSaid, whJobs, whWorker, whAttempts, whEnded, whGot, kyStatus, kyKyc,
    kyEvent, kyDue, kyTask, kyProfile, kyCleared, kyUnchecked, crRow, crRate, crJob,
    crAnswer, crRepeats, crRan, crTried, crSamples, crLost, crUnlisted, maRow, maKey,
    maOtp, maProof, maCache, maNow, maHeld, maReq, maShown, maRead, lqCfg, lqAt,
    lqQuote, lqLate, lqTried, lqCur, lqExec, lqBought, lqSent, lqRecord, lqOut,
    lqUnclear, tsConfig, tsPrice, tsQuote, tsExpired, tsRow, tsEvent, tsWork, tsLeg,
    rgNow, rgBucket, rgEntry, rgReq, rgKey, rgChanges, rgServed, rgBans, atClock,
    atMade, atStore, atRun, atResult, atRan, atGone, atStream, atEpisodes, atDirect,
    atRecorded, mpNow, mpBucket, mpAdmitted, mpCall, mpCache, mpBuild, mpAnswers,
    mpIntent, mpEvent

swVars == <<swSweep, swListed, swSending, swDue, swMoved, swWire, swHot, swRead,
    swOps, swPending, swTouched>>
bcVars == <<bcPrice, bcQuote, bcReq, bcToken, bcRefreshing, bcClosed, bcIssued,
    bcRevoked, bcCharge, bcOrder>>
ebVars == <<ebSubs, ebQueue, ebOpen, ebBusClosed, ebThread, ebPublished, ebDropped,
    ebHandled, ebTarget>>
whVars == <<whRow, whEmit, whSaid, whJobs, whWorker, whAttempts, whEnded, whGot>>
kyVars == <<kyStatus, kyKyc, kyEvent, kyDue, kyTask, kyProfile, kyCleared,
    kyUnchecked>>
crVars == <<crRow, crRate, crJob, crAnswer, crRepeats, crRan, crTried, crSamples,
    crLost, crUnlisted>>
maVars == <<maRow, maKey, maOtp, maProof, maCache, maNow, maHeld, maReq, maShown,
    maRead>>
lqVars == <<lqCfg, lqAt, lqQuote, lqLate, lqTried, lqCur, lqExec, lqBought, lqSent,
    lqRecord, lqOut, lqUnclear>>
tsVars == <<tsConfig, tsPrice, tsQuote, tsExpired, tsRow, tsEvent, tsWork, tsLeg>>
rgVars == <<rgNow, rgBucket, rgEntry, rgReq, rgKey, rgChanges, rgServed, rgBans>>
atVars == <<atClock, atMade, atStore, atRun, atResult, atRan, atGone, atStream,
    atEpisodes, atDirect, atRecorded>>
mpVars == <<mpNow, mpBucket, mpAdmitted, mpCall, mpCache, mpBuild, mpAnswers,
    mpIntent, mpEvent>>

TwoCalls == LET two == [c \in {"mcp_tool_read", "mcp_tool_write", "mcp_ai_expensive",
                             "mcp_financial", "mcp_abuse"} |-> 2]
            IN  [anonymous |-> two, live |-> two]
MoneyTools == {"createPaymentIntent", "executeCapability", "getPaymentIntent"}
AllTools == MoneyTools \cup {"get_rates", "getCapability", "chooseRoute", "dryRunCapability",
    "market_analysis", "create_webhook_subscription", "other", "capabilities", "products", "policy"}
AllConfigs == [pair : {"usdt_bsc", "usdt", "token", "coin", "own_coin"}, in_policy : BOOLEAN,
    policy : BOOLEAN, listed : BOOLEAN, lists : BOOLEAN, network : BOOLEAN, contract : BOOLEAN,
    router : BOOLEAN, http : BOOLEAN, bingx : {"off", "quote", "trade", "withdraw"},
    hot_first : BOOLEAN]
\* USDT on BSC or another token, BingX with less or more of its permissions.
RoutedConfigs == {[pair |-> p, in_policy |-> TRUE, policy |-> TRUE, listed |-> FALSE,
    lists |-> FALSE, network |-> TRUE, contract |-> TRUE, router |-> TRUE, http |-> TRUE,
    bingx |-> b, hot_first |-> TRUE] : p \in {"usdt_bsc", "token"}, b \in {"quote", "trade", "withdraw"}}
\* An event with two triggers, one with the second of them, a receiver of both.
EventTriggers == (b1 :> <<"completed", "payout">>) @@ (b2 :> <<"payout">>)
Listening == (s1 :> {"completed", "payout"})

Sweep == INSTANCE TreasurySweep WITH Sweeps <- {s1}, Replicas <- {r1, r2},
    HotMax <- 2, HotMin <- 2, MinNet <- 1, Scale <- 10, Holdings <- {1, 2, 3, 12},
    None <- None, sweep <- swSweep, listed <- swListed, sending <- swSending,
    due <- swDue, moved <- swMoved, wire <- swWire, hot <- swHot, read <- swRead,
    ops <- swOps, pending <- swPending, touched <- swTouched

\* Without quotes the tokens have room to be refreshed;
Tokens == INSTANCE BuyCheckout WITH Requests <- {k1, k2}, Quotes <- {}, Prices <- {1},
    MaxTokens <- 2, None <- None, price <- bcPrice, quote <- bcQuote, req <- bcReq,
    token <- bcToken, refreshing <- bcRefreshing, closed <- bcClosed,
    issued <- bcIssued, revoked <- bcRevoked, charge <- bcCharge, order <- bcOrder
\* with one, there are two rates and Efi revokes no token.
Checkout == INSTANCE BuyCheckout WITH Requests <- {k1, k2}, Quotes <- {k3},
    Prices <- {1, 2}, MaxTokens <- 1, None <- None, price <- bcPrice,
    quote <- bcQuote, req <- bcReq, token <- bcToken, refreshing <- bcRefreshing,
    closed <- bcClosed, issued <- bcIssued, revoked <- bcRevoked, charge <- bcCharge,
    order <- bcOrder

Bus == INSTANCE EventBus WITH Workers <- {b1, b2}, Senders <- {b3}, Leavers <- {b1},
    Capacity <- 1, MaxEvents <- 2, subs <- ebSubs, queue <- ebQueue, open <- ebOpen,
    busClosed <- ebBusClosed, thread <- ebThread, published <- ebPublished,
    dropped <- ebDropped, handled <- ebHandled, target <- ebTarget

Hooks == INSTANCE WebhookDelivery WITH Events <- {b1, b2}, Triggers <- EventTriggers,
    Subs <- {s1}, Listens <- Listening, QueueSize <- 1, Workers <- {b3},
    MaxRetries <- 2, None <- None, row <- whRow, emit <- whEmit, said <- whSaid,
    jobs <- whJobs, worker <- whWorker, attempts <- whAttempts, ended <- whEnded,
    got <- whGot

\* Two workers on one request;
Kyc == INSTANCE KycReview WITH Requests <- {k3}, Users <- {s1}, UserOf <- (k3 :> s1),
    LevelOf <- (k3 :> 1), FaceOf <- (k3 :> 1), NoVideo <- {}, Workers <- {r1, r2},
    None <- None, status <- kyStatus, kyc <- kyKyc, event <- kyEvent, due <- kyDue,
    task <- kyTask, profile <- kyProfile, cleared <- kyCleared,
    unchecked <- kyUnchecked
\* and on two users with one face, from the events alone.
Faces == INSTANCE KycReview WITH Requests <- {b1, b2}, Users <- {b1, b2},
    UserOf <- (b1 :> b1) @@ (b2 :> b2), LevelOf <- (b1 :> 1) @@ (b2 :> 3),
    FaceOf <- (b1 :> 1) @@ (b2 :> 1), NoVideo <- {}, Workers <- {r1, r2},
    None <- None, status <- kyStatus, kyc <- kyKyc, event <- kyEvent, due <- kyDue,
    task <- kyTask, profile <- kyProfile, cleared <- kyCleared,
    unchecked <- kyUnchecked

\* One execution at three providers, one of them only planned;
Route == INSTANCE CapabilityRoute WITH Events <- {k3}, Providers <- {b1, b2, b3},
    Active <- {b1, b2}, Adapter <- {b1, b2}, Priority <- (b1 :> 1) @@ (b2 :> 2) @@ (b3
    :> 3), Cost <- (b1 :> 3) @@ (b2 :> 1) @@ (b3 :> 2), Quality <- (b1 :> 9) @@ (b2 :>
    9) @@ (b3 :> 8), Seed <- (b1 :> 9900) @@ (b2 :> 9900) @@ (b3 :> 9800),
    None <- None, row <- crRow, rate <- crRate, job <- crJob, answer <- crAnswer,
    repeats <- crRepeats, ran <- crRan, tried <- crTried, samples <- crSamples,
    lost <- crLost, unlisted <- crUnlisted
\* two, without repeats, when the best one is only planned.
Routes == INSTANCE CapabilityRoute WITH Events <- {k1, k2}, Providers <- {b1, b2},
    Active <- {b2}, Adapter <- {b2}, Priority <- (b1 :> 1) @@ (b2 :> 2) @@ (b3 :> 3),
    Cost <- (b1 :> 3) @@ (b2 :> 1) @@ (b3 :> 2), Quality <- (b1 :> 9) @@ (b2 :> 9) @@
    (b3 :> 8), Seed <- (b1 :> 9900) @@ (b2 :> 9900) @@ (b3 :> 9800), None <- None,
    row <- crRow, rate <- crRate, job <- crJob, answer <- crAnswer,
    repeats <- crRepeats, ran <- crRan, tried <- crTried, samples <- crSamples,
    lost <- crLost, unlisted <- crUnlisted

\* Two requests of one user, without codes;
Account == INSTANCE MobileAccount WITH Requests <- {r1, r2}, Devices <- {s1},
    Own <- s1, MaxUsers <- 1, MaxTime <- 2, None <- None, row <- maRow, key <- maKey,
    otp <- maOtp, proof <- maProof, cache <- maCache, now <- maNow, held <- maHeld,
    req <- maReq, shown <- maShown, read <- maRead
\* one request, the codes and an account after a deleted one.
Signup == INSTANCE MobileAccount WITH Requests <- {b3}, Devices <- {b1}, Own <- s1,
    MaxUsers <- 2, MaxTime <- 1, None <- None, row <- maRow, key <- maKey,
    otp <- maOtp, proof <- maProof, cache <- maCache, now <- maNow, held <- maHeld,
    req <- maReq, shown <- maShown, read <- maRead

\* Every configuration, before the quotes;
Offer == INSTANCE LiquidityRoute WITH Providers <- {1, 2}, BingX <- 2,
    Configs <- AllConfigs, None <- None, cfg <- lqCfg, at <- lqAt, quote <- lqQuote,
    late <- lqLate, tried <- lqTried, cur <- lqCur, exec <- lqExec,
    bought <- lqBought, sent <- lqSent, record <- lqRecord, out <- lqOut,
    unclear <- lqUnclear
\* the whole route with three providers.
Liquid == INSTANCE LiquidityRoute WITH Providers <- {1, 2, 3}, BingX <- 2,
    Configs <- RoutedConfigs, None <- None, cfg <- lqCfg, at <- lqAt,
    quote <- lqQuote, late <- lqLate, tried <- lqTried, cur <- lqCur, exec <- lqExec,
    bought <- lqBought, sent <- lqSent, record <- lqRecord, out <- lqOut,
    unclear <- lqUnclear

\* Two workers on one swap, through the signer
Swap == INSTANCE TokenSwap WITH Swaps <- {s1}, Workers <- {r1, r2}, Signer <- TRUE,
    Prices <- {90, 100}, Slippage <- 500, None <- None, config <- tsConfig,
    price <- tsPrice, quote <- tsQuote, expired <- tsExpired, row <- tsRow,
    event <- tsEvent, work <- tsWork, leg <- tsLeg
\* and with the key of the user.
OwnKey == INSTANCE TokenSwap WITH Swaps <- {s1}, Workers <- {r1, r2}, Signer <- FALSE,
    Prices <- {90, 100}, Slippage <- 500, None <- None, config <- tsConfig,
    price <- tsPrice, quote <- tsQuote, expired <- tsExpired, row <- tsRow,
    event <- tsEvent, work <- tsWork, leg <- tsLeg

\* Time for three bans of one caller;
Gate == INSTANCE RequestGate WITH Requests <- {r1, r2}, Limit <- 2, InvalidLimit <- 1,
    Window <- 1, Threshold <- 2, ViolationWindow <- 1, Bans <- <<1, 3, 3>>,
    OffenseReset <- 1, MaxTime <- 4, MaxKeyChanges <- 0, now <- rgNow,
    bucket <- rgBucket, entry <- rgEntry, req <- rgReq, key <- rgKey,
    changes <- rgChanges, served <- rgServed, bans <- rgBans
\* less time and a key that is turned off or rotated.
Rekeyed == INSTANCE RequestGate WITH Requests <- {r1, r2}, Limit <- 2,
    InvalidLimit <- 1, Window <- 1, Threshold <- 2, ViolationWindow <- 1, Bans <- <<1,
    3, 3>>, OffenseReset <- 1, MaxTime <- 2, MaxKeyChanges <- 1, now <- rgNow,
    bucket <- rgBucket, entry <- rgEntry, req <- rgReq, key <- rgKey,
    changes <- rgChanges, served <- rgServed, bans <- rgBans

\* Room for one task and a stream that watches;
Queue == INSTANCE AgentTask WITH Tasks <- {b1, b2}, Streams <- {s1}, MaxStored <- 1,
    MaxEpisodes <- 1, MaxDirect <- 1, None <- None, clock <- atClock, made <- atMade,
    store <- atStore, run <- atRun, result <- atResult, ran <- atRan, gone <- atGone,
    stream <- atStream, episodes <- atEpisodes, direct <- atDirect,
    recorded <- atRecorded
\* room for two of three.
Room == INSTANCE AgentTask WITH Tasks <- {b1, b2, b3}, Streams <- {}, MaxStored <- 2,
    MaxEpisodes <- 1, MaxDirect <- 0, None <- None, clock <- atClock, made <- atMade,
    store <- atStore, run <- atRun, result <- atResult, ran <- atRan, gone <- atGone,
    stream <- atStream, episodes <- atEpisodes, direct <- atDirect,
    recorded <- atRecorded

\* Every tool, in one tick;
AgentTools == INSTANCE McpServer WITH Callers <- {r1, r2}, Anonymous <- {r2},
    Limit <- TwoCalls, Window <- 1, CatalogTtl <- 2, RouteTtl <- 1, Life <- 0,
    Keys <- {k1}, PaymentTypes <- {"card"}, Rates <- {1}, Addresses <- <<s1, k2>>,
    MaxAttempts <- 2, None <- None, Calls <- {b1, b2}, Asked <- AllTools,
    MaxTime <- 0, now <- mpNow, bucket <- mpBucket, admitted <- mpAdmitted,
    call <- mpCall, cache <- mpCache, build <- mpBuild, answers <- mpAnswers,
    intent <- mpIntent, event <- mpEvent
\* three who ask for a capability;
Catalog == INSTANCE McpServer WITH Callers <- {r1}, Anonymous <- {},
    Limit <- TwoCalls, Window <- 1, CatalogTtl <- 2, RouteTtl <- 1, Life <- 0,
    Keys <- {k1}, PaymentTypes <- {"card"}, Rates <- {1}, Addresses <- <<s1, k2>>,
    MaxAttempts <- 2, None <- None, Calls <- {b1, b2, b3}, Asked <- {"getCapability"},
    MaxTime <- 3, now <- mpNow, bucket <- mpBucket, admitted <- mpAdmitted,
    call <- mpCall, cache <- mpCache, build <- mpBuild, answers <- mpAnswers,
    intent <- mpIntent, event <- mpEvent
\* two about one payment intent.
Intents == INSTANCE McpServer WITH Callers <- {r1}, Anonymous <- {},
    Limit <- TwoCalls, Window <- 1, CatalogTtl <- 2, RouteTtl <- 1, Life <- 0,
    Keys <- {k1}, PaymentTypes <- {"card"}, Rates <- {1}, Addresses <- <<s1, k2>>,
    MaxAttempts <- 2, None <- None, Calls <- {b1, b2}, Asked <- MoneyTools,
    MaxTime <- 1, now <- mpNow, bucket <- mpBucket, admitted <- mpAdmitted,
    call <- mpCall, cache <- mpCache, build <- mpBuild, answers <- mpAnswers,
    intent <- mpIntent, event <- mpEvent

-----------------------------------------------------------------------------
\* The pool of two nodes: calls at the same time, each in its first attempt,
\* when the first node answers; and calls one at a time, with all attempts.
FirstAttempts == \A c \in Calls : call'[c].attempt = 1
FirstAnswers == failures'[1] = 0 /\ UNCHANGED healthy
OneAtATime == \A c, d \in Calls : c # d => "idle" \in {call'[c].at, call'[d].at}

InitAll ==
    /\ scenario \in {"breaker", "retries", "sweep", "tokens", "checkout", "bus",
        "hooks", "kyc", "faces", "route", "routes", "account", "signup", "offer",
        "liquid", "swap", "ownkey", "gate", "rekeyed", "queue", "room", "tools",
        "catalog", "intents"}
    /\ Init
    /\ Sweep!Init
    /\ (scenario # "sweep" => swHot = 1)
    /\ IF scenario = "tokens" THEN Tokens!Init ELSE Checkout!Init
    /\ Bus!Init
    /\ Hooks!Init
    /\ IF scenario = "kyc" THEN Kyc!Init ELSE Faces!Init
    /\ IF scenario = "route" THEN Route!Init ELSE Routes!Init
    /\ IF scenario = "account" THEN Account!Init ELSE Signup!Init
    /\ (scenario \notin {"account", "signup"} => ~maRead)
    /\ IF scenario = "offer" THEN Offer!Init ELSE Liquid!Init
    /\ (scenario \notin {"offer", "liquid"} => lqCfg.pair = "token" /\ lqCfg.bingx = "trade")
    /\ IF scenario = "swap" THEN Swap!Init ELSE OwnKey!Init
    /\ (scenario \notin {"swap", "ownkey"} => tsPrice = 100)
    /\ IF scenario = "gate" THEN Gate!Init ELSE Rekeyed!Init
    /\ IF scenario = "queue" THEN Queue!Init ELSE Room!Init
    /\ IF scenario = "tools" THEN AgentTools!Init ELSE IF scenario = "catalog" THEN Catalog!Init ELSE Intents!Init

NextAll ==
    \/ scenario = "breaker" /\ Next /\ FirstAttempts /\ FirstAnswers /\
       UNCHANGED <<scenario, swVars, bcVars, ebVars, whVars, kyVars, crVars, maVars,
       lqVars, tsVars, rgVars, atVars, mpVars>>
    \/ scenario = "retries" /\ Next /\ OneAtATime /\ UNCHANGED <<scenario, swVars,
       bcVars, ebVars, whVars, kyVars, crVars, maVars, lqVars, tsVars, rgVars, atVars,
       mpVars>>
    \/ scenario = "sweep" /\ Sweep!Next /\ UNCHANGED <<scenario, vars, bcVars, ebVars,
       whVars, kyVars, crVars, maVars, lqVars, tsVars, rgVars, atVars, mpVars>>
    \/ scenario = "tokens" /\ Tokens!Next /\ UNCHANGED <<scenario, vars, swVars,
       ebVars, whVars, kyVars, crVars, maVars, lqVars, tsVars, rgVars, atVars,
       mpVars>>
    \/ scenario = "checkout" /\ UNCHANGED bcRevoked /\ Checkout!Next /\
       UNCHANGED <<scenario, vars, swVars, ebVars, whVars, kyVars, crVars, maVars,
       lqVars, tsVars, rgVars, atVars, mpVars>>
    \/ scenario = "bus" /\ Bus!Next /\ UNCHANGED <<scenario, vars, swVars, bcVars,
       whVars, kyVars, crVars, maVars, lqVars, tsVars, rgVars, atVars, mpVars>>
    \/ scenario = "hooks" /\ Hooks!Next /\ UNCHANGED <<scenario, vars, swVars, bcVars,
       ebVars, kyVars, crVars, maVars, lqVars, tsVars, rgVars, atVars, mpVars>>
    \/ scenario = "kyc" /\ Kyc!Next /\ UNCHANGED <<scenario, vars, swVars, bcVars,
       ebVars, whVars, crVars, maVars, lqVars, tsVars, rgVars, atVars, mpVars>>
    \/ scenario = "faces" /\ UNCHANGED kyDue /\ Faces!Next /\ UNCHANGED <<scenario,
       vars, swVars, bcVars, ebVars, whVars, crVars, maVars, lqVars, tsVars, rgVars,
       atVars, mpVars>>
    \/ scenario = "route" /\ Route!Next /\ UNCHANGED <<scenario, vars, swVars, bcVars,
       ebVars, whVars, kyVars, maVars, lqVars, tsVars, rgVars, atVars, mpVars>>
    \/ scenario = "routes" /\ UNCHANGED crRepeats /\ Routes!Next /\
       UNCHANGED <<scenario, vars, swVars, bcVars, ebVars, whVars, kyVars, maVars,
       lqVars, tsVars, rgVars, atVars, mpVars>>
    \/ scenario = "account" /\ UNCHANGED maOtp /\ Account!Next /\
       UNCHANGED <<scenario, vars, swVars, bcVars, ebVars, whVars, kyVars, crVars,
       lqVars, tsVars, rgVars, atVars, mpVars>>
    \/ scenario = "signup" /\ Signup!Next /\ UNCHANGED <<scenario, vars, swVars,
       bcVars, ebVars, whVars, kyVars, crVars, lqVars, tsVars, rgVars, atVars,
       mpVars>>
    \/ scenario = "offer" /\ UNCHANGED lqQuote /\ Offer!Next /\ UNCHANGED <<scenario,
       vars, swVars, bcVars, ebVars, whVars, kyVars, crVars, maVars, tsVars, rgVars,
       atVars, mpVars>>
    \/ scenario = "liquid" /\ Liquid!Next /\ UNCHANGED <<scenario, vars, swVars,
       bcVars, ebVars, whVars, kyVars, crVars, maVars, tsVars, rgVars, atVars,
       mpVars>>
    \/ scenario = "swap" /\ Swap!Next /\ UNCHANGED <<scenario, vars, swVars, bcVars,
       ebVars, whVars, kyVars, crVars, maVars, lqVars, rgVars, atVars, mpVars>>
    \/ scenario = "ownkey" /\ OwnKey!Next /\ UNCHANGED <<scenario, vars, swVars,
       bcVars, ebVars, whVars, kyVars, crVars, maVars, lqVars, rgVars, atVars,
       mpVars>>
    \/ scenario = "gate" /\ Gate!Next /\ UNCHANGED <<scenario, vars, swVars, bcVars,
       ebVars, whVars, kyVars, crVars, maVars, lqVars, tsVars, atVars, mpVars>>
    \/ scenario = "rekeyed" /\ Rekeyed!Next /\ UNCHANGED <<scenario, vars, swVars,
       bcVars, ebVars, whVars, kyVars, crVars, maVars, lqVars, tsVars, atVars,
       mpVars>>
    \/ scenario = "queue" /\ Queue!Next /\ UNCHANGED <<scenario, vars, swVars, bcVars,
       ebVars, whVars, kyVars, crVars, maVars, lqVars, tsVars, rgVars, mpVars>>
    \/ scenario = "room" /\ Room!Next /\ UNCHANGED <<scenario, vars, swVars, bcVars,
       ebVars, whVars, kyVars, crVars, maVars, lqVars, tsVars, rgVars, mpVars>>
    \/ scenario = "tools" /\ AgentTools!Next /\ UNCHANGED <<scenario, vars, swVars,
       bcVars, ebVars, whVars, kyVars, crVars, maVars, lqVars, tsVars, rgVars,
       atVars>>
    \/ scenario = "catalog" /\ Catalog!Next /\ UNCHANGED <<scenario, vars, swVars,
       bcVars, ebVars, whVars, kyVars, crVars, maVars, lqVars, tsVars, rgVars,
       atVars>>
    \/ scenario = "intents" /\ Intents!Next /\ UNCHANGED <<scenario, vars, swVars,
       bcVars, ebVars, whVars, kyVars, crVars, maVars, lqVars, tsVars, rgVars,
       atVars>>
SpecAll == InitAll /\ [][NextAll]_<<scenario, vars, swVars, bcVars, ebVars, whVars,
    kyVars, crVars, maVars, lqVars, tsVars, rgVars, atVars, mpVars>>

-----------------------------------------------------------------------------
(* A sweep moves its money at most once, and one that says sent is in the  *)
(* hands of the signer; the hot wallet is asked for one transfer at a time *)
(* (module TreasurySweep).  A swap that says completed names a transaction *)
(* that was sent, with the user's key one that moved (module TokenSwap).   *)
(* A request is charged once, for the amount of its order, a quote makes   *)
(* one order, and nobody waits for a token that no one fetches             *)
(* (module BuyCheckout).                                                   *)
MoneyMovesOnce ==
    /\ scenario = "sweep" => Sweep!TypeOK /\ Sweep!SweepMovesOnce /\ Sweep!OneSweepAtATime
    /\ scenario = "swap" => Swap!TypeOK /\ Swap!SignerMovesOnce /\ Swap!ToldIsTrue
    /\ scenario = "ownkey" => OwnKey!TypeOK /\ OwnKey!ToldIsTrue
    /\ scenario = "tokens" => Tokens!TypeOK /\ Tokens!NobodyWaitsInVain /\ Tokens!ChargedOnce
    /\ scenario = "checkout" =>
          /\ Checkout!TypeOK /\ Checkout!NobodyWaitsInVain
          /\ Checkout!ChargedOnce /\ Checkout!QuoteIsKept

(* Nothing brings a deleted account back, once no cache entry and no       *)
(* request remembers it (module MobileAccount).                            *)
DeletionHolds ==
    [][/\ scenario = "account" => Account!StaysGone
       /\ scenario = "signup" => Signup!StaysGone]_<<scenario, maVars>>

(* An event of the bus reaches each subscriber once or is counted as       *)
(* dropped, and none is sent on a closed channel (module EventBus); a      *)
(* receiver of webhooks is told a name it asked for, and each delivery     *)
(* ends once (module WebhookDelivery).  A task of an agent is run once,    *)
(* and who watches it is told the truth in order (module AgentTask).       *)
MessagesReachOnce ==
    /\ scenario = "bus" => Bus!TypeOK /\ Bus!NoSendOnClosed /\ Bus!ReachesOnce
    /\ scenario = "hooks" => Hooks!TypeOK /\ Hooks!TellsItsName /\ Hooks!EndsOnce
    /\ scenario = "queue" => Queue!TypeOK /\ Queue!RunsOnce /\ Queue!OldestMakesRoom
                             /\ Queue!StreamsTellTheTruth /\ Queue!EpisodePerRun
    /\ scenario = "room" => Room!TypeOK /\ Room!RunsOnce /\ Room!OldestMakesRoom /\ Room!EpisodePerRun

(* A verified user was approved by an analysis or a review, and a face is  *)
(* kept for two accounts only if their checks crossed or one failed        *)
(* (module KycReview); an address that was shown has its key stored, and   *)
(* an e-mail address one account (module MobileAccount).  However requests *)
(* interleave, none is let in over the limit, and a ban that was told of   *)
(* is kept and grows (RequestGate).                                        *)
CustomersAreKnown ==
    /\ scenario = "kyc" => Kyc!TypeOK /\ Kyc!VerifiedWasCleared
    /\ scenario = "faces" => Faces!TypeOK /\ Faces!VerifiedWasCleared /\ Faces!FaceServesOneAccount
    /\ scenario = "account" => Account!TypeOK /\ Account!KeysAreKept /\ Account!OneAccountPerEmail
    /\ scenario = "signup" => Signup!TypeOK /\ Signup!KeysAreKept /\ Signup!OneAccountPerEmail
    /\ scenario = "gate" => Gate!TypeOK /\ Gate!LimitHolds /\ Gate!ToldBansHold /\ Gate!RepeatIsLonger
    /\ scenario = "rekeyed" => Rekeyed!TypeOK /\ Rekeyed!LimitHolds
                                /\ Rekeyed!ToldBansHold /\ Rekeyed!RepeatIsLonger

(* Who asks for a capability is told which provider ran it, and is given a *)
(* made-up answer only when nobody could (module CapabilityRoute); what    *)
(* the app sells can be delivered, and the order names the provider that   *)
(* was paid (module LiquidityRoute).  An agent is not given a catalog      *)
(* older than its time or than one it could have seen, and is told the     *)
(* terms a payment intent is stored with (module McpServer).  The calls of *)
(* the pool are at one of its nodes (TypeOK of module RpcPool).            *)
RoutesAreTrue ==
    /\ scenario \in {"breaker", "retries"} => TypeOK
    /\ scenario = "route" => Route!TypeOK /\ Route!AnswersTellWhoRan /\ Route!MockMeansExhausted
                             /\ Route!SamplesAreTrue
    /\ scenario = "routes" => Routes!TypeOK /\ Routes!AnswersTellWhoRan
                             /\ Routes!MockMeansExhausted /\ Routes!SamplesAreTrue
    /\ scenario = "tools" => AgentTools!TypeOK /\ AgentTools!WindowHolds /\ AgentTools!ToldIsStored
    /\ scenario = "catalog" => Catalog!TypeOK /\ Catalog!WindowHolds /\ Catalog!CachedIsFresh
                             /\ Catalog!NeverGoesBack /\ Catalog!WaitsForABuild
    /\ scenario = "intents" => Intents!TypeOK /\ Intents!ToldIsStored
    /\ scenario = "offer" => Offer!TypeOK /\ Offer!OfferedIsRoutable
    /\ scenario = "liquid" => Liquid!TypeOK /\ Liquid!OfferedIsRoutable
                             /\ Liquid!PaidTwiceIsUnclear /\ Liquid!OrderTellsWhoPaid
=============================================================================
