----------------------------- MODULE Registration -----------------------------
(***************************************************************************)
(* The registration lifecycle of the UDP run loop (src/src/server.rs,      *)
(* run_udp): the startup attempts with their back-off, listen-only mode,   *)
(* the periodic refresh, the two failure detectors, the keepalive tasks    *)
(* and the two ways to shut down.                                          *)
(*                                                                         *)
(* A REGISTER exchange has two legs: a bare request, and, after a 401, an  *)
(* authenticated one under the next CSeq.  It awaits its response inside   *)
(* the run loop and tells responses apart by CSeq alone.  The wire is UDP: *)
(* a request or a response can be delayed past the exchange that waits for *)
(* it, overtaken, or lost (never taken up).  The platform is external.     *)
(***************************************************************************)
EXTENDS Naturals

CONSTANTS
    MaxAttempts,   \* MAX_REG_ATTEMPTS of the startup loop
    TimeoutCount,  \* config.heartbeat_timeout_count
    MaxExchanges   \* bound: exchanges begun before further triggers are ignored

ASSUME RegistrationAssumption ==
    /\ MaxAttempts \in Nat \ {0}
    /\ TimeoutCount \in Nat \ {0}
    /\ MaxExchanges \in Nat
    /\ MaxAttempts <= MaxExchanges

VARIABLES
    loop,       \* where the run loop is
    attempt,    \* startup attempt, from 1
    exchange,   \* the exchange the loop awaits
    begun,      \* exchanges begun so far
    cseq,       \* client.cseq
    registered, \* run_udp's `registered`
    accepted,   \* history: the result of the last perform_register
    keepalives, \* keepalive tasks running
    failures,   \* keepalive_failures
    mode,       \* the shutdown watch channel
    requests,   \* every REGISTER sent
    unanswered, \* those the platform has not answered
    inbox,      \* the responses the device has not received
    granted     \* history: the platform accepted a registration

vars == <<loop, attempt, exchange, begun, cseq, registered, accepted, keepalives,
          failures, mode, requests, unanswered, inbox, granted>>

status == <<registered, accepted, keepalives>>
wire   == <<requests, unanswered, inbox, granted>>

Code  == {"ok", "challenge", "other"}
Cause == {"startup", "refresh", "silence", "failures", "shutdown"}
Leg   == {"initial", "authed"}
Op    == {"register", "deregister"}
MaxCSeq == 2 * MaxExchanges + 4

Request == [exchange : 1 .. MaxExchanges + 1, op : Op, leg : Leg,
            cseq : 1 .. MaxCSeq]
Response == [request : Request, code : Code]

NoExchange == [op |-> "none", cause |-> "none", leg |-> "none"]

TypeOK ==
    /\ loop \in {"registering", "backoff", "serving", "stopped"}
    /\ attempt \in 1 .. MaxAttempts
    /\ exchange \in [op : Op, cause : Cause, leg : Leg] \cup {NoExchange}
    /\ begun \in 0 .. MaxExchanges + 1
    /\ cseq \in 1 .. MaxCSeq
    /\ registered \in BOOLEAN
    /\ accepted \in BOOLEAN
    /\ keepalives \in 0 .. MaxExchanges
    /\ failures \in 0 .. TimeoutCount
    /\ mode \in {"none", "fast", "deregister"}
    /\ requests \subseteq Request
    /\ unanswered \subseteq requests
    /\ inbox \subseteq Response
    /\ granted \in BOOLEAN

Init ==
    /\ loop = "registering"
    /\ attempt = 1
    /\ exchange = NoExchange
    /\ begun = 0
    /\ cseq = 1
    /\ registered = FALSE
    /\ accepted = FALSE
    /\ keepalives = 0
    /\ failures = 0
    /\ mode = "none"
    /\ requests = {}
    /\ unanswered = {}
    /\ inbox = {}
    /\ granted = FALSE

Idle == loop = "serving" /\ exchange = NoExchange

-------------------------------------------------------------------------------
(* Sending.  A send that fails is a request the platform never takes up.   *)

UnbumpedNumber == cseq

(* client.inc_cseq() before the authenticated request is built. *)
NextNumber == cseq + 1

Send(number, op, leg, n) ==
    LET q == [exchange |-> number, op |-> op, leg |-> leg, cseq |-> n] IN
    /\ requests' = requests \cup {q}
    /\ unanswered' = unanswered \cup {q}

Begin(op, cause) ==
    /\ begun' = begun + 1
    /\ exchange' = [op |-> op, cause |-> cause, leg |-> "initial"]
    /\ Send(begun + 1, op, "initial", cseq)

BeginRegister(cause) == begun < MaxExchanges /\ Begin("register", cause)

(* perform_deregister's first leg: shutdown while registered. *)
BeginDeregister == Begin("deregister", "shutdown") /\ UNCHANGED loop

-------------------------------------------------------------------------------
(* The end of an exchange, as the place that awaited it treats its result.   *)

(* Only the startup loop and the refresh tick look at the result; the        *)
(* failure detectors log it.                                                 *)
Judges(cause) == cause \in {"startup", "refresh"}

(* A keepalive task is spawned when `registered` turns true. *)
SpawnedKeepalives(ok) ==
    IF Judges(exchange.cause) /\ ok /\ ~registered THEN 1 ELSE 0

RegisteredAfter(ok) == IF Judges(exchange.cause) THEN ok ELSE registered

(* The detectors clear the failure counter whatever the result was. *)
FailuresAfter == IF Judges(exchange.cause) THEN failures ELSE 0

LoopAfter(ok) ==
    IF exchange.cause = "startup" /\ ~ok /\ attempt < MaxAttempts
    THEN "backoff" ELSE "serving"

RegisterEnds(ok) ==
    /\ exchange.op = "register"
    /\ exchange' = NoExchange
    /\ accepted' = ok
    /\ registered' = RegisteredAfter(ok)
    /\ keepalives' = keepalives + SpawnedKeepalives(ok)
    /\ failures' = FailuresAfter
    /\ loop' = LoopAfter(ok)
    /\ UNCHANGED <<attempt, begun, mode>>

ResumesServing ==
    /\ exchange.op = "deregister"
    /\ exchange' = NoExchange
    /\ UNCHANGED <<attempt, begun, mode, status, failures, loop>>

(* Best effort: however de-registration ends, shutdown_cleanup follows and   *)
(* the loop returns.                                                         *)
DeregisterEnds ==
    /\ exchange.op = "deregister"
    /\ exchange' = NoExchange
    /\ loop' = "stopped"
    /\ UNCHANGED <<attempt, begun, mode, status, failures>>

-------------------------------------------------------------------------------
(* Responses of the exchange in progress.                                  *)

(* receive_register_response: a REGISTER response with the expected CSeq.    *)
(* Both legs expect the number the client holds.                             *)
Matches(a) == exchange # NoExchange /\ a.request.cseq = cseq

Received(a) == inbox' = inbox \ {a}

(* Anything else received meanwhile is dropped. *)
ResponseSkipped(a) ==
    /\ exchange # NoExchange
    /\ ~Matches(a)
    /\ Received(a)
    /\ UNCHANGED <<loop, attempt, exchange, begun, cseq, status, failures,
                   mode, requests, unanswered, granted>>

(* 401 to the bare request: the authenticated one goes out. *)
Challenged(a) ==
    /\ Matches(a)
    /\ Received(a)
    /\ a.code = "challenge"
    /\ exchange.leg = "initial"
    /\ cseq' = NextNumber
    /\ exchange' = [exchange EXCEPT !.leg = "authed"]
    /\ Send(begun, exchange.op, "authed", NextNumber)
    /\ UNCHANGED <<loop, attempt, begun, status, failures, mode, granted>>

(* 401 without a usable WWW-Authenticate: the number is spent, the exchange  *)
(* fails.                                                                    *)
ChallengeUnusable(a) ==
    /\ Matches(a)
    /\ Received(a)
    /\ a.code = "challenge"
    /\ exchange.leg = "initial"
    /\ cseq' = NextNumber
    /\ RegisterEnds(FALSE) \/ DeregisterEnds
    /\ UNCHANGED <<requests, unanswered, granted>>

(* 200 to either leg. *)
RegisterAccepted(a) ==
    /\ Matches(a)
    /\ Received(a)
    /\ a.code = "ok"
    /\ cseq' = cseq + 1
    /\ RegisterEnds(TRUE)
    /\ UNCHANGED <<requests, unanswered, granted>>

(* 200 to the second leg, but the authenticator rejects its SecurityInfo. *)
AcceptanceUnverified(a) ==
    /\ Matches(a)
    /\ Received(a)
    /\ a.code = "ok"
    /\ exchange.leg = "authed"
    /\ RegisterEnds(FALSE)
    /\ UNCHANGED <<cseq, requests, unanswered, granted>>

IsRefusal(a) ==
    a.code = "other" \/ (a.code = "challenge" /\ exchange.leg = "authed")

(* Any other status, a provisional one included, fails the attempt; the      *)
(* number is used again.                                                     *)
RegisterRefused(a) ==
    /\ Matches(a)
    /\ Received(a)
    /\ IsRefusal(a)
    /\ RegisterEnds(FALSE)
    /\ UNCHANGED <<cseq, requests, unanswered, granted>>

DeregisterAnswered(a) ==
    /\ Matches(a)
    /\ Received(a)
    /\ a.code = "ok" \/ IsRefusal(a)
    /\ cseq' = cseq + 1
    /\ DeregisterEnds
    /\ UNCHANGED <<requests, unanswered, granted>>

(* The response window closes, or a datagram that does not parse ends the    *)
(* wait early.                                                               *)
ResponseMissing ==
    /\ RegisterEnds(FALSE) \/ DeregisterEnds
    /\ UNCHANGED <<cseq, wire>>

-------------------------------------------------------------------------------
(* What starts an exchange.                                                *)

StartupAttempt ==
    /\ loop = "registering"
    /\ exchange = NoExchange
    /\ BeginRegister("startup")
    /\ UNCHANGED <<loop, attempt, cseq, status, failures, mode, inbox, granted>>

BackoffElapses ==
    /\ loop = "backoff"
    /\ loop' = "registering"
    /\ attempt' = attempt + 1
    /\ UNCHANGED <<exchange, begun, cseq, status, failures, mode, wire>>

(* The re-registration interval ticks, in listen-only mode too. *)
RefreshTick ==
    /\ Idle
    /\ BeginRegister("refresh")
    /\ UNCHANGED <<loop, attempt, cseq, status, failures, mode, inbox, granted>>

(* No response was handled for heartbeat_timeout_count heartbeats; clocks    *)
(* are not modelled, so it can happen whenever the loop is idle.             *)
SilenceDetected ==
    /\ Idle
    /\ BeginRegister("silence")
    /\ UNCHANGED <<loop, attempt, cseq, status, failures, mode, inbox, granted>>

Trips == failures + 1 >= TimeoutCount

(* handle_message on a response nothing waits for: any 200 clears the        *)
(* counter, any other status counts as a keepalive failure.                  *)
ResponseCounted(code) ==
    \/ /\ code = "ok"
       /\ failures' = 0
       /\ UNCHANGED <<exchange, begun, requests, unanswered>>
    \/ /\ code # "ok"
       /\ ~Trips
       /\ failures' = failures + 1
       /\ UNCHANGED <<exchange, begun, requests, unanswered>>
    \/ /\ code # "ok"
       /\ Trips
       /\ failures' = failures + 1
       /\ BeginRegister("failures")

(* The platform answers a keepalive. *)
KeepaliveAnswered(code) ==
    /\ Idle
    /\ keepalives > 0
    /\ ResponseCounted(code)
    /\ UNCHANGED <<loop, attempt, cseq, status, mode, inbox, granted>>

(* A REGISTER response that arrives after its exchange ended. *)
LateResponse(a) ==
    /\ Idle
    /\ Received(a)
    /\ ResponseCounted(a.code)
    /\ UNCHANGED <<loop, attempt, cseq, status, mode, granted>>

-------------------------------------------------------------------------------
(* Shutdown.                                                               *)

(* The handle's shutdown() or shutdown_with_deregister(); a later call       *)
(* overwrites the watch value.                                               *)
RequestShutdown(m) ==
    /\ loop # "stopped"
    /\ mode # m
    /\ mode' = m
    /\ UNCHANGED <<loop, attempt, exchange, begun, cseq, status, failures,
                   wire>>

(* Startup races every await against the signal and returns at once. *)
StartupInterrupted ==
    /\ mode # "none"
    /\ loop = "backoff" \/ exchange.cause = "startup"
    /\ loop' = "stopped"
    /\ exchange' = NoExchange
    /\ UNCHANGED <<attempt, begun, cseq, status, failures, mode, wire>>

TakesSignalRegistered == (Idle /\ registered) \/ exchange.cause = "refresh"

(* The select of the idle loop, and the one inside the refresh tick; the     *)
(* failure detectors' exchanges are not raced against the signal.            *)
TakesSignal == Idle \/ exchange.cause = "refresh"

NeverDeregisters == FALSE

Deregisters == mode = "deregister" /\ registered

(* The idle loop, or the refresh tick whose exchange is dropped half-way,    *)
(* takes the signal.                                                         *)
ShutdownTaken ==
    /\ mode # "none"
    /\ TakesSignal
    /\ \/ /\ Deregisters
          /\ BeginDeregister
       \/ /\ ~Deregisters
          /\ loop' = "stopped"
          /\ exchange' = NoExchange
          /\ UNCHANGED <<begun, requests, unanswered>>
    /\ UNCHANGED <<attempt, cseq, status, failures, mode, inbox, granted>>

(* A keepalive task waits on the signal and on its interval, nothing else. *)
KeepaliveStops ==
    /\ mode # "none"
    /\ keepalives > 0
    /\ keepalives' = keepalives - 1
    /\ UNCHANGED <<loop, attempt, exchange, begun, cseq, registered, accepted,
                   failures, mode, wire>>

-------------------------------------------------------------------------------
(* The platform (external): answers each request at most once, when it       *)
(* likes, with a challenge, an acceptance or a refusal.  Answers to a device *)
(* that stopped are left out: nothing reads them.                            *)
PlatformAnswers(q, code) ==
    /\ loop # "stopped"
    /\ unanswered' = unanswered \ {q}
    /\ inbox' = inbox \cup {[request |-> q, code |-> code]}
    /\ granted' = (granted \/ (code = "ok" /\ q.op = "register"))
    /\ UNCHANGED <<loop, attempt, exchange, begun, cseq, status, failures, mode,
                   requests>>

-------------------------------------------------------------------------------
ResponseReceived(a) ==
    \/ ResponseSkipped(a)
    \/ Challenged(a)
    \/ ChallengeUnusable(a)
    \/ RegisterAccepted(a)
    \/ AcceptanceUnverified(a)
    \/ RegisterRefused(a)
    \/ DeregisterAnswered(a)
    \/ LateResponse(a)

Triggers ==
    \/ StartupAttempt
    \/ BackoffElapses
    \/ RefreshTick
    \/ SilenceDetected
    \/ \E code \in {"ok", "other"} : KeepaliveAnswered(code)

Interrupted == StartupInterrupted \/ ShutdownTaken

Next ==
    \/ Triggers
    \/ \E a \in inbox : ResponseReceived(a)
    \/ ResponseMissing
    \/ \E m \in {"fast", "deregister"} : RequestShutdown(m)
    \/ Interrupted
    \/ KeepaliveStops
    \/ \E q \in unanswered, code \in Code : PlatformAnswers(q, code)

Spec == Init /\ [][Next]_vars

(* The response windows and the back-off are timers, the startup loop goes   *)
(* on by itself.  tokio's select! polls its branches in random order and the *)
(* signal stays ready until it is taken: a loop that returns to a select     *)
(* again and again takes it (strong fairness).  Nothing is assumed of the    *)
(* platform.                                                                 *)
Fairness ==
    /\ WF_vars(StartupAttempt)
    /\ WF_vars(BackoffElapses)
    /\ WF_vars(ResponseMissing)
    /\ SF_vars(Interrupted)
    /\ WF_vars(KeepaliveStops)

FairSpec == Spec /\ Fairness

-------------------------------------------------------------------------------
(* Properties.                                                             *)

(* `registered` and every keepalive task rest on an acceptance the platform  *)
(* really gave to a REGISTER: no refusal, challenge, timeout or stray        *)
(* response is ever taken for a registration.                                *)
RegistrationIsGranted ==
    registered \/ keepalives > 0 => granted

(* While the device believes itself registered and nobody asked it to stop,  *)
(* a keepalive task is running: on every path to `registered`, the listen-   *)
(* only recovery included.                                                   *)
RegisteredIsKeptAlive ==
    registered /\ mode = "none" => keepalives > 0

(* The numbers of one Call-ID follow the order of sending, and a request     *)
(* with credentials never carries a number that went out before it: a        *)
(* platform that discards out-of-order requests never discards credentials.  *)
NumbersInOrder ==
    \A p, q \in requests :
        /\ p.exchange < q.exchange => p.cseq <= q.cseq
        /\ p # q /\ q.leg = "authed" /\ p.cseq = q.cseq
              => q.exchange < p.exchange

(* The failure counter never rests at the threshold: an idle loop has        *)
(* re-registered for every heartbeat_timeout_count consecutive failures.     *)
FailuresReact == Idle => failures < TimeoutCount

(* De-registration is the last exchange: no REGISTER that would bring the    *)
(* binding back is sent after it, and it is only sent to stop.               *)
DeregisterIsLast ==
    \A q \in requests :
        q.op = "deregister" =>
            /\ q.exchange = begun
            /\ mode # "none"
            /\ exchange.op = "deregister" \/ loop = "stopped"

(* shutdown_with_deregister: a loop that stops with that mode while it is    *)
(* registered has sent the de-registration, wherever the signal caught it.   *)
StopsDeregistered ==
    [][ /\ loop = "serving" /\ loop' = "stopped"
        /\ mode = "deregister" /\ registered
        => \E q \in requests : q.op = "deregister" ]_vars

(* "shutdown itself must always succeed": a requested shutdown ends the loop *)
(* and every keepalive task, whatever the platform does or leaves undone.    *)
ShutdownCompletes == mode # "none" ~> (loop = "stopped" /\ keepalives = 0)

(* "Keepalive (MESSAGE) on heartbeat_interval_secs": at most one task beats. *)
OneKeepalive == keepalives <= 1

(* "A late response from a previous cycle must be skipped, not consumed":    *)
(* a response that moves an exchange on answers that exchange's own request. *)
ConsumesOwnResponse ==
    [][ \A a \in inbox :
          a \notin inbox' /\ exchange # NoExchange /\ exchange' # exchange =>
              a.request.exchange = begun /\ a.request.leg = exchange.leg ]_vars

(* "No-op on the UDP path when registration never succeeded": a device that  *)
(* is told to de-register, and whose last REGISTER succeeded, sends a        *)
(* de-registration before it stops.                                          *)
DeregistersWhenAccepted ==
    [][ /\ loop = "serving" /\ loop' = "stopped"
        /\ mode = "deregister" /\ accepted
        => \E q \in requests : q.op = "deregister" ]_vars
===============================================================================
