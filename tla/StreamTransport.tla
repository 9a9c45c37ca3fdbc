---------------------------- MODULE StreamTransport ----------------------------
(***************************************************************************)
(* The outbound stream transport (src/src/server.rs, run_stream): the      *)
(* device dials the platform, registers and serves it over the one         *)
(* connection, and dials again when the connection is lost.  Each          *)
(* connection has a keepalive task, a task that drains NOTIFYs into it and *)
(* the notifier's binding to that drain; the media session belongs to the  *)
(* server and survives a re-dial.                                          *)
(*                                                                         *)
(* Registration exchanges are those of module Registration: here one has   *)
(* only a beginning and a result.  The platform may close a connection at  *)
(* any time.                                                               *)
(***************************************************************************)
EXTENDS Naturals

CONSTANTS
    MaxAttempts, \* MAX_REG_ATTEMPTS of the registration loop
    MaxConns     \* bound: connections dialed

ASSUME StreamAssumption == MaxAttempts \in Nat \ {0} /\ MaxConns \in Nat

VARIABLES
    loop,       \* where run_stream is
    attempt,    \* registration attempt on this connection
    exchange,   \* what the awaited registration exchange is for
    conn,       \* the connection in use or last used, 0 before the first
    alive,      \* connections the platform has not closed
    registered, \* run_stream's `registered`, per connection
    accepted,   \* history: the last REGISTER on this connection succeeded
    conn_stop,  \* whose keepalive the server's stop sender belongs to
    keepalives, \* connections whose keepalive task runs
    tcp_tx,     \* the notifier's binding
    drains,     \* connections whose NOTIFY drain task runs
    told,       \* connections whose tasks were told to stop
    media,      \* whether a media session is in the slot
    mode        \* the shutdown watch channel

vars == <<loop, attempt, exchange, conn, alive, registered, accepted, conn_stop,
          keepalives, tcp_tx, drains, told, media, mode>>

place == <<loop, attempt, exchange, conn>>
tasks == <<conn_stop, keepalives, tcp_tx, drains, told>>

Conn == 1 .. MaxConns
NoConn == 0

TypeOK ==
    /\ loop \in {"dialing", "dial_backoff", "registering", "register_backoff",
                 "serving", "stopped"}
    /\ attempt \in 1 .. MaxAttempts
    /\ exchange \in {"none", "startup", "refresh", "failures", "deregister"}
    /\ conn \in Conn \cup {NoConn}
    /\ alive \subseteq Conn
    /\ registered \in BOOLEAN
    /\ accepted \in BOOLEAN
    /\ conn_stop \in Conn \cup {NoConn}
    /\ keepalives \subseteq Conn
    /\ tcp_tx \in Conn \cup {NoConn}
    /\ drains \subseteq Conn
    /\ told \subseteq [task : {"keepalive", "drain"}, conn : Conn]
    /\ media \in BOOLEAN
    /\ mode \in {"none", "fast", "deregister"}

Init ==
    /\ loop = "dialing"
    /\ attempt = 1
    /\ exchange = "none"
    /\ conn = NoConn
    /\ alive = {}
    /\ registered = FALSE
    /\ accepted = FALSE
    /\ conn_stop = NoConn
    /\ keepalives = {}
    /\ tcp_tx = NoConn
    /\ drains = {}
    /\ told = {}
    /\ media = FALSE
    /\ mode = "none"

Idle == loop = "serving" /\ exchange = "none"

Keepalive(k) == [task |-> "keepalive", conn |-> k]
Drain(k)     == [task |-> "drain", conn |-> k]

-------------------------------------------------------------------------------
(* Dialing.                                                                *)

DialSucceeds ==
    /\ loop = "dialing"
    /\ conn < MaxConns
    /\ conn' = conn + 1
    /\ alive' = alive \cup {conn'}
    /\ tcp_tx' = conn'
    /\ drains' = drains \cup {conn'}
    /\ loop' = "registering"
    /\ attempt' = 1
    /\ registered' = FALSE
    /\ accepted' = FALSE
    /\ UNCHANGED <<exchange, conn_stop, keepalives, told, media, mode>>

DialFails ==
    /\ loop = "dialing"
    /\ loop' = "dial_backoff"
    /\ UNCHANGED <<attempt, exchange, conn, alive, registered, accepted, tasks,
                   media, mode>>

DialBackoffElapses ==
    /\ loop = "dial_backoff"
    /\ loop' = "dialing"
    /\ UNCHANGED <<attempt, exchange, conn, alive, registered, accepted, tasks,
                   media, mode>>

(* Returns at once, without shutdown_cleanup. *)
DialInterrupted ==
    /\ mode # "none"
    /\ loop \in {"dialing", "dial_backoff"}
    /\ loop' = "stopped"
    /\ UNCHANGED <<attempt, exchange, conn, alive, registered, accepted, tasks,
                   media, mode>>

-------------------------------------------------------------------------------
(* The end of a connection.                                                *)

(* unbind_tcp: unless a newer connection rebound it. *)
Unbound == IF tcp_tx = conn THEN NoConn ELSE tcp_tx

StopsDrainOnly == told \cup {Drain(conn)}

(* notify_closed_tx, and conn_stop.take() when a keepalive was spawned. *)
StopSignals ==
    told \cup {Drain(conn)} \cup {Keepalive(k) : k \in {conn_stop} \ {NoConn}}

ConnectionEnds ==
    /\ tcp_tx' = Unbound
    /\ told' = StopSignals
    /\ conn_stop' = NoConn
    /\ exchange' = "none"
    /\ UNCHANGED <<attempt, conn, alive, registered, accepted, keepalives, drains,
                   mode>>

(* The inner loop breaks and the outer one dials again. *)
Redials == ConnectionEnds /\ loop' = "dialing" /\ UNCHANGED media

(* The inner loop breaks for shutdown: shutdown_cleanup ends the session. *)
Stops == ConnectionEnds /\ loop' = "stopped" /\ media' = FALSE

-------------------------------------------------------------------------------
(* Registering on a fresh connection.                                      *)

StartupAttempt ==
    /\ loop = "registering"
    /\ exchange = "none"
    /\ exchange' = "startup"
    /\ UNCHANGED <<loop, attempt, conn, alive, registered, accepted, tasks, media,
                   mode>>

StartupSucceeds ==
    /\ exchange = "startup"
    /\ conn \in alive
    /\ exchange' = "none"
    /\ loop' = "serving"
    /\ registered' = TRUE
    /\ accepted' = TRUE
    /\ keepalives' = keepalives \cup {conn}
    /\ conn_stop' = conn
    /\ UNCHANGED <<attempt, conn, alive, tcp_tx, drains, told, media, mode>>

(* Refused, unanswered, or the pump's channel is closed; after the last      *)
(* attempt the loop stays on the connection, unregistered.                   *)
StartupFails ==
    /\ exchange = "startup"
    /\ exchange' = "none"
    /\ loop' = IF attempt < MaxAttempts THEN "register_backoff" ELSE "serving"
    /\ accepted' = FALSE
    /\ UNCHANGED <<attempt, conn, alive, registered, tasks, media, mode>>

RegisterBackoffElapses ==
    /\ loop = "register_backoff"
    /\ loop' = "registering"
    /\ attempt' = attempt + 1
    /\ UNCHANGED <<exchange, conn, alive, registered, accepted, tasks, media, mode>>

(* The binding and the drain are undone; nothing else is.  No keepalive runs *)
(* on a connection that is still registering.                                *)
StartupInterrupted ==
    /\ mode # "none"
    /\ exchange = "startup" \/ loop = "register_backoff"
    /\ loop' = "stopped"
    /\ exchange' = "none"
    /\ tcp_tx' = Unbound
    /\ told' = told \cup {Drain(conn)}
    /\ UNCHANGED <<attempt, conn, alive, registered, accepted, conn_stop,
                   keepalives, drains, media, mode>>

-------------------------------------------------------------------------------
(* Serving.                                                                *)

(* An INVITE or a BYE of the platform starts or ends the media session. *)
SessionChanges ==
    /\ Idle
    /\ conn \in alive
    /\ media' = ~media
    /\ UNCHANGED <<place, alive, registered, accepted, tasks, mode>>

(* heartbeat_timeout_count responses other than 200: handle_message          *)
(* registers again and ignores the result.                                   *)
FailuresTrip ==
    /\ Idle
    /\ conn \in alive
    /\ exchange' = "failures"
    /\ UNCHANGED <<loop, attempt, conn, alive, registered, accepted, tasks, media,
                   mode>>

RefreshTick ==
    /\ Idle
    /\ exchange' = "refresh"
    /\ UNCHANGED <<loop, attempt, conn, alive, registered, accepted, tasks, media,
                   mode>>

(* Success is logged; `registered` and the keepalive stay as they are, in    *)
(* listen-only mode too.                                                     *)
ReregisterSucceeds ==
    /\ exchange \in {"refresh", "failures"}
    /\ conn \in alive
    /\ exchange' = "none"
    /\ accepted' = TRUE
    /\ UNCHANGED <<loop, attempt, conn, alive, registered, tasks, media, mode>>

ReregisterIgnored ==
    /\ exchange = "failures" \/ (exchange = "refresh" /\ ~registered)
    /\ exchange' = "none"
    /\ accepted' = FALSE
    /\ UNCHANGED <<loop, attempt, conn, alive, registered, tasks, media, mode>>

(* A refresh that fails while registered drops the connection. *)
RefreshFails == exchange = "refresh" /\ registered /\ Redials

NoticesWhenRegistered == Idle /\ registered

(* recv() on the pump's channel: messages, then None once the pump is gone. *)
NoticesEnd == Idle

DropNoticed == NoticesEnd /\ conn \notin alive /\ Redials

(* No response for heartbeat_timeout_count heartbeats. *)
SilenceDetected == Idle /\ Redials

Deregisters == mode = "deregister" /\ registered

ShutdownTaken ==
    /\ mode # "none"
    /\ Idle \/ exchange = "refresh"
    /\ \/ /\ Deregisters
          /\ exchange' = "deregister"
          /\ UNCHANGED <<loop, attempt, conn, alive, registered, accepted, tasks,
                         media, mode>>
       \/ ~Deregisters /\ Stops

(* Answered, refused or unanswered within its windows. *)
DeregisterEnds == exchange = "deregister" /\ Stops

-------------------------------------------------------------------------------
(* The rest of the world.                                                  *)

PlatformCloses ==
    /\ loop # "stopped"
    /\ conn \in alive
    /\ alive' = alive \ {conn}
    /\ UNCHANGED <<place, registered, accepted, tasks, media, mode>>

RequestShutdown(m) ==
    /\ loop # "stopped"
    /\ mode # m
    /\ mode' = m
    /\ UNCHANGED <<place, alive, registered, accepted, tasks, media>>

KeepaliveStops(k) ==
    /\ k \in keepalives
    /\ Keepalive(k) \in told
    /\ keepalives' = keepalives \ {k}
    /\ UNCHANGED <<place, alive, registered, accepted, conn_stop, tcp_tx, drains,
                   told, media, mode>>

DrainStops(k) ==
    /\ k \in drains
    /\ Drain(k) \in told
    /\ drains' = drains \ {k}
    /\ UNCHANGED <<place, alive, registered, accepted, conn_stop, keepalives,
                   tcp_tx, told, media, mode>>

-------------------------------------------------------------------------------
Dials == DialSucceeds \/ DialFails \/ DialBackoffElapses

Registers ==
    \/ StartupAttempt
    \/ StartupSucceeds
    \/ StartupFails
    \/ RegisterBackoffElapses

Serves ==
    \/ SessionChanges
    \/ FailuresTrip
    \/ RefreshTick
    \/ ReregisterSucceeds
    \/ ReregisterIgnored
    \/ RefreshFails
    \/ DropNoticed
    \/ SilenceDetected

Interrupted == DialInterrupted \/ StartupInterrupted \/ ShutdownTaken

Next ==
    \/ Dials
    \/ Registers
    \/ Serves
    \/ Interrupted
    \/ DeregisterEnds
    \/ PlatformCloses
    \/ \E m \in {"fast", "deregister"} : RequestShutdown(m)
    \/ \E k \in Conn : KeepaliveStops(k) \/ DrainStops(k)

Spec == Init /\ [][Next]_vars

(* Response windows and back-offs are timers; select! takes a signal or a    *)
(* closed channel that stays ready (strong fairness: the branches are polled *)
(* in random order); a task told to stop stops.  Nothing is assumed of the   *)
(* platform or of dialing.                                                   *)
Fairness ==
    /\ WF_vars(StartupAttempt)
    /\ WF_vars(StartupFails)
    /\ WF_vars(RegisterBackoffElapses)
    /\ WF_vars(ReregisterIgnored \/ RefreshFails)
    /\ WF_vars(DeregisterEnds)
    /\ SF_vars(DropNoticed)
    /\ SF_vars(Interrupted)
    /\ \A k \in Conn : SF_vars(KeepaliveStops(k)) /\ SF_vars(DrainStops(k))

FairSpec == Spec /\ Fairness

-------------------------------------------------------------------------------
(* Properties.                                                             *)

(* "a re-dial never stacks tasks": a keepalive task nobody told to stop is   *)
(* the one of the connection in use, and the server can still stop it.       *)
OneConnectionBeats ==
    \A k \in keepalives :
        Keepalive(k) \notin told =>
            /\ k = conn
            /\ k = conn_stop
            /\ loop = "serving"

(* The notifier is bound exactly while there is a connection to ride, and    *)
(* then to that connection's drain, which is running: no NOTIFY is queued    *)
(* for a connection that was given up.                                       *)
BindingFollowsConnection ==
    /\ loop \in {"registering", "register_backoff", "serving"} => tcp_tx = conn
    /\ loop \in {"dialing", "dial_backoff", "stopped"} => tcp_tx = NoConn
    /\ tcp_tx # NoConn => tcp_tx \in drains /\ Drain(tcp_tx) \notin told

(* "a dropped connection re-dials": whatever the registration state is, a    *)
(* connection the platform closed is given up.                               *)
DroppedConnectionRedials ==
    loop = "serving" /\ conn \notin alive ~> loop \in {"dialing", "stopped"}

(* Shutdown ends the loop and the tasks of every connection, in whatever     *)
(* state it finds them.                                                      *)
ShutdownCompletes ==
    mode # "none" ~> (loop = "stopped" /\ keepalives = {} /\ drains = {})

(* ServerHandle::shutdown "aborts any active media/playback task, and        *)
(* unsubscribes from the frame source".                                      *)
ShutdownReleases == loop = "stopped" => ~media

(* "the full REGISTER/keepalive/re-registration/deregister lifecycle over    *)
(* the one connection": a connection the device serves and on which its last *)
(* REGISTER succeeded is kept alive.                                         *)
RetryIsKeptAlive == Idle /\ accepted => conn \in keepalives
===============================================================================
