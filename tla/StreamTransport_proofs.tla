------------------------- MODULE StreamTransport_proofs -------------------------
(***************************************************************************)
(* Proofs about StreamTransport for every number of startup attempts and   *)
(* of connections.                                                         *)
(***************************************************************************)
EXTENDS StreamTransport, TLAPS

Connected == loop \in {"registering", "register_backoff", "serving"}

(* An exchange is awaited where run_stream awaits it.                      *)
Control ==
    /\ exchange = "startup" => loop = "registering"
    /\ exchange \in {"refresh", "failures", "deregister"} => loop = "serving"
    /\ loop = "register_backoff" => attempt < MaxAttempts
    /\ Connected => conn # NoConn

(* Connections are numbered in the order they are dialed: no task of one   *)
(* that was not dialed runs or was told to stop.                           *)
Fresh ==
    \A k \in Conn :
        k > conn => /\ k \notin keepalives \cup drains
                    /\ Keepalive(k) \notin told
                    /\ Drain(k) \notin told

(* The stop sender is the connection's in use, and only while it is        *)
(* served.                                                                 *)
StopSenderCurrent ==
    conn_stop # NoConn => loop = "serving" /\ conn_stop = conn

(* The inductive invariant.                                                *)
IInv ==
    /\ TypeOK
    /\ Control
    /\ Fresh
    /\ StopSenderCurrent
    /\ OneConnectionBeats
    /\ BindingFollowsConnection

-------------------------------------------------------------------------------
LEMMA StopRecords ==
    /\ \A j, k : Keepalive(j) # Drain(k)
    /\ \A j, k : Keepalive(j) = Keepalive(k) => j = k
    /\ \A j, k : Drain(j) = Drain(k) => j = k
BY DEF Keepalive, Drain

LEMMA InvInit == Init => IInv
<1> SUFFICES ASSUME Init PROVE IInv
  OBVIOUS
<1>1. TypeOK
  <2>1. 1 \in 1 .. MaxAttempts
    BY StreamAssumption
  <2>2. QED
    BY <2>1 DEF Init, TypeOK
<1>2. Control /\ Fresh /\ StopSenderCurrent
  BY DEF Init, Control, Fresh, StopSenderCurrent, Connected
<1>3. OneConnectionBeats /\ BindingFollowsConnection
  BY DEF Init, OneConnectionBeats, BindingFollowsConnection
<1>4. QED
  BY <1>1, <1>2, <1>3 DEF IInv

(* A step that touches no task and neither makes nor ends a connection.      *)
LEMMA QuietKeeps ==
    ASSUME IInv, TypeOK', Control',
           UNCHANGED <<conn, tasks>>,
           Connected' <=> Connected,
           loop = "serving" => loop' = "serving"
    PROVE  IInv'
<1> USE DEF IInv
<1>1. UNCHANGED <<conn, conn_stop, keepalives, tcp_tx, drains, told>>
  BY DEF tasks
<1>2. Fresh' /\ StopSenderCurrent' /\ OneConnectionBeats'
  BY <1>1 DEF Fresh, StopSenderCurrent, OneConnectionBeats
<1>3. BindingFollowsConnection'
  BY <1>1 DEF BindingFollowsConnection, Connected, TypeOK
<1>4. QED
  BY <1>2, <1>3

(* A connection that ends leaves no task of it running untold, and no        *)
(* binding.                                                                  *)
LEMMA ConnectionEndsKeeps ==
    ASSUME IInv, loop = "serving", ConnectionEnds,
           loop' \in {"dialing", "stopped"}, media' \in BOOLEAN
    PROVE  IInv'
<1> USE DEF IInv
<1>1. /\ tcp_tx = conn
      /\ tcp_tx' = NoConn
      /\ conn \in Conn
      /\ conn_stop \in {NoConn, conn}
      /\ conn_stop' = NoConn
      /\ exchange' = "none"
      /\ UNCHANGED <<attempt, conn, alive, registered, accepted, keepalives, drains,
                     mode>>
  BY DEF ConnectionEnds, Unbound, BindingFollowsConnection, StopSenderCurrent, TypeOK,
         Control, Connected
<1>2. /\ told' = StopSignals
      /\ told \subseteq told'
      /\ \A t \in told' : t \in told \/ t = Drain(conn) \/ t = Keepalive(conn)
      /\ conn_stop # NoConn => Keepalive(conn_stop) \in told'
  BY <1>1 DEF ConnectionEnds, StopSignals
<1>3. told' \subseteq [task : {"keepalive", "drain"}, conn : Conn]
  BY <1>1, <1>2 DEF TypeOK, Drain, Keepalive
<1>4. TypeOK'
  BY <1>1, <1>3 DEF TypeOK
<1>5. Control' /\ StopSenderCurrent'
  BY <1>1 DEF Control, Connected, StopSenderCurrent
<1>6. Fresh'
  <2>1. SUFFICES ASSUME NEW k \in Conn, k > conn
                 PROVE  /\ k \notin keepalives \cup drains
                        /\ Keepalive(k) \notin told'
                        /\ Drain(k) \notin told'
    BY <1>1 DEF Fresh
  <2>2. k # conn
    BY <1>1, <2>1 DEF Conn
  <2>3. QED
    BY <1>2, <2>1, <2>2, StopRecords DEF Fresh
<1>7. OneConnectionBeats'
  <2>1. SUFFICES ASSUME NEW k \in keepalives PROVE Keepalive(k) \in told'
    BY <1>1 DEF OneConnectionBeats
  <2>2. CASE Keepalive(k) \in told
    BY <1>2, <2>2
  <2>3. CASE Keepalive(k) \notin told
    <3>1. k = conn_stop /\ k \in Conn
      BY <2>3 DEF OneConnectionBeats, TypeOK
    <3>2. QED
      BY <1>2, <3>1, StreamAssumption DEF Conn, NoConn
  <2>4. QED
    BY <2>2, <2>3
<1>8. BindingFollowsConnection'
  BY <1>1 DEF BindingFollowsConnection
<1>9. QED
  BY <1>4, <1>5, <1>6, <1>7, <1>8
-------------------------------------------------------------------------------
(* A new connection: everything of it is fresh.                              *)
LEMMA DialSucceedsKeeps == IInv /\ DialSucceeds => IInv'
<1> SUFFICES ASSUME IInv, DialSucceeds PROVE IInv'
  OBVIOUS
<1> USE DEF IInv
<1>1. /\ conn \in Nat /\ conn' = conn + 1 /\ conn' \in Conn /\ conn' # NoConn
      /\ loop = "dialing" /\ loop' = "registering"
  BY StreamAssumption DEF DialSucceeds, TypeOK, Conn, NoConn
<1>2. /\ conn_stop = NoConn
      /\ UNCHANGED <<exchange, conn_stop, keepalives, told, media, mode>>
      /\ tcp_tx' = conn'
      /\ drains' = drains \cup {conn'}
  BY <1>1 DEF DialSucceeds, StopSenderCurrent
<1>3. Keepalive(conn') \notin told /\ Drain(conn') \notin told
  BY <1>1 DEF Fresh
<1>4. TypeOK'
  <2>1. 1 \in 1 .. MaxAttempts
    BY StreamAssumption
  <2>2. /\ attempt' = 1 /\ registered' = FALSE /\ accepted' = FALSE
        /\ alive' = alive \cup {conn'}
    BY DEF DialSucceeds
  <2>3. QED
    BY <1>1, <1>2, <2>1, <2>2 DEF TypeOK
<1>5. Control' /\ StopSenderCurrent'
  BY <1>1, <1>2 DEF Control, Connected, StopSenderCurrent
<1>6. Fresh'
  <2>1. SUFFICES ASSUME NEW k \in Conn, k > conn'
                 PROVE  /\ k \notin keepalives \cup drains'
                        /\ Keepalive(k) \notin told
                        /\ Drain(k) \notin told
    BY <1>2 DEF Fresh
  <2>2. k > conn /\ k # conn'
    BY <1>1, <2>1 DEF Conn
  <2>3. QED
    BY <1>2, <2>2 DEF Fresh
<1>7. OneConnectionBeats'
  <2>1. \A k \in keepalives : Keepalive(k) \in told
    BY <1>1 DEF OneConnectionBeats
  <2>2. QED
    BY <1>2, <2>1 DEF OneConnectionBeats
<1>8. BindingFollowsConnection'
  BY <1>1, <1>2, <1>3 DEF BindingFollowsConnection
<1>9. QED
  BY <1>4, <1>5, <1>6, <1>7, <1>8

(* The keepalive that starts is the only one untold.                         *)
LEMMA StartupSucceedsKeeps == IInv /\ StartupSucceeds => IInv'
<1> SUFFICES ASSUME IInv, StartupSucceeds PROVE IInv'
  OBVIOUS
<1> USE DEF IInv
<1>1. /\ exchange = "startup" /\ exchange' = "none"
      /\ loop = "registering" /\ loop' = "serving"
      /\ conn_stop = NoConn /\ conn_stop' = conn
      /\ conn \in Conn
      /\ keepalives' = keepalives \cup {conn}
      /\ registered' = TRUE /\ accepted' = TRUE
      /\ UNCHANGED <<attempt, conn, alive, tcp_tx, drains, told, media, mode>>
  BY DEF StartupSucceeds, Control, StopSenderCurrent, Connected, TypeOK
<1>2. TypeOK'
  BY <1>1 DEF TypeOK
<1>3. Control' /\ StopSenderCurrent'
  BY <1>1 DEF Control, Connected, StopSenderCurrent
<1>4. Fresh'
  <2>1. \A k \in Conn : k > conn => k # conn
    BY <1>1 DEF Conn
  <2>2. QED
    BY <1>1, <2>1 DEF Fresh
<1>5. OneConnectionBeats'
  <2>1. \A k \in keepalives : Keepalive(k) \in told
    BY <1>1 DEF OneConnectionBeats
  <2>2. QED
    BY <1>1, <2>1 DEF OneConnectionBeats
<1>6. BindingFollowsConnection'
  BY <1>1 DEF BindingFollowsConnection
<1>7. QED
  BY <1>2, <1>3, <1>4, <1>5, <1>6

(* Shutdown while registering: the connection's only task is its drain.      *)
LEMMA StartupInterruptedKeeps == IInv /\ StartupInterrupted => IInv'
<1> SUFFICES ASSUME IInv, StartupInterrupted PROVE IInv'
  OBVIOUS
<1> USE DEF IInv
<1>1. /\ loop \in {"registering", "register_backoff"}
      /\ loop' = "stopped" /\ exchange' = "none"
      /\ tcp_tx = conn /\ tcp_tx' = NoConn
      /\ conn \in Conn
      /\ conn_stop = NoConn
      /\ told' = told \cup {Drain(conn)}
      /\ UNCHANGED <<attempt, conn, alive, registered, accepted, conn_stop,
                     keepalives, drains, media, mode>>
  BY DEF StartupInterrupted, Control, StopSenderCurrent, Connected, TypeOK, Unbound,
         BindingFollowsConnection
<1>2. TypeOK'
  <2>1. Drain(conn) \in [task : {"keepalive", "drain"}, conn : Conn]
    BY <1>1 DEF Drain
  <2>2. QED
    BY <1>1, <2>1 DEF TypeOK
<1>3. Control' /\ StopSenderCurrent'
  BY <1>1 DEF Control, Connected, StopSenderCurrent
<1>4. Fresh'
  <2>1. \A k \in Conn : k > conn => k # conn
    BY <1>1 DEF Conn
  <2>2. QED
    BY <1>1, <2>1, StopRecords DEF Fresh
<1>5. OneConnectionBeats'
  BY <1>1 DEF OneConnectionBeats
<1>6. BindingFollowsConnection'
  BY <1>1 DEF BindingFollowsConnection
<1>7. QED
  BY <1>2, <1>3, <1>4, <1>5, <1>6

-------------------------------------------------------------------------------
(* Every action keeps the invariant.                                         *)
LEMMA InvStep == IInv /\ [Next]_vars => IInv'
<1> SUFFICES ASSUME IInv, [Next]_vars PROVE IInv'
  OBVIOUS
<1>1. CASE DialSucceeds
  BY <1>1, DialSucceedsKeeps
<1>2. CASE DialFails \/ DialBackoffElapses \/ DialInterrupted
  <2>1. /\ loop \in {"dialing", "dial_backoff"}
        /\ loop' \in {"dialing", "dial_backoff", "stopped"}
        /\ UNCHANGED <<attempt, exchange, conn, alive, registered, accepted, tasks,
                       media, mode>>
    BY <1>2 DEF DialFails, DialBackoffElapses, DialInterrupted
  <2>2. TypeOK' /\ Control'
    BY <2>1 DEF IInv, TypeOK, Control, Connected, tasks
  <2>3. QED
    BY <2>1, <2>2, QuietKeeps DEF Connected
<1>3. CASE StartupAttempt \/ StartupFails \/ RegisterBackoffElapses
  <2>1. /\ loop \in {"registering", "register_backoff"}
        /\ loop' \in {"registering", "register_backoff", "serving"}
        /\ exchange' \in {"none", "startup"}
        /\ exchange' = "startup" => loop' = "registering"
        /\ attempt' \in 1 .. MaxAttempts
        /\ loop' = "register_backoff" => attempt' < MaxAttempts
        /\ accepted' \in BOOLEAN
        /\ UNCHANGED <<conn, alive, registered, tasks, media, mode>>
    <3>1. CASE StartupAttempt
      BY <3>1 DEF StartupAttempt, IInv, TypeOK
    <3>2. CASE StartupFails
      BY <3>2 DEF StartupFails, IInv, Control, TypeOK
    <3>3. CASE RegisterBackoffElapses
      <4>1. attempt' \in 1 .. MaxAttempts
        BY <3>3, StreamAssumption DEF RegisterBackoffElapses, IInv, Control, TypeOK
      <4>2. exchange = "none"
        BY <3>3 DEF RegisterBackoffElapses, IInv, Control, TypeOK
      <4>3. QED
        BY <3>3, <4>1, <4>2 DEF RegisterBackoffElapses, IInv, TypeOK
    <3>4. QED
      BY <1>3, <3>1, <3>2, <3>3
  <2>2. TypeOK' /\ Control'
    BY <2>1 DEF IInv, TypeOK, Control, Connected, tasks
  <2>3. QED
    BY <2>1, <2>2, QuietKeeps DEF Connected
<1>4. CASE StartupSucceeds
  BY <1>4, StartupSucceedsKeeps
<1>5. CASE StartupInterrupted
  BY <1>5, StartupInterruptedKeeps
<1>6. CASE \/ SessionChanges \/ FailuresTrip \/ RefreshTick
           \/ ReregisterSucceeds \/ ReregisterIgnored
  <2>1. /\ loop = "serving"
        /\ exchange' \in {"none", "failures", "refresh"}
        /\ accepted' \in BOOLEAN
        /\ media' \in BOOLEAN
        /\ UNCHANGED <<loop, attempt, conn, alive, registered, tasks, mode>>
    BY <1>6 DEF SessionChanges, FailuresTrip, RefreshTick, ReregisterSucceeds,
                ReregisterIgnored, Idle, place, IInv, Control, TypeOK
  <2>2. TypeOK' /\ Control'
    BY <2>1 DEF IInv, TypeOK, Control, Connected, tasks
  <2>3. QED
    BY <2>1, <2>2, QuietKeeps DEF Connected
<1>7. CASE RefreshFails \/ DropNoticed \/ SilenceDetected \/ DeregisterEnds
  <2>1. loop = "serving"
    BY <1>7 DEF RefreshFails, DropNoticed, SilenceDetected, DeregisterEnds, Idle,
                NoticesEnd, IInv, Control
  <2>2. ConnectionEnds /\ loop' \in {"dialing", "stopped"} /\ media' \in BOOLEAN
    BY <1>7 DEF RefreshFails, DropNoticed, SilenceDetected, DeregisterEnds, Redials,
                Stops, IInv, TypeOK
  <2>3. QED
    BY <2>1, <2>2, ConnectionEndsKeeps
<1>8. CASE ShutdownTaken
  <2>1. loop = "serving"
    BY <1>8 DEF ShutdownTaken, Idle, IInv, Control
  <2>2. CASE Stops
    BY <2>1, <2>2, ConnectionEndsKeeps DEF Stops
  <2>3. CASE /\ exchange' = "deregister"
             /\ UNCHANGED <<loop, attempt, conn, alive, registered, accepted, tasks,
                            media, mode>>
    <3>1. TypeOK' /\ Control'
      BY <2>1, <2>3 DEF IInv, TypeOK, Control, Connected, tasks
    <3>2. QED
      BY <2>1, <2>3, <3>1, QuietKeeps DEF Connected
  <2>4. QED
    BY <1>8, <2>2, <2>3 DEF ShutdownTaken
<1>9. CASE PlatformCloses \/ \E m \in {"fast", "deregister"} : RequestShutdown(m)
  <2>1. /\ alive' \subseteq alive
        /\ mode' \in {"none", "fast", "deregister"}
        /\ UNCHANGED <<loop, attempt, exchange, conn, registered, accepted, tasks,
                       media>>
    BY <1>9 DEF PlatformCloses, RequestShutdown, place, IInv, TypeOK
  <2>2. TypeOK' /\ Control'
    BY <2>1 DEF IInv, TypeOK, Control, Connected, tasks
  <2>3. QED
    BY <2>1, <2>2, QuietKeeps DEF Connected
<1>10. ASSUME NEW k \in Conn, KeepaliveStops(k) PROVE IInv'
  <2>1. /\ keepalives' \subseteq keepalives
        /\ UNCHANGED <<loop, attempt, exchange, conn, alive, registered, accepted,
                       conn_stop, tcp_tx, drains, told, media, mode>>
    BY <1>10 DEF KeepaliveStops, place
  <2>2. QED
    BY <2>1 DEF IInv, TypeOK, Control, Connected, Fresh, StopSenderCurrent,
                OneConnectionBeats, BindingFollowsConnection
<1>11. ASSUME NEW k \in Conn, DrainStops(k) PROVE IInv'
  <2>1. /\ drains' = drains \ {k}
        /\ Drain(k) \in told
        /\ UNCHANGED <<loop, attempt, exchange, conn, alive, registered, accepted,
                       conn_stop, keepalives, tcp_tx, told, media, mode>>
    BY <1>11 DEF DrainStops, place
  <2>2. TypeOK' /\ Control' /\ Fresh' /\ StopSenderCurrent' /\ OneConnectionBeats'
    BY <2>1 DEF IInv, TypeOK, Control, Connected, Fresh, StopSenderCurrent,
                OneConnectionBeats
  <2>3. BindingFollowsConnection'
    BY <2>1 DEF IInv, BindingFollowsConnection
  <2>4. QED
    BY <2>2, <2>3 DEF IInv
<1>12. CASE UNCHANGED vars
  BY <1>12 DEF vars, IInv, TypeOK, Control, Connected, Fresh, StopSenderCurrent,
               OneConnectionBeats, BindingFollowsConnection
<1>13. QED
  BY <1>1, <1>2, <1>3, <1>4, <1>5, <1>6, <1>7, <1>8, <1>9, <1>10, <1>11, <1>12
  DEF Next, Dials, Registers, Serves, Interrupted

-------------------------------------------------------------------------------
(* The types of all variables.                                               *)
THEOREM TypeCorrect == Spec => []TypeOK
<1>1. IInv => TypeOK
  BY DEF IInv
<1>2. QED
  BY InvInit, InvStep, <1>1, PTL DEF Spec

(* However often the connection is lost, the only keepalive that beats       *)
(* untold is the one of the connection in use.                               *)
THEOREM KeepalivesNeverStack == Spec => []OneConnectionBeats
<1>1. IInv => OneConnectionBeats
  BY DEF IInv
<1>2. QED
  BY InvInit, InvStep, <1>1, PTL DEF Spec

(* NOTIFYs always go to the running drain of the connection in use, or to    *)
(* none.                                                                     *)
THEOREM BindingIsCurrent == Spec => []BindingFollowsConnection
<1>1. IInv => BindingFollowsConnection
  BY DEF IInv
<1>2. QED
  BY InvInit, InvStep, <1>1, PTL DEF Spec
===============================================================================
