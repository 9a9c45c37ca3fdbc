-------------------------- MODULE InboundConnections --------------------------
(***************************************************************************)
(* The device as a listener ("tcp", and SIPS with a TLS acceptor): the     *)
(* accept loop, one task per connection of the platform, the Content-Length *)
(* framing of the byte stream each one reads, and the notifier's binding   *)
(* they share (src/src/server.rs, src/src/subscribe.rs).                   *)
(*                                                                         *)
(* The platform sends the messages of Script on every connection, cut into *)
(* units that arrive one at a time: it may stall, close or reset the       *)
(* connection between any two.  A handler is a loop over a select! of the  *)
(* framing and the shutdown signal.  Its server value is its own, so a     *)
(* media session belongs to the connection that started it.  NOTIFYs do    *)
(* not appear: on this transport nothing binds the notifier's socket and   *)
(* send_notify returns before it reaches the connection's channel.         *)
(***************************************************************************)
EXTENDS Naturals, Sequences, FiniteSets, SequencesExt

CONSTANTS
    Conn,    \* connections of the platform
    Script,  \* messages it sends on each: [kind, body] records
    Tls,     \* whether the listener wraps its connections (run_tls_listen)
    Window,  \* bound: units sent and not yet read
    None     \* no connection

ASSUME InboundAssumption ==
    /\ None \notin Conn
    /\ Tls \in BOOLEAN
    /\ Window \in Nat \ {0}
    /\ Script \in Seq([kind : {"INVITE", "BYE", "QUERY", "CRLF"}, body : Nat])
    /\ \A i \in 1 .. Len(Script) : Script[i].kind = "CRLF" => Script[i].body = 0

VARIABLES
    mode,       \* "running", or "shutdown" once the handle signalled or dropped
    accepting,  \* the accept loop: "up", "pausing" after an error, "ended"
    conn,       \* the task of each connection
    arrived,    \* units the platform has sent on it
    closed,     \* whether it has closed its side
    taken,      \* units the handler's reader consumed
    frame,      \* units consumed before the message being framed
    reader,     \* "headers" or "body"
    need,       \* body units still to read
    handled,    \* the messages handed to handle_message, as spans of units
    media,      \* whether the connection's server value started a session that runs
    tcp_tx      \* the connection the notifier is bound to

net     == <<arrived, closed>>
framing == <<taken, frame, reader, need, handled>>
vars    == <<mode, accepting, conn, net, framing, media, tcp_tx>>

-------------------------------------------------------------------------------
(* The wire.  A message is a start line with headers, a blank line and, when *)
(* it has a body, a Content-Length line before the blank one and the body's  *)
(* units; a CRLF keepalive is a blank line alone.                            *)

Units(i) ==
    LET unit(part) == [message |-> i, part |-> part]
        n == Script[i].body
    IN (IF Script[i].kind = "CRLF" THEN <<>> ELSE <<unit("start")>>)
         \o (IF n > 0 THEN <<unit("length")>> ELSE <<>>)
         \o <<unit("blank")>>
         \o [b \in 1 .. n |-> unit("body")]

Wire == FlattenSeq([i \in 1 .. Len(Script) |-> Units(i)])

(* The units of the message being framed. *)
Frame(c) == {Wire[k] : k \in frame[c] + 1 .. taken[c]}

(* Everything the platform sent has been read and it sends no more. *)
AtEof(c) == closed[c] /\ taken[c] = arrived[c]

Span == (0 .. Len(Wire)) \X (0 .. Len(Wire))

TypeOK ==
    /\ mode \in {"running", "shutdown"}
    /\ accepting \in {"up", "pausing", "ended"}
    /\ conn \in [Conn -> {"idle", "handshake", "setup", "serving", "gone"}]
    /\ arrived \in [Conn -> 0 .. Len(Wire)]
    /\ closed \in [Conn -> BOOLEAN]
    /\ taken \in [Conn -> 0 .. Len(Wire)]
    /\ frame \in [Conn -> 0 .. Len(Wire)]
    /\ reader \in [Conn -> {"headers", "body"}]
    /\ need \in [Conn -> Nat]
    /\ handled \in [Conn -> Seq(Span)]
    /\ media \in [Conn -> BOOLEAN]
    /\ tcp_tx \in Conn \cup {None}

Init ==
    /\ mode = "running"
    /\ accepting = "up"
    /\ conn = [c \in Conn |-> "idle"]
    /\ arrived = [c \in Conn |-> 0]
    /\ closed = [c \in Conn |-> FALSE]
    /\ taken = [c \in Conn |-> 0]
    /\ frame = [c \in Conn |-> 0]
    /\ reader = [c \in Conn |-> "headers"]
    /\ need = [c \in Conn |-> 0]
    /\ handled = [c \in Conn |-> <<>>]
    /\ media = [c \in Conn |-> FALSE]
    /\ tcp_tx = None

-------------------------------------------------------------------------------
(* The accept loop and the start of a connection's task.                   *)

Accept(c) ==
    /\ accepting = "up"
    /\ conn[c] = "idle"
    /\ conn' = [conn EXCEPT ![c] = IF Tls THEN "handshake" ELSE "setup"]
    /\ UNCHANGED <<mode, accepting, net, framing, media, tcp_tx>>

(* An accept error pauses the loop for a second, deaf to the signal. *)
AcceptFails ==
    /\ accepting = "up"
    /\ accepting' = "pausing"
    /\ UNCHANGED <<mode, conn, net, framing, media, tcp_tx>>

PauseElapses ==
    /\ accepting = "pausing"
    /\ accepting' = "up"
    /\ UNCHANGED <<mode, conn, net, framing, media, tcp_tx>>

(* The TLS handshake has no time limit and does not watch the signal. *)
HandshakeEnds(c) ==
    /\ conn[c] = "handshake"
    /\ \E next \in {"setup", "gone"} : conn' = [conn EXCEPT ![c] = next]
    /\ UNCHANGED <<mode, accepting, net, framing, media, tcp_tx>>

(* bind_tcp: the newest connection takes the binding. *)
Bound(c) == c

Serve(c) ==
    /\ conn[c] = "setup"
    /\ conn' = [conn EXCEPT ![c] = "serving"]
    /\ tcp_tx' = Bound(c)
    /\ UNCHANGED <<mode, accepting, net, framing, media>>

(* Probing the local address fails before anything is bound. *)
SetupFails(c) ==
    /\ conn[c] = "setup"
    /\ conn' = [conn EXCEPT ![c] = "gone"]
    /\ arrived' = [arrived EXCEPT ![c] = 0]
    /\ closed' = [closed EXCEPT ![c] = FALSE]
    /\ UNCHANGED <<mode, accepting, framing, media, tcp_tx>>

-------------------------------------------------------------------------------
(* The platform.                                                           *)

PlatformSends(c) ==
    /\ conn[c] \in {"setup", "serving"}
    /\ ~closed[c]
    /\ arrived[c] < Len(Wire)
    /\ arrived[c] < taken[c] + Window
    /\ arrived' = [arrived EXCEPT ![c] = @ + 1]
    /\ UNCHANGED <<mode, accepting, conn, closed, framing, media, tcp_tx>>

PlatformCloses(c) ==
    /\ conn[c] \in {"setup", "serving"}
    /\ ~closed[c]
    /\ closed' = [closed EXCEPT ![c] = TRUE]
    /\ UNCHANGED <<mode, accepting, conn, arrived, framing, media, tcp_tx>>

-------------------------------------------------------------------------------
(* read_sip_message_framed.                                                *)

LengthMissed(units) == 0

(* The value of the Content-Length line among the units read, 0 without one. *)
ContentLength(units) ==
    IF \E u \in units : u.part = "length"
    THEN Script[(CHOOSE u \in units : u.part = "length").message].body
    ELSE 0

Reading(c, mode_) == conn[c] = "serving" /\ reader[c] = mode_

(* A line; a blank one ends the headers. *)
ReadLine(c) ==
    /\ Reading(c, "headers")
    /\ taken[c] < arrived[c]
    /\ taken' = [taken EXCEPT ![c] = @ + 1]
    /\ IF Wire[taken[c] + 1].part = "blank"
       THEN /\ reader' = [reader EXCEPT ![c] = "body"]
            /\ need' = [need EXCEPT ![c] = ContentLength(Frame(c))]
       ELSE UNCHANGED <<reader, need>>
    /\ UNCHANGED <<mode, accepting, conn, net, frame, handled, media, tcp_tx>>

(* At the end of the stream read_line returns an empty line, so the headers  *)
(* end wherever the platform stopped, before a first line too.               *)
ReadEof(c) ==
    /\ Reading(c, "headers")
    /\ AtEof(c)
    /\ reader' = [reader EXCEPT ![c] = "body"]
    /\ need' = [need EXCEPT ![c] = ContentLength(Frame(c))]
    /\ UNCHANGED <<mode, accepting, conn, net, taken, frame, handled, media, tcp_tx>>

ReadBody(c) ==
    /\ Reading(c, "body")
    /\ need[c] > 0
    /\ taken[c] < arrived[c]
    /\ taken' = [taken EXCEPT ![c] = @ + 1]
    /\ need' = [need EXCEPT ![c] = @ - 1]
    /\ UNCHANGED <<mode, accepting, conn, net, frame, reader, handled, media, tcp_tx>>

-------------------------------------------------------------------------------
(* handle_message.                                                         *)

(* A frame without a start line does not parse and is skipped silently. *)
Parses(c) == \E u \in Frame(c) : u.part = "start"

Message(c) == (CHOOSE u \in Frame(c) : u.part = "start").message

(* An INVITE needs its SDP; a BYE needs its Call-ID only. *)
MediaAfter(c) ==
    LET kind == Script[Message(c)].kind
    IN IF kind = "INVITE" /\ \E u \in Frame(c) : u.part = "body" THEN TRUE
       ELSE IF kind = "BYE" THEN FALSE ELSE media[c]

(* The message framed is handled to its end, whatever its result, and the    *)
(* loop starts over.                                                         *)
HandleMessage(c) ==
    /\ Reading(c, "body")
    /\ need[c] = 0
    /\ IF Parses(c)
       THEN /\ handled' = [handled EXCEPT ![c] = Append(@, <<frame[c], taken[c]>>)]
            /\ media' = [media EXCEPT ![c] = MediaAfter(c)]
       ELSE UNCHANGED <<handled, media>>
    /\ frame' = [frame EXCEPT ![c] = taken[c]]
    /\ reader' = [reader EXCEPT ![c] = "headers"]
    /\ UNCHANGED <<mode, accepting, conn, net, taken, need, tcp_tx>>

(* A media source that runs dry, or a peer of the session that goes away. *)
MediaEnds(c) ==
    /\ media[c]
    /\ media' = [media EXCEPT ![c] = FALSE]
    /\ UNCHANGED <<mode, accepting, conn, net, framing, tcp_tx>>

-------------------------------------------------------------------------------
(* The end of a handler, and shutdown.                                     *)

UnboundAlways(c) == None

KeptBound(c) == tcp_tx

(* unbind_tcp clears the binding if it is still this connection's. *)
Unbound(c) == IF tcp_tx = c THEN None ELSE tcp_tx

(* The socket and what was read of a message are dropped.  Nothing of the     *)
(* server value is cleaned up: its media session goes on.                    *)
Leaves(c) ==
    /\ conn' = [conn EXCEPT ![c] = "gone"]
    /\ tcp_tx' = Unbound(c)
    /\ arrived' = [arrived EXCEPT ![c] = 0]
    /\ closed' = [closed EXCEPT ![c] = FALSE]
    /\ taken' = [taken EXCEPT ![c] = 0]
    /\ frame' = [frame EXCEPT ![c] = 0]
    /\ reader' = [reader EXCEPT ![c] = "headers"]
    /\ need' = [need EXCEPT ![c] = 0]
    /\ handled' = [handled EXCEPT ![c] = <<>>]
    /\ UNCHANGED <<mode, accepting, media>>

(* read_exact meets the end of the stream. *)
EofInBody(c) ==
    /\ Reading(c, "body")
    /\ need[c] > 0
    /\ AtEof(c)
    /\ Leaves(c)

(* The platform resets the connection, or a header line is not UTF-8. *)
ReadFails(c) ==
    /\ conn[c] = "serving"
    /\ reader[c] = "body" => need[c] > 0
    /\ Leaves(c)

BetweenMessages(c) == taken[c] = frame[c]

(* The signal is watched beside the whole of the framing, in whatever part   *)
(* of a message it waits.                                                    *)
Interruptible(c) == ~(reader[c] = "body" /\ need[c] = 0)

StopHandler(c) ==
    /\ mode = "shutdown"
    /\ conn[c] = "serving"
    /\ Interruptible(c)
    /\ Leaves(c)

(* ServerHandle::shutdown, shutdown_with_deregister, or the handle dropped. *)
RequestShutdown ==
    /\ mode = "running"
    /\ mode' = "shutdown"
    /\ UNCHANGED <<accepting, conn, net, framing, media, tcp_tx>>

StopAccepting ==
    /\ mode = "shutdown"
    /\ accepting = "up"
    /\ accepting' = "ended"
    /\ UNCHANGED <<mode, conn, net, framing, media, tcp_tx>>

-------------------------------------------------------------------------------
(* What a connection's task does by itself: one step at most is enabled. *)
Progress(c) ==
    \/ Serve(c)
    \/ ReadLine(c)
    \/ ReadEof(c)
    \/ ReadBody(c)
    \/ HandleMessage(c)
    \/ EofInBody(c)

Handler(c) == Progress(c) \/ SetupFails(c) \/ StopHandler(c)

AcceptLoop == AcceptFails \/ PauseElapses \/ StopAccepting

Environment ==
    \/ \E c \in Conn : \/ PlatformSends(c)
                       \/ PlatformCloses(c)
                       \/ ReadFails(c)
                       \/ MediaEnds(c)
    \/ RequestShutdown

Next ==
    \/ AcceptLoop
    \/ \E c \in Conn : Accept(c) \/ HandshakeEnds(c) \/ Handler(c)
    \/ Environment

Spec == Init /\ [][Next]_vars

(* The runtime polls a task that is ready, and select! polls its branches in *)
(* a random order, so a signal that stays set is taken in the end, even by a *)
(* handler that spins at the end of its stream.  Nothing is assumed of the   *)
(* platform, of a handshake or of a media session.                           *)
Fairness ==
    /\ WF_vars(PauseElapses)
    /\ SF_vars(StopAccepting)
    /\ \A c \in Conn : WF_vars(Progress(c)) /\ SF_vars(StopHandler(c))

FairSpec == Spec /\ Fairness

-------------------------------------------------------------------------------
(* Properties.                                                             *)

(* The end of message i on the wire. *)
EndOf(i) == Len(FlattenSeq([k \in 1 .. i |-> Units(k)]))

(* Spans of the first n messages, the keepalives left out. *)
Messages[n \in 0 .. Len(Script)] ==
    IF n = 0 THEN <<>>
    ELSE IF Script[n].kind = "CRLF" THEN Messages[n - 1]
    ELSE Append(Messages[n - 1], <<EndOf(n - 1), EndOf(n)>>)

(* The framing is independent of how the stream arrives: what a connection   *)
(* handled is the first messages sent on it, each whole, once and in order.  *)
(* One case escapes: headers cut by the end of the stream are handled as a   *)
(* last message.                                                             *)
MessagesFramed ==
    \A c \in Conn : \E n \in 0 .. Len(Script) :
        \/ frame[c] = EndOf(n) /\ handled[c] = Messages[n]
        \/ /\ closed[c]
           /\ frame[c] = arrived[c]
           /\ handled[c] = Append(Messages[n], <<EndOf(n), arrived[c]>>)

(* "The binding clears when the connection closes": the notifier is never    *)
(* left with the channel of a handler that has returned.                     *)
BindingIsServed == tcp_tx # None => conn[tcp_tx] = "serving"

(* "unless a newer connection rebound": a connection keeps the binding until *)
(* its own handler returns or a newer connection starts to be served, however *)
(* the others end.                                                           *)
NewestKeepsBinding ==
    [][ \A c \in Conn : tcp_tx = c /\ tcp_tx' # c =>
            \/ conn'[c] = "gone" /\ tcp_tx' = None
            \/ tcp_tx' # None /\ conn[tcp_tx'] = "setup" ]_vars

(* Shutdown reaches the accept loop and every handler, the one that waits in *)
(* the middle of a message and the one that spins at the end of its stream   *)
(* included, and leaves no binding; a TLS handshake is out of its reach.     *)
ShutdownEndsHandlers ==
    /\ mode = "shutdown" ~> accepting = "ended"
    /\ \A c \in Conn :
          mode = "shutdown" /\ conn[c] \in {"setup", "serving"} ~> conn[c] = "gone"

(* "aborts any active media/playback task": after a shutdown no media        *)
(* session of an inbound connection goes on.                                 *)
ShutdownStopsMedia == \A c \in Conn : mode = "shutdown" ~> ~media[c]

(* "The binding clears when the connection closes", stated of the platform's *)
(* close: its connection does not stay bound.                                *)
CloseClearsBinding == \A c \in Conn : closed[c] ~> tcp_tx # c
===============================================================================
