-------------------------------- MODULE Talkback --------------------------------
(***************************************************************************)
(* Two-way audio of src/src/server.rs: handle_audio_invite, the media task *)
(* it spawns and the TalkbackSource the host's encoder feeds.  The queue   *)
(* and the law belong to the source and outlive every session; a session   *)
(* is one INVITE's, and its task is aborted by the next INVITE or a BYE,   *)
(* which a poll that is already under way survives.                        *)
(*                                                                         *)
(* Each INVITE here opens a dialog of its own: retransmissions and the     *)
(* slot's other users are those of MediaSession.  Video offers are         *)
(* followed up to their answer.                                            *)
(***************************************************************************)
EXTENDS Offer

CONSTANTS
    Offers,       \* a function: the offers' names, to their lines
    FrameLength,  \* octets of the frames the host pushes
    MaxFrame,     \* the largest frame that fits the send buffer, 2048
    Numbers,      \* 2^16, RTP sequence numbers
    ClockSpace,   \* 2^32, the RTP clock
    MaxPushed,    \* bound: frames the host pushes
    MaxInvites    \* bound: INVITEs

ASSUME TalkbackAssumption ==
    /\ FrameLength \subseteq Nat
    /\ MaxFrame \in Nat
    /\ MaxPushed \in Nat /\ MaxInvites \in Nat
    /\ Numbers \in Nat \ {0} /\ ClockSpace \in Nat \ {0}

NoTalkback == [id |-> 0]

NoFrame == [law |-> "none", under |-> 0]

VARIABLES
    sink,      \* whether a talkback sink is installed
    source,    \* whether a talkback source is installed
    law,       \* TalkbackSource::law
    queue,     \* frames pushed and not yet taken
    polled,    \* the frame being encoded, NoFrame between two
    task,      \* the session's media task, NoTalkback when the slot is empty
    leaving,   \* aborted tasks whose poll is under way
    server,    \* "running" or "panicked"
    answered,  \* the last INVITE: its offer, final code and answer
    pushed,    \* frames pushed so far
    invites,   \* INVITEs so far
    sent,      \* history: packets that left
    heard      \* history: the last payload the sink got

talkbackVars == <<sink, source, law, queue, polled, task, leaving, server,
                  answered, pushed, invites, sent, heard>>

host == <<queue, polled, pushed>>

(* A frame is encoded in the law polled for it, under the session that was   *)
(* in the slot then: 0 when there was none.                                  *)
Encoding == [law : DOMAIN Laws, under : 0 .. MaxInvites]

Frame == [n : 1 .. MaxPushed, law : DOMAIN Laws, under : 0 .. MaxInvites,
          length : FrameLength]

Task == [id : 1 .. MaxInvites, offer : DOMAIN Offers, codec : DOMAIN Laws,
         upstream : BOOLEAN, running : BOOLEAN,
         seq : 0 .. Numbers - 1, ts : 0 .. ClockSpace - 1]

TalkbackTypeOK ==
    /\ sink \in BOOLEAN /\ source \in BOOLEAN
    /\ law \in DOMAIN Laws
    /\ queue \in Seq(Frame)
    /\ polled \in Encoding \cup {NoFrame}
    /\ task \in Task \cup {NoTalkback}
    /\ leaving \in SUBSET Task
    /\ server \in {"running", "panicked"}
    /\ pushed \in 0 .. MaxPushed
    /\ invites \in 0 .. MaxInvites

(* The law defaults to PCMA. *)
TalkbackInit ==
    /\ sink \in BOOLEAN
    /\ source \in BOOLEAN
    /\ law = "pcma"
    /\ queue = <<>>
    /\ polled = NoFrame
    /\ task = NoTalkback
    /\ leaving = {}
    /\ server = "running"
    /\ answered = [offer |-> "none", code |-> 0, answer |-> NoAnswer]
    /\ pushed = 0
    /\ invites = 0
    /\ sent = <<>>
    /\ heard = [id |-> 0, codec |-> "none", ssrc |-> 0]

-------------------------------------------------------------------------------
(* The host's encoder: it polls the law for a frame, then pushes the frame.  *)
HostPolls ==
    /\ source
    /\ polled = NoFrame
    /\ pushed < MaxPushed
    /\ polled' = [law |-> law, under |-> task.id]
    /\ UNCHANGED <<sink, source, law, queue, task, leaving, server, answered,
                   pushed, invites, sent, heard>>

HostPushes(length) ==
    /\ polled # NoFrame
    /\ queue' = Append(queue, [n |-> pushed + 1, law |-> polled.law,
                              under |-> polled.under, length |-> length])
    /\ pushed' = pushed + 1
    /\ polled' = NoFrame
    /\ UNCHANGED <<sink, source, law, task, leaving, server, answered, invites,
                   sent, heard>>

-------------------------------------------------------------------------------
Aborted == IF task # NoTalkback /\ task.running THEN leaving \cup {task} ELSE leaving

(* Any of four grounds refuses an audio offer, after the slot was recycled.  *)
Refused(invite) ==
    \/ ~sink
    \/ invite.codec \notin DOMAIN Laws
    \/ invite.transport # "udp"
    \/ invite.recv_only /\ ~source

Usable(invite) == invite.address # "hostname"

(* Audio goes up when a source is installed, the platform did not ask for    *)
(* silence and its c= address is one to send to.                             *)
Upstream(invite) == source /\ ~invite.send_only /\ Usable(invite)

LawKept(invite) == law

Negotiated(invite) == IF Upstream(invite) THEN invite.codec ELSE law

(* Sequence number and clock start at random; they are counted from there.   *)
SessionTask(name, invite) ==
    [id |-> invites + 1, offer |-> name, codec |-> invite.codec,
     upstream |-> Upstream(invite), running |-> TRUE, seq |-> 0, ts |-> 0]

(* An INVITE the reader turns away changes nothing and is not answered.      *)
UnreadableInvite(name) ==
    /\ ~Readable(Read(Offers[name]))
    /\ answered' = [offer |-> name, code |-> 0, answer |-> NoAnswer]
    /\ UNCHANGED <<law, task, leaving, server>>

PanickingInvite(name) ==
    /\ Readable(Read(Offers[name]))
    /\ Panics(Read(Offers[name]))
    /\ server' = "panicked"
    /\ answered' = [offer |-> name, code |-> 0, answer |-> NoAnswer]
    /\ UNCHANGED <<law, task, leaving>>

ReadInvite(name) ==
    LET sdp == Read(Offers[name])
        invite == Invite(sdp)
    IN /\ Readable(sdp)
       /\ ~Panics(sdp)
       /\ leaving' = Aborted
       /\ UNCHANGED server
       /\ \/ /\ ~invite.audio
             /\ task' = NoTalkback
             /\ law' = law
             /\ answered' = [offer |-> name, code |-> 200, answer |-> VideoAnswer(invite)]
          \/ /\ invite.audio /\ Refused(invite)
             /\ task' = NoTalkback
             /\ law' = law
             /\ answered' = [offer |-> name, code |-> 488, answer |-> NoAnswer]
          \/ /\ invite.audio /\ ~Refused(invite)
             /\ task' = SessionTask(name, invite)
             /\ law' = Negotiated(invite)
             /\ answered' = [offer |-> name, code |-> 200, answer |-> AudioAnswer(invite)]

HandleInvite(name) ==
    /\ server = "running"
    /\ invites < MaxInvites
    /\ invites' = invites + 1
    /\ UnreadableInvite(name) \/ PanickingInvite(name) \/ ReadInvite(name)
    /\ UNCHANGED <<sink, source, host, sent, heard>>

HandleBye ==
    /\ server = "running"
    /\ task # NoTalkback
    /\ leaving' = Aborted
    /\ task' = NoTalkback
    /\ UNCHANGED <<sink, source, law, host, server, answered, invites, sent, heard>>

-------------------------------------------------------------------------------
(* One tick of the send half: a frame is taken, and sent unless it is empty  *)
(* or too long.                                                              *)
Sendable(frame) == frame.length # 0 /\ frame.length <= MaxFrame

FixedStep(t, frame) == (t.ts + 160) % ClockSpace

NextTs(t, frame) == (t.ts + frame.length) % ClockSpace

QueueUnlessDropped == IF Sendable(Head(queue)) THEN Tail(queue) ELSE queue

QueueAfter == Tail(queue)

Packet(t, frame) ==
    [id |-> t.id, offer |-> t.offer, type |-> Laws[t.codec], seq |-> t.seq,
     ts |-> t.ts, frame |-> frame]

Sent(t, frame) ==
    [t EXCEPT !.seq = (@ + 1) % Numbers, !.ts = NextTs(t, frame)]

Tick ==
    /\ task # NoTalkback /\ task.running /\ task.upstream
    /\ queue # <<>>
    /\ queue' = QueueAfter
    /\ LET frame == Head(queue)
       IN IF Sendable(frame)
          THEN sent' = Append(sent, Packet(task, frame)) /\ task' = Sent(task, frame)
          ELSE UNCHANGED <<sent, task>>
    /\ UNCHANGED <<sink, source, law, polled, pushed, leaving, server, answered,
                   invites, heard>>

(* A send that errs ends the loop, and with it the receiving half; the slot  *)
(* keeps the finished task.                                                  *)
TickFails ==
    /\ task # NoTalkback /\ task.running /\ task.upstream
    /\ queue # <<>>
    /\ Sendable(Head(queue))
    /\ queue' = QueueAfter
    /\ task' = [task EXCEPT !.running = FALSE]
    /\ UNCHANGED <<sink, source, law, polled, pushed, leaving, server, answered,
                   invites, sent, heard>>

ReceiveFails ==
    /\ task # NoTalkback /\ task.running
    /\ task' = [task EXCEPT !.running = FALSE]
    /\ UNCHANGED <<sink, source, law, host, leaving, server, answered, invites,
                   sent, heard>>

(* A payload behind a whole header reaches the sink, with the session's      *)
(* codec and the packet's source, or the offer's when that is 0.             *)
Hear(ssrc) ==
    /\ task # NoTalkback /\ task.running
    /\ heard' = [id |-> task.id, codec |-> task.codec,
                 ssrc |-> IF ssrc # 0 THEN ssrc ELSE Invite(Read(Offers[task.offer])).ssrc]
    /\ UNCHANGED <<sink, source, law, host, task, leaving, server, answered,
                   invites, sent>>

(* The poll under way when a task was aborted: it may still take a frame,    *)
(* and send it or be cut before it did.                                      *)
LastPoll(t) ==
    /\ leaving' = leaving \ {t}
    /\ \/ UNCHANGED <<queue, sent>>
       \/ /\ t.upstream /\ queue # <<>>
          /\ queue' = QueueAfter
          /\ \/ UNCHANGED sent
             \/ Sendable(Head(queue)) /\ sent' = Append(sent, Packet(t, Head(queue)))
    /\ UNCHANGED <<sink, source, law, polled, pushed, task, server, answered,
                   invites, heard>>

-------------------------------------------------------------------------------
TalkbackNext ==
    \/ HostPolls
    \/ \E length \in FrameLength : HostPushes(length)
    \/ \E name \in DOMAIN Offers : HandleInvite(name)
    \/ HandleBye
    \/ Tick
    \/ TickFails
    \/ ReceiveFails
    \/ \E ssrc \in {0, 7} : Hear(ssrc)
    \/ \E t \in leaving : LastPoll(t)

TalkbackSpec == TalkbackInit /\ [][TalkbackNext]_talkbackVars

(* The ticker fires every 20 ms as long as the task runs. *)
FairTalkbackSpec == TalkbackSpec /\ WF_talkbackVars(Tick)

-------------------------------------------------------------------------------
(* Properties.                                                             *)

(* Packet j is the next one of packet i's session.                         *)
Successive(i, j) ==
    /\ i < j
    /\ sent[j].id = sent[i].id
    /\ \A k \in i + 1 .. j - 1 : sent[k].id # sent[i].id

(* In a session the packets count up by one, their clock by the octets       *)
(* before, both around their width; and the frames leave in the order they were pushed; no frame      *)
(* leaves twice, though an aborted session may still poll beside the next.   *)
StreamFollowsFrames ==
    /\ \A i, j \in 1 .. Len(sent) :
        Successive(i, j) =>
            /\ sent[j].seq = (sent[i].seq + 1) % Numbers
            /\ sent[j].ts = (sent[i].ts + sent[i].frame.length) % ClockSpace
            /\ sent[i].frame.n < sent[j].frame.n
    /\ \A i, j \in 1 .. Len(sent) : i # j => sent[i].frame.n # sent[j].frame.n

(* "The wire side is law-aware (payload type 8/0 follows the offer); the     *)
(* host encoder is the one that must match" (src/src/server.rs:337), and one *)
(* that polls the law for each frame does, for the frames it encodes in the  *)
(* session that sends them: whatever sessions, refused offers and unsent     *)
(* frames came between, they leave under the payload type of their law.      *)
OwnFramesLabelled ==
    \A k \in 1 .. Len(sent) :
        sent[k].frame.under = sent[k].id => sent[k].type = Laws[sent[k].frame.law]

(* A frame that cannot be sent does not hold up those behind it: while a     *)
(* session sends, the queue runs empty.                                      *)
Sending == task # NoTalkback /\ task.running /\ task.upstream

QueueDrains == Sending ~> (queue = <<>> \/ ~Sending)

(* The payload type of a packet is that of its payload's law, also when the  *)
(* frame was encoded before its session or while that gave way to the next.  *)
PayloadFitsType == \A k \in 1 .. Len(sent) : Laws[sent[k].frame.law] = sent[k].type

(* "Upstream-required offers (a=recvonly ...) must not be answered by a      *)
(* device that cannot send" (src/src/server.rs:3176).                        *)
AnswerKept ==
    answered.code = 200 /\ answered.answer.kind = "audio" /\ task # NoTalkback =>
        (answered.answer.direction = "sendonly" => task.upstream)

(* "Mixed offers keep the video-push behavior" (src/src/client.rs:387): the  *)
(* video goes to the video line's port.                                      *)
VideoGoesToItsPort ==
    answered.code = 200 /\ answered.answer.kind = "video" =>
        LET sdp == Read(Offers[answered.offer])
        IN Invite(sdp).port = Lines(sdp, "video")[1].port

(* No offer ends the server.                                                 *)
NoPanic == server = "running"
===============================================================================
