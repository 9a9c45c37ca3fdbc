------------------------------- MODULE Playback -------------------------------
(***************************************************************************)
(* A playback or download session of the device: the task that emits the   *)
(* recorded frames of a range on their schedule (src/src/playback.rs,      *)
(* run_playback_task), the INFO handler of the SIP loop that feeds its     *)
(* bounded control channel (src/src/server.rs, handle_info), and the ways  *)
(* the session is taken down.                                              *)
(*                                                                         *)
(* The SIP loop and the task are two actors.  The INFO handler answers 200 *)
(* first and then waits for room in the channel, so the loop serves no     *)
(* other request meanwhile.  Aborting the task is a request the runtime    *)
(* serves at one of its awaits: until then the task may still take steps.  *)
(*                                                                         *)
(* Media time and wall-clock time are counted in one unit, and the clock   *)
(* is the time passed since the task's pacing anchor, saturating at        *)
(* Horizon, past every frame's due time.                                   *)
(*                                                                         *)
(* Nothing is assumed of a recording's times: the frames of a segment      *)
(* without a sidecar are laid out at 25 fps and may reach into the next    *)
(* segment, whose frames then lie before the ones already sent.            *)
(***************************************************************************)
EXTENDS Integers, Sequences

CONSTANTS
    RangeStart, \* starts of the ranges an INVITE may ask for
    MediaTime,  \* positions frames are built from: a range's start, a seek
    Recording,  \* for a range whose lookup() finds segments, the frames
                \* build_frames() makes of them from every position
    Command,    \* PlaybackControl commands the platform may send
    CtlCapacity,\* entries of the control channel (8 in the code)
    Horizon,    \* bound: the clock saturates here
    MaxInfo,    \* bound: INFO requests of one session
    None        \* no position, no speed, no base

Frame == [seg : Nat, au : Nat, abs : Nat, is_key : BOOLEAN]

ASSUME PlaybackAssumption ==
    /\ MediaTime \subseteq Nat
    /\ RangeStart \subseteq MediaTime
    /\ Recording \in [RangeStart -> [MediaTime -> Seq(Frame)]]
    /\ Command \subseteq [cmd : {"PAUSE", "PLAY"}, start : MediaTime \cup {None},
                           speed : Int \cup {None}]
    /\ CtlCapacity \in Nat \ {0}
    /\ Horizon \in Nat
    /\ MaxInfo \in Nat
    /\ None \notin Nat /\ None \notin Int

VARIABLES
    session,  \* what the INVITE fixed: kind, transports, the segments found;
              \* and whether the build checks arithmetic for overflow
    pc,       \* where the task is
    player,   \* PlaybackState: frames, idx, base_ms, speed, paused
    elapsed,  \* time since pacing_base
    ctl,      \* commands in the control channel
    ctl_open, \* the task has not yet seen its channel closed
    holder,   \* "server" holds the sending half, "nobody" does
    blocked,  \* the command the INFO handler is waiting to enqueue
    infos,    \* INFO requests received
    aborting, \* abort() was called on the task
    notices,  \* MediaStatus INFOs sent
    reading,  \* the platform takes data off its TCP media connection
    pass      \* history of the current pass: where it began, what it sent

vars == <<session, pc, player, elapsed, ctl, ctl_open, holder, blocked, infos,
          aborting, notices, reading, pass>>

Pause == [cmd |-> "PAUSE", start |-> None, speed |-> None]
Play(start, speed) == [cmd |-> "PLAY", start |-> start, speed |-> speed]

NoSession(checked) == [kind |-> "none", media |-> "udp", sip |-> "udp",
                       segments |-> [t \in MediaTime |-> <<>>], checked |-> checked]
NoPlayer  == [frames |-> <<>>, idx |-> 0, base |-> None, speed |-> 1, paused |-> FALSE]

TypeOK ==
    /\ session \in [kind : {"none", "playback", "download"}, media : {"udp", "tcp"},
                    sip : {"udp", "tcp"}, segments : [MediaTime -> Seq(Frame)],
                    checked : BOOLEAN]
    /\ pc \in {"idle", "accepting", "running", "waiting", "writing", "ended"}
    /\ player.frames \in Seq(Frame)
    /\ player.idx \in 0 .. Len(player.frames)
    /\ player.base \in Nat \cup {None}
    /\ player.speed \in Int
    /\ player.paused \in BOOLEAN
    /\ elapsed \in 0 .. Horizon
    /\ ctl \in Seq(Command) /\ Len(ctl) <= CtlCapacity
    /\ ctl_open \in BOOLEAN
    /\ holder \in {"server", "nobody"}
    /\ blocked \in Command \cup {None}
    /\ infos \in 0 .. MaxInfo
    /\ aborting \in BOOLEAN
    /\ notices \in {0, 1}
    /\ reading \in BOOLEAN

(* The device runs a build with overflow checks or one without.              *)
Init ==
    /\ session \in {NoSession(checked) : checked \in BOOLEAN}
    /\ pc = "idle"
    /\ player = NoPlayer
    /\ elapsed = 0
    /\ ctl = <<>>
    /\ ctl_open = TRUE
    /\ holder = "nobody"
    /\ blocked = None
    /\ infos = 0
    /\ aborting = FALSE
    /\ notices = 0
    /\ reading = TRUE
    /\ pass = [from |-> None, sent |-> <<>>, first |-> None, since |-> 0, at |-> 0,
               early |-> FALSE]

-------------------------------------------------------------------------------
(* The schedule.                                                           *)

Paced == session.kind = "playback"

HasFrame == player.idx < Len(player.frames)
Current  == player.frames[player.idx + 1]

(* base_ms.get_or_insert(abs_ms)                                             *)
Base == IF player.base = None THEN Current.abs ELSE player.base

(* Past the clock. *)
Never == Horizon + 1

(* offset / speed as f64, cast to u64.  The offset of a frame before the     *)
(* base is an unsigned difference and wraps: it is due after all time, as is *)
(* every frame but the first at speed zero.  At a negative speed all frames  *)
(* are due at once.                                                          *)
Delay(offset, speed) ==
    IF offset = 0 \/ speed < 0 THEN 0
    ELSE IF offset < 0 \/ speed = 0 THEN Never
    ELSE offset \div speed

Due == Delay(Current.abs - Base, player.speed) <= elapsed

(* A build with overflow checks does not get past abs_ms - base.             *)
Underflows == session.checked /\ Current.abs < Base

(* The frame at idx has its place in the schedule.                           *)
Scheduled == ~player.paused /\ HasFrame /\ ~Underflows

-------------------------------------------------------------------------------
(* INVITE for recorded media.                                              *)

Session(kind, media, sip, start) ==
    [kind |-> kind, media |-> media, sip |-> sip, segments |-> Recording[start],
     checked |-> session.checked]

(* A range without segments is refused with 488 and nothing changes.         *)
(* Otherwise the control channel is created and the task spawned; over TCP   *)
(* media it first waits for the platform to dial.                            *)
Invite(kind, media, sip, start) ==
    /\ pc = "idle"
    /\ session' = Session(kind, media, sip, start)
    /\ pc' = IF media = "tcp" THEN "accepting" ELSE "running"
    /\ player' = [NoPlayer EXCEPT !.frames = Recording[start][start]]
    /\ holder' = "server"
    /\ pass' = [pass EXCEPT !.from = start]
    /\ UNCHANGED <<elapsed, ctl, ctl_open, blocked, infos, aborting, notices, reading>>

(* The platform dials: pacing starts now.                                    *)
Accepted ==
    /\ pc = "accepting"
    /\ pc' = "running"
    /\ elapsed' = 0
    /\ pass' = [pass EXCEPT !.since = 0]
    /\ UNCHANGED <<session, player, ctl, ctl_open, holder, blocked, infos, aborting,
                   notices, reading>>

Ended ==
    /\ pc' = "ended"
    /\ UNCHANGED <<session, player, elapsed, ctl, ctl_open, holder, blocked, infos,
                   aborting, notices, reading, pass>>

(* The server lets go of the channel before the dial.                        *)
AcceptFindsClosed ==
    /\ pc = "accepting"
    /\ ctl = <<>> /\ holder = "nobody"
    /\ Ended

AcceptFails ==
    /\ pc = "accepting"
    /\ Ended

AcceptIgnoresControl == FALSE

(* A command that arrives before the dial is read and forgotten.             *)
AcceptDiscardsControl ==
    /\ pc = "accepting"
    /\ ctl # <<>>
    /\ ctl' = Tail(ctl)
    /\ UNCHANGED <<session, pc, player, elapsed, ctl_open, holder, blocked, infos,
                   aborting, notices, reading, pass>>

-------------------------------------------------------------------------------
(* Commands.                                                               *)

SoughtOnOldBase(c) ==
    IF c.cmd = "PAUSE"
    THEN [player EXCEPT !.paused = TRUE]
    ELSE [frames |-> IF c.start = None THEN player.frames ELSE session.segments[c.start],
          idx    |-> IF c.start = None THEN player.idx ELSE 0,
          base   |-> player.base,
          speed  |-> IF c.speed = None THEN player.speed ELSE c.speed,
          paused |-> FALSE]

(* apply_control() on a command.                                             *)
Applied(c) ==
    IF c.cmd = "PAUSE"
    THEN [player EXCEPT !.paused = TRUE]
    ELSE [frames |-> IF c.start = None THEN player.frames ELSE session.segments[c.start],
          idx    |-> IF c.start = None THEN player.idx ELSE 0,
          base   |-> None,
          speed  |-> IF c.speed = None THEN player.speed ELSE c.speed,
          paused |-> FALSE]

KeptAnchor(c) == elapsed

(* pacing_base: a PLAY anchors the schedule again.                           *)
Anchored(c) == IF c.cmd = "PLAY" THEN 0 ELSE elapsed

TakesControl ==
    /\ ctl # <<>>
    /\ LET c == Head(ctl)
       IN  /\ player' = Applied(c)
           /\ elapsed' = Anchored(c)
           /\ pass' = IF c.cmd = "PAUSE" THEN pass
                      ELSE IF c.start = None
                      THEN [pass EXCEPT !.first = None, !.since = 0]
                      ELSE [pass EXCEPT !.first = None, !.since = 0, !.from = c.start,
                                        !.sent = <<>>]
    /\ ctl' = Tail(ctl)
    /\ pc' = "running"
    /\ UNCHANGED <<session, ctl_open, holder, blocked, infos, aborting, notices, reading>>

(* A paused task watches the channel and nothing else.                       *)
PausedTakesControl ==
    /\ pc = "running" /\ player.paused
    /\ TakesControl

PausedForEver == FALSE

PausedReportsEnd ==
    /\ pc = "running" /\ player.paused
    /\ ctl = <<>> /\ holder = "nobody"
    /\ notices' = notices + 1
    /\ pc' = "ended"
    /\ UNCHANGED <<session, player, elapsed, ctl, ctl_open, holder, blocked, infos,
                   aborting, reading, pass>>

PausedFindsClosed ==
    /\ pc = "running" /\ player.paused
    /\ ctl = <<>> /\ holder = "nobody"
    /\ Ended

(* The task panics on a frame before the base, paced or not, and is gone     *)
(* without a notice.                                                         *)
OffsetPanics ==
    /\ pc = "running" /\ ~player.paused /\ HasFrame
    /\ Underflows
    /\ Ended

(* A paced task that is ahead of its schedule sleeps until the frame is due. *)
PacedWaits ==
    /\ pc = "running" /\ Paced /\ Scheduled
    /\ ~Due
    /\ player' = [player EXCEPT !.base = Base]
    /\ pc' = "waiting"
    /\ UNCHANGED <<session, elapsed, ctl, ctl_open, holder, blocked, infos, aborting,
                   notices, reading, pass>>

WaitTakesControl ==
    /\ pc = "waiting" /\ ctl_open
    /\ TakesControl

(* A download looks at the channel between two frames.                       *)
DownloadTakesControl ==
    /\ pc = "running" /\ ~Paced /\ Scheduled
    /\ TakesControl

-------------------------------------------------------------------------------
(* Frames.                                                                 *)

(* The frame at idx starts to leave, on schedule or not.                     *)
Sends(open) ==
    /\ player' = [player EXCEPT !.base = Base]
    /\ pass' = [pass EXCEPT !.sent = Append(@, Current),
                            !.first = IF @ = None THEN Current.abs ELSE @,
                            !.at = pass.since,
                            !.early = open # ctl_open]
    /\ pc' = "writing"
    /\ ctl_open' = open
    /\ UNCHANGED <<session, elapsed, ctl, holder, blocked, infos, aborting, notices, reading>>

(* A task that is behind its schedule does not look at the channel.          *)
PacedSends ==
    /\ pc = "running" /\ Paced /\ Scheduled
    /\ Due
    /\ Sends(ctl_open)

WaitElapses ==
    /\ pc = "waiting"
    /\ Due
    /\ Sends(ctl_open)

(* The channel closes under the sleep: the frame leaves at once.             *)
WaitFindsClosed ==
    /\ pc = "waiting" /\ ctl_open
    /\ ctl = <<>> /\ holder = "nobody"
    /\ Sends(FALSE)

DownloadSends ==
    /\ pc = "running" /\ ~Paced /\ Scheduled
    /\ ctl = <<>>
    /\ Sends(ctl_open)

(* The transport took the frame's packets; a TCP write waits until the       *)
(* platform reads.                                                           *)
FrameWritten ==
    /\ pc = "writing"
    /\ session.media = "udp" \/ reading
    /\ player' = [player EXCEPT !.idx = @ + 1]
    /\ pc' = "running"
    /\ UNCHANGED <<session, elapsed, ctl, ctl_open, holder, blocked, infos, aborting,
                   notices, reading, pass>>

(* A write error ends the task without a notice.                             *)
SendFails ==
    /\ pc = "writing"
    /\ Ended

(* The last frame has left: the MediaStatus INFO goes out, on a UDP dialog,  *)
(* and the task ends.                                                        *)
EndInfo == session.sip = "udp"

NaturalEnd ==
    /\ pc = "running" /\ ~player.paused
    /\ ~HasFrame
    /\ notices' = IF EndInfo THEN notices + 1 ELSE notices
    /\ pc' = "ended"
    /\ UNCHANGED <<session, player, elapsed, ctl, ctl_open, holder, blocked, infos,
                   aborting, reading, pass>>

TaskAborted ==
    /\ aborting
    /\ pc \notin {"idle", "ended"}
    /\ Ended

-------------------------------------------------------------------------------
(* The SIP loop.                                                           *)

LoopFree == blocked = None

Room == Len(ctl) < CtlCapacity

(* handle_info: 200 OK, then the command is sent to the session, if there is *)
(* one; a task that is gone has dropped its receiver.                        *)
Info(c) ==
    /\ LoopFree /\ pc # "idle"
    /\ infos < MaxInfo
    /\ infos' = infos + 1
    /\ \/ /\ holder = "nobody" \/ pc = "ended"
          /\ UNCHANGED <<ctl, blocked>>
       \/ /\ holder = "server" /\ pc # "ended"
          /\ Room
          /\ ctl' = Append(ctl, c)
          /\ UNCHANGED blocked
       \/ /\ holder = "server" /\ pc # "ended"
          /\ ~Room
          /\ blocked' = c
          /\ UNCHANGED ctl
    /\ UNCHANGED <<session, pc, player, elapsed, ctl_open, holder, aborting, notices,
                   reading, pass>>

(* The wait of the INFO handler ends: there is room, or no receiver.         *)
InfoUnblocks ==
    /\ blocked # None
    /\ \/ pc = "ended" /\ UNCHANGED ctl
       \/ pc # "ended" /\ Room /\ ctl' = Append(ctl, blocked)
    /\ blocked' = None
    /\ UNCHANGED <<session, pc, player, elapsed, ctl_open, holder, infos, aborting,
                   notices, reading, pass>>

(* BYE, a recycling INVITE and shutdown_cleanup: abort the task, drop the    *)
(* sending half.                                                             *)
Teardown ==
    /\ LoopFree /\ holder = "server"
    /\ holder' = "nobody"
    /\ aborting' = TRUE
    /\ UNCHANGED <<session, pc, player, elapsed, ctl, ctl_open, blocked, infos, notices,
                   reading, pass>>

(* The connection a TCP dialog runs on ends and its server with it: the      *)
(* sending half is dropped, the task is not aborted.                         *)
ConnectionEnds ==
    /\ LoopFree /\ holder = "server" /\ session.sip = "tcp"
    /\ holder' = "nobody"
    /\ UNCHANGED <<session, pc, player, elapsed, ctl, ctl_open, blocked, infos, aborting,
                   notices, reading, pass>>

-------------------------------------------------------------------------------
(* Time and the platform.                                                  *)

(* Only a paced task looks at the clock.                                      *)
Tick ==
    /\ Paced
    /\ pc \in {"running", "waiting", "writing"}
    /\ elapsed < Horizon
    /\ elapsed' = elapsed + 1
    /\ pass' = [pass EXCEPT !.since = IF @ < Horizon THEN @ + 1 ELSE @]
    /\ UNCHANGED <<session, pc, player, ctl, ctl_open, holder, blocked, infos, aborting,
                   notices, reading>>

PlatformStalls ==
    /\ session.media = "tcp" /\ pc = "writing"
    /\ reading
    /\ reading' = FALSE
    /\ UNCHANGED <<session, pc, player, elapsed, ctl, ctl_open, holder, blocked, infos,
                   aborting, notices, pass>>

PlatformReads ==
    /\ ~reading
    /\ reading' = TRUE
    /\ UNCHANGED <<session, pc, player, elapsed, ctl, ctl_open, holder, blocked, infos,
                   aborting, notices, pass>>

TaskStep ==
    \/ AcceptDiscardsControl
    \/ AcceptFindsClosed
    \/ PausedTakesControl
    \/ PausedFindsClosed
    \/ OffsetPanics
    \/ PacedWaits
    \/ WaitTakesControl
    \/ DownloadTakesControl
    \/ PacedSends
    \/ WaitElapses
    \/ WaitFindsClosed
    \/ DownloadSends
    \/ FrameWritten
    \/ NaturalEnd
    \/ TaskAborted

Next ==
    \/ \E kind \in {"playback", "download"}, media \in {"udp", "tcp"}, sip \in {"udp", "tcp"},
          start \in RangeStart : Invite(kind, media, sip, start)
    \/ TaskStep
    \/ Accepted
    \/ AcceptFails
    \/ SendFails
    \/ \E c \in Command : Info(c)
    \/ InfoUnblocks
    \/ Teardown
    \/ ConnectionEnds
    \/ Tick
    \/ PlatformStalls
    \/ PlatformReads

Spec == Init /\ [][Next]_vars

(* The runtime runs a task that is ready, serves an abort, and wakes the INFO *)
(* handler when there is room; the clock goes on.  Of the platform FairSpec   *)
(* assumes that it reads its media connection again, and of the connection    *)
(* that a write gets through that the platform makes room for again and again.*)
FairSpec ==
    /\ Spec
    /\ WF_vars(TaskStep) /\ WF_vars(TaskAborted) /\ WF_vars(InfoUnblocks)
    /\ WF_vars(Tick)
    /\ WF_vars(PlatformReads) /\ SF_vars(FrameWritten)

-------------------------------------------------------------------------------
(* Properties.                                                             *)

(* Pacing (playback.rs: "Re-anchor pacing so a resume/seek does not burst"):  *)
(* whatever was paused, resumed and sought before, a paced frame starts to    *)
(* leave no earlier after the last PLAY than its distance from the first      *)
(* frame sent since then, at the speed in force.  The one frame that leaves   *)
(* early is the one the task was sleeping for when the server let go of it.   *)
NoBurst ==
    (Paced /\ pass.first # None /\ ~pass.early /\ pc = "writing") =>
        pass.at >= Delay(pass.sent[Len(pass.sent)].abs - pass.first, player.speed)

(* The unsigned offset abs_ms - base wraps for a frame before the base, and   *)
(* the base survives pauses: no seek, resume or change of speed alone puts    *)
(* the next frame before it.  That takes a recording in which a later frame   *)
(* of the range, of an overlapping segment, carries an earlier time.          *)
WrapsOnlyInOverlap ==
    (HasFrame /\ Current.abs < Base) =>
        \E i \in 1 .. player.idx : player.frames[i].abs > Current.abs

(* playback.rs: "each frame is emitted on a wall-clock schedule anchored at   *)
(* task start".  A frame a task sleeps for at a positive speed is emitted, or *)
(* a command or the end of the session comes first.                           *)
EachFrameEmitted ==
    (pc = "waiting" /\ player.speed > 0) ~> (pc # "waiting")

(* What leaves can be decoded: in every pass over the recording a frame that  *)
(* is not a key frame follows the frame before it in the same segment, with   *)
(* no gap after a pause, a seek or a refused packet, and no frame lies before *)
(* the position asked for.                                                    *)
Decodable ==
    \A i \in DOMAIN pass.sent :
        LET f == pass.sent[i] IN
        /\ f.abs >= pass.from
        /\ ~f.is_key => /\ i > 1
                        /\ pass.sent[i - 1].seg = f.seg
                        /\ pass.sent[i - 1].au = f.au - 1

(* The MediaStatus INFO tells the platform that the range was played to its   *)
(* end (server.rs 3024, README "Playback/download completion notify"): it is  *)
(* sent once at most, and only when every frame of the last pass has left,    *)
(* even if a BYE was served meanwhile.                                        *)
NoticeMeansComplete ==
    notices > 0 => /\ notices = 1
                   /\ pc = "ended"
                   /\ pass.sent = session.segments[pass.from]

(* README: a session that ends naturally reports it on the dialog's own       *)
(* transport, the shared UDP socket or the connection.                        *)
NaturalEndReported ==
    [][NaturalEnd => notices' = 1]_vars

(* handle_info holds the SIP loop while the control channel is full: the loop *)
(* gets free again, behind schedule, paused, waiting for a dial or torn down, *)
(* as long as the platform reads its media.                                   *)
LoopGetsFree == (blocked # None) ~> (blocked = None)

(* A session the server has let go of ends wherever its task was: aborted by  *)
(* a BYE, or orphaned with its connection while it waited for a dial, was     *)
(* paused, asleep or held up by the platform (run_playback_task, every        *)
(* recv() that finds its channel closed).  An orphan outlives its connection  *)
(* only where its next frame is scheduled for never, at speed zero or before  *)
(* the base.                                                                  *)
ReleasedSessionEnds ==
    (holder = "nobody" /\ pc # "idle") ~>
        \/ pc = "ended"
        \/ /\ ~aborting /\ HasFrame
           /\ Delay(Current.abs - Base, player.speed) = Never
===============================================================================
