---------------------------- MODULE Playback_proofs ----------------------------
(***************************************************************************)
(* Proofs of the safety invariants of Playback, for any recording, any     *)
(* commands and any channel.  What a pass sent is a prefix of the frames   *)
(* the task plays; the schedule's base is the first frame sent since the   *)
(* last PLAY, and both clocks start there.                                 *)
(***************************************************************************)
EXTENDS Playback, TLAPS

-------------------------------------------------------------------------------
(* The inductive invariant.                                                *)

PlayerState == [frames : Seq(Frame), idx : Nat, base : Nat \cup {None}, speed : Int,
                paused : BOOLEAN]
Pass == [from : Nat \cup {None}, sent : Seq(Frame), first : Nat \cup {None},
         since : Nat, at : Nat, early : BOOLEAN]

Shapes == player \in PlayerState /\ pass \in Pass

(* Before the INVITE nothing has happened. *)
Untouched ==
    pc = "idle" => /\ session = NoSession(session.checked)
                   /\ player = NoPlayer
                   /\ elapsed = 0
                   /\ notices = 0
                   /\ pass.first = None /\ pass.since = 0 /\ pass.sent = <<>>

(* The task plays the range's frames, and what it sent is their beginning. *)
Playing ==
    /\ pc # "idle" => /\ pass.from \in MediaTime
                      /\ player.frames = session.segments[pass.from]
    /\ pc \in {"waiting", "writing"} => HasFrame
    /\ pc # "ended" =>
          /\ Len(pass.sent) = player.idx + IF pc = "writing" THEN 1 ELSE 0
          /\ \A k \in 1 .. Len(pass.sent) : pass.sent[k] = player.frames[k]
          /\ notices = 0

Schedule ==
    /\ player.base = pass.first
    /\ player.base # None =>
          \E i \in 1 .. Len(player.frames) :
              i <= player.idx + 1 /\ player.frames[i].abs = player.base
    /\ Paced => pass.since = elapsed

IInv == TypeOK /\ Shapes /\ Untouched /\ Playing /\ Schedule /\ NoBurst /\ NoticeMeansComplete

-------------------------------------------------------------------------------
(* Facts of the state.                                                     *)

LEMMA CurrentTyped ==
    ASSUME TypeOK, Shapes, HasFrame
    PROVE  /\ Current \in Frame
           /\ Current.abs \in Nat
           /\ player.idx + 1 \in 1 .. Len(player.frames)
           /\ Base \in Nat
<1>1. player.frames \in Seq(Frame) /\ player.idx \in Nat /\ player.base \in Nat \cup {None}
  BY DEF Shapes, PlayerState
<1>2. player.idx + 1 \in 1 .. Len(player.frames)
  BY <1>1 DEF HasFrame
<1>3. Current \in Frame
  BY <1>1, <1>2 DEF Current
<1>4. Current.abs \in Nat
  BY <1>3 DEF Frame
<1>5. Base \in Nat
  BY <1>1, <1>4 DEF Base
<1> QED
  BY <1>2, <1>3, <1>4, <1>5

(* A first frame is its own base, and due. *)
LEMMA FirstIsDue ==
    ASSUME TypeOK, Shapes, HasFrame, player.base = None
    PROVE  Due
<1>1. Base = Current.abs /\ Current.abs \in Nat
  BY CurrentTyped DEF Base
<1>2. Current.abs - Base = 0
  BY <1>1
<1>3. elapsed >= 0
  BY PlaybackAssumption DEF TypeOK
<1> QED
  BY <1>2, <1>3 DEF Due, Delay

(* The frame the base was taken from is before one that precedes the base. *)
LEMMA WrapImplied == IInv => WrapsOnlyInOverlap
<1> SUFFICES ASSUME IInv, HasFrame, Current.abs < Base
             PROVE  \E i \in 1 .. player.idx : player.frames[i].abs > Current.abs
  BY DEF WrapsOnlyInOverlap
<1>1. /\ Current.abs \in Nat /\ Base \in Nat
      /\ player.idx \in Nat
  BY CurrentTyped DEF IInv, Shapes, PlayerState
<1>2. player.base # None /\ Base = player.base
  BY <1>1 DEF Base
<1>3. PICK i \in 1 .. Len(player.frames) :
           i <= player.idx + 1 /\ player.frames[i].abs = player.base
  BY <1>2 DEF IInv, Schedule
<1>4. i # player.idx + 1
  BY <1>1, <1>2, <1>3 DEF Current
<1>5. i \in 1 .. player.idx
  BY <1>1, <1>3, <1>4
<1> QED
  BY <1>1, <1>2, <1>3, <1>5

-------------------------------------------------------------------------------
(* Every step is one of ten kinds.                                         *)

(* The channel, the INFO handler, teardown and the platform. *)
Elsewhere ==
    /\ UNCHANGED <<session, pc, player, elapsed, notices, pass>>
    /\ ctl' \in Seq(Command) /\ Len(ctl') <= CtlCapacity
    /\ ctl_open' = ctl_open
    /\ holder' \in {"server", "nobody"}
    /\ blocked' \in Command \cup {None}
    /\ infos' \in 0 .. MaxInfo
    /\ aborting' \in BOOLEAN
    /\ reading' \in BOOLEAN

(* A frame starts to leave, due when the task is paced and still sees its    *)
(* channel as it did.                                                        *)
Leaving(open) ==
    /\ pc \in {"running", "waiting"}
    /\ HasFrame
    /\ open = ctl_open => ~Paced \/ Due
    /\ Sends(open)

LEMMA StepKinds ==
    ASSUME TypeOK, Playing, [Next]_vars
    PROVE  \/ \E kind \in {"playback", "download"}, media \in {"udp", "tcp"},
                 sip \in {"udp", "tcp"}, start \in RangeStart : Invite(kind, media, sip, start)
           \/ pc # "idle" /\ Ended
           \/ pc \in {"running", "waiting"} /\ TakesControl
           \/ PacedWaits
           \/ \E open \in BOOLEAN : Leaving(open)
           \/ FrameWritten
           \/ NaturalEnd
           \/ Accepted
           \/ Tick
           \/ Elsewhere
<1>1. CASE UNCHANGED vars
  BY <1>1 DEF vars, Elsewhere, TypeOK
<1>2. CASE TaskStep
  <2>1. CASE AcceptDiscardsControl
    <3>1. Tail(ctl) \in Seq(Command) /\ Len(Tail(ctl)) = Len(ctl) - 1
      BY <2>1 DEF AcceptDiscardsControl, TypeOK
    <3> QED
      BY <2>1, <3>1, PlaybackAssumption DEF AcceptDiscardsControl, TypeOK, Elsewhere
  <2>2. CASE AcceptFindsClosed \/ PausedFindsClosed \/ OffsetPanics \/ TaskAborted
    BY <2>2 DEF AcceptFindsClosed, PausedFindsClosed, OffsetPanics, TaskAborted
  <2>3. CASE PausedTakesControl \/ WaitTakesControl \/ DownloadTakesControl
    BY <2>3 DEF PausedTakesControl, WaitTakesControl, DownloadTakesControl
  <2>4. CASE PacedSends \/ DownloadSends
    <3>1. ctl_open \in BOOLEAN
      BY DEF TypeOK
    <3> QED
      BY <2>4, <3>1 DEF PacedSends, DownloadSends, Leaving, Scheduled
  <2>5. CASE WaitElapses \/ WaitFindsClosed
    <3>1. ctl_open \in BOOLEAN
      BY DEF TypeOK
    <3>2. HasFrame
      BY <2>5 DEF WaitElapses, WaitFindsClosed, Playing
    <3> QED
      BY <2>5, <3>1, <3>2 DEF WaitElapses, WaitFindsClosed, Leaving
  <2> QED
    BY <1>2, <2>1, <2>2, <2>3, <2>4, <2>5 DEF TaskStep
<1>3. CASE AcceptFails \/ SendFails
  BY <1>3 DEF AcceptFails, SendFails
<1>4. ASSUME NEW c \in Command, Info(c)
      PROVE  Elsewhere
  <2>1. Room => Append(ctl, c) \in Seq(Command) /\ Len(Append(ctl, c)) <= CtlCapacity
    BY PlaybackAssumption DEF Room, TypeOK
  <2>2. infos + 1 \in 0 .. MaxInfo
    BY <1>4, PlaybackAssumption DEF Info, TypeOK
  <2> QED
    BY <1>4, <2>1, <2>2 DEF Info, TypeOK, Elsewhere
<1>5. CASE InfoUnblocks
  <2>1. Room => Append(ctl, blocked) \in Seq(Command) /\ Len(Append(ctl, blocked)) <= CtlCapacity
    BY <1>5, PlaybackAssumption DEF Room, TypeOK, InfoUnblocks
  <2> QED
    BY <1>5, <2>1 DEF InfoUnblocks, TypeOK, Elsewhere
<1>6. CASE Teardown \/ ConnectionEnds \/ PlatformStalls \/ PlatformReads
  BY <1>6 DEF Teardown, ConnectionEnds, PlatformStalls, PlatformReads, TypeOK, Elsewhere
<1> QED
  BY <1>1, <1>2, <1>3, <1>4, <1>5, <1>6 DEF Next
-------------------------------------------------------------------------------
(* Each kind of step keeps the invariant.                                  *)

LEMMA InviteKeeps ==
    ASSUME IInv, NEW kind \in {"playback", "download"}, NEW media \in {"udp", "tcp"},
           NEW sip \in {"udp", "tcp"}, NEW start \in RangeStart,
           Invite(kind, media, sip, start)
    PROVE  IInv'
<1>1. /\ Recording[start] \in [MediaTime -> Seq(Frame)]
      /\ start \in MediaTime /\ start \in Nat
      /\ Recording[start][start] \in Seq(Frame)
  <2>1. Recording[start] \in [MediaTime -> Seq(Frame)]
    BY PlaybackAssumption
  <2>2. start \in MediaTime /\ start \in Nat
    BY PlaybackAssumption
  <2>3. Recording[start][start] \in Seq(Frame)
    BY <2>1, <2>2
  <2> QED
    BY <2>1, <2>2, <2>3
<1>2. /\ pc = "idle" /\ player = NoPlayer /\ elapsed = 0 /\ notices = 0
      /\ pass.first = None /\ pass.since = 0 /\ pass.sent = <<>>
  BY DEF IInv, Untouched, Invite
<1>3. /\ session' = Session(kind, media, sip, start)
      /\ session'.segments = Recording[start]
      /\ pc' \in {"accepting", "running"}
      /\ player' = [NoPlayer EXCEPT !.frames = Recording[start][start]]
      /\ pass' = [pass EXCEPT !.from = start]
      /\ holder' = "server"
      /\ UNCHANGED <<elapsed, ctl, ctl_open, blocked, infos, aborting, notices, reading>>
  BY DEF Invite, Session
<1>4. /\ player'.frames = Recording[start][start]
      /\ player'.idx = 0 /\ player'.base = None /\ player'.speed = 1
      /\ player'.paused = FALSE
      /\ player' \in PlayerState
  <2>1. player' = [frames |-> Recording[start][start], idx |-> 0, base |-> None,
                   speed |-> 1, paused |-> FALSE]
    BY <1>3 DEF NoPlayer
  <2> QED
    BY <1>1, <2>1 DEF PlayerState
<1>5. /\ pass'.from = start /\ pass'.sent = <<>> /\ pass'.first = None
      /\ pass'.since = 0
      /\ pass' \in Pass
  <2>1. pass \in Pass
    BY DEF IInv, Shapes
  <2> QED
    BY <1>1, <1>2, <1>3, <2>1 DEF Pass
<1>6. session' \in [kind : {"none", "playback", "download"}, media : {"udp", "tcp"},
                    sip : {"udp", "tcp"}, segments : [MediaTime -> Seq(Frame)],
                    checked : BOOLEAN]
  <2>1. session.checked \in BOOLEAN
    BY DEF IInv, TypeOK
  <2> QED
    BY <1>1, <1>3, <2>1 DEF Session
<1>7. TypeOK'
  <2>1. player'.idx \in 0 .. Len(player'.frames)
    BY <1>1, <1>4
  <2>2. player'.speed \in Int /\ player'.frames \in Seq(Frame)
        /\ player'.base \in Nat \cup {None} /\ player'.paused \in BOOLEAN
    BY <1>4 DEF PlayerState
  <2>3. pc' \in {"idle", "accepting", "running", "waiting", "writing", "ended"}
    BY <1>3
  <2>4. holder' \in {"server", "nobody"}
    BY <1>3
  <2>5. /\ elapsed' \in 0 .. Horizon
        /\ ctl' \in Seq(Command) /\ Len(ctl') <= CtlCapacity
        /\ ctl_open' \in BOOLEAN
        /\ blocked' \in Command \cup {None}
        /\ infos' \in 0 .. MaxInfo
        /\ aborting' \in BOOLEAN
        /\ notices' \in {0, 1}
        /\ reading' \in BOOLEAN
    BY <1>3 DEF IInv, TypeOK
  <2> QED
    BY <1>6, <2>1, <2>2, <2>3, <2>4, <2>5 DEF TypeOK
<1>8. Shapes' /\ Untouched'
  BY <1>3, <1>4, <1>5 DEF Shapes, Untouched
<1>9. Playing'
  <2>2. player'.frames = session'.segments[pass'.from] /\ pass'.from \in MediaTime
    BY <1>1, <1>3, <1>4, <1>5
  <2>3. Len(pass'.sent) = 0 /\ notices' = 0
    BY <1>2, <1>3, <1>5
  <2> QED
    BY <1>3, <1>4, <2>2, <2>3 DEF Playing
<1>10. Schedule' /\ NoBurst' /\ NoticeMeansComplete'
  BY <1>2, <1>3, <1>4, <1>5 DEF Schedule, NoBurst, NoticeMeansComplete
<1> QED
  BY <1>7, <1>8, <1>9, <1>10 DEF IInv

LEMMA EndedKeeps ==
    ASSUME IInv, pc # "idle", Ended
    PROVE  IInv'
<1>1. notices = 0 \/ NoticeMeansComplete
  BY DEF IInv
<1> QED
  BY <1>1 DEF Ended, IInv, TypeOK, Shapes, Untouched, Playing, HasFrame, Schedule, Paced,
         NoBurst, NoticeMeansComplete

LEMMA ControlKeeps ==
    ASSUME IInv, pc \in {"running", "waiting"}, TakesControl
    PROVE  IInv'
<1>. DEFINE c == Head(ctl)
<1>1. /\ c \in Command
      /\ Tail(ctl) \in Seq(Command)
      /\ Len(Tail(ctl)) <= CtlCapacity
  BY PlaybackAssumption DEF TakesControl, IInv, TypeOK
<1>2. /\ c.cmd \in {"PAUSE", "PLAY"}
      /\ c.start \in MediaTime \cup {None}
      /\ c.speed \in Int \cup {None}
  BY <1>1, PlaybackAssumption
<1>3. /\ player' = Applied(c)
      /\ elapsed' = Anchored(c)
      /\ ctl' = Tail(ctl)
      /\ pc' = "running"
      /\ UNCHANGED <<session, ctl_open, holder, blocked, infos, aborting, notices, reading>>
  BY DEF TakesControl
<1>4. /\ player \in PlayerState
      /\ pass \in Pass
      /\ player.frames = session.segments[pass.from]
      /\ notices = 0
  BY DEF IInv, Shapes, Playing
<1>5. CASE c.cmd = "PAUSE"
  <2>1. /\ player' = [player EXCEPT !.paused = TRUE]
        /\ elapsed' = elapsed
        /\ pass' = pass
    BY <1>3, <1>5 DEF Applied, Anchored, TakesControl
  <2>2. /\ player'.frames = player.frames /\ player'.idx = player.idx
        /\ player'.base = player.base /\ player'.speed = player.speed
        /\ player'.paused = TRUE
        /\ player' \in PlayerState
    <3>1. player \in [frames : Seq(Frame), idx : Nat, base : Nat \cup {None}, speed : Int,
                      paused : BOOLEAN]
      BY <1>4 DEF PlayerState
    <3>2. /\ player'.frames = player.frames /\ player'.idx = player.idx
          /\ player'.base = player.base /\ player'.speed = player.speed
          /\ player'.paused = TRUE
      BY <2>1, <3>1
    <3>3. player' \in PlayerState
      BY <2>1, <3>1, Zenon DEF PlayerState
    <3> QED
      BY <3>2, <3>3
  <2>3. TypeOK'
    <3>1. /\ player'.frames \in Seq(Frame) /\ player'.idx \in 0 .. Len(player'.frames)
          /\ player'.base \in Nat \cup {None} /\ player'.speed \in Int
          /\ player'.paused \in BOOLEAN
      BY <2>2 DEF IInv, TypeOK
    <3>2. elapsed' \in 0 .. Horizon
      BY <2>1 DEF IInv, TypeOK
    <3> QED
      BY <1>1, <1>3, <3>1, <3>2 DEF IInv, TypeOK
  <2>4. Untouched' /\ Playing' /\ NoBurst' /\ NoticeMeansComplete'
    BY <1>3, <1>4, <2>1, <2>2
    DEF IInv, Untouched, Playing, NoBurst, NoticeMeansComplete
  <2>5. Schedule'
    BY <1>3, <2>1, <2>2 DEF IInv, Schedule, Paced
  <2> QED
    BY <1>4, <2>1, <2>2, <2>3, <2>4, <2>5 DEF IInv, Shapes
<1>6. CASE c.cmd = "PLAY"
  <2>1. /\ player'.frames = IF c.start = None THEN player.frames ELSE session.segments[c.start]
        /\ player'.idx = IF c.start = None THEN player.idx ELSE 0
        /\ player'.base = None
        /\ player'.speed = IF c.speed = None THEN player.speed ELSE c.speed
        /\ player'.paused = FALSE
        /\ player' = [frames |-> player'.frames, idx |-> player'.idx, base |-> None,
                      speed |-> player'.speed, paused |-> FALSE]
        /\ elapsed' = 0
    BY <1>3, <1>6 DEF Applied, Anchored
  <2>2. pass' = IF c.start = None
                THEN [pass EXCEPT !.first = None, !.since = 0]
                ELSE [pass EXCEPT !.first = None, !.since = 0, !.from = c.start, !.sent = <<>>]
    BY <1>6 DEF TakesControl
  <2>3. /\ pass'.first = None /\ pass'.since = 0
        /\ pass'.from = IF c.start = None THEN pass.from ELSE c.start
        /\ pass'.sent = IF c.start = None THEN pass.sent ELSE <<>>
        /\ pass' \in Pass
    <3>1. c.start # None => c.start \in Nat
      BY <1>2, PlaybackAssumption
    <3>2. CASE c.start = None
      BY <1>4, <2>2, <3>2 DEF Pass
    <3>3. CASE c.start # None
      <4>1. pass' = [from |-> c.start, sent |-> <<>>, first |-> None, since |-> 0,
                     at |-> pass.at, early |-> pass.early]
        BY <1>4, <2>2, <3>3 DEF Pass
      <4>2. pass.at \in Nat /\ pass.early \in BOOLEAN
        BY <1>4 DEF Pass
      <4>3. c.start \in Nat /\ <<>> \in Seq(Frame)
        BY <3>1, <3>3
      <4> QED
        BY <3>3, <4>1, <4>2, <4>3 DEF Pass
    <3> QED
      BY <3>2, <3>3
  <2>4. /\ player'.frames \in Seq(Frame)
        /\ player'.idx \in 0 .. Len(player'.frames)
        /\ player'.speed \in Int
    <3>1. \A t \in MediaTime : session.segments[t] \in Seq(Frame)
      BY DEF IInv, TypeOK
    <3>2. player.frames \in Seq(Frame) /\ player.idx \in 0 .. Len(player.frames)
          /\ player.speed \in Int
      BY DEF IInv, TypeOK
    <3>3. player'.speed \in Int
      BY <1>2, <2>1, <3>2
    <3>4. CASE c.start = None
      BY <2>1, <3>2, <3>3, <3>4
    <3>5. CASE c.start # None
      <4>1. c.start \in MediaTime
        BY <1>2, <3>5
      <4>2. player'.frames = session.segments[c.start] /\ player'.idx = 0
        BY <2>1, <3>5
      <4>3. player'.frames \in Seq(Frame)
        BY <3>1, <4>1, <4>2
      <4> QED
        BY <3>3, <4>2, <4>3
    <3> QED
      BY <3>4, <3>5
  <2>5. player' \in PlayerState
    <3>1. player' = [frames |-> player'.frames, idx |-> player'.idx, base |-> None,
                     speed |-> player'.speed, paused |-> FALSE]
      BY <2>1, Zenon
    <3>2. player'.idx \in Nat
      BY <2>4
    <3>3. player'.frames \in Seq(Frame) /\ player'.speed \in Int
      BY <2>4
    <3>4. [frames |-> player'.frames, idx |-> player'.idx, base |-> None,
           speed |-> player'.speed, paused |-> FALSE] \in PlayerState
      BY <3>2, <3>3, Zenon DEF PlayerState
    <3> QED
      BY <3>1, <3>4, Zenon
  <2>6. elapsed' \in 0 .. Horizon
    BY <2>1, PlaybackAssumption
  <2>7. TypeOK' /\ Shapes'
    <3>1. /\ player'.frames \in Seq(Frame) /\ player'.idx \in 0 .. Len(player'.frames)
          /\ player'.base \in Nat \cup {None} /\ player'.speed \in Int
          /\ player'.paused \in BOOLEAN
      BY <2>1, <2>4
    <3>2. TypeOK'
      BY <1>1, <1>3, <2>6, <3>1 DEF IInv, TypeOK
    <3> QED
      BY <2>3, <2>5, <3>2 DEF Shapes
  <2>8. Playing'
    <3>1. /\ pass'.from \in MediaTime
          /\ player'.frames = session'.segments[pass'.from]
      BY <1>2, <1>3, <1>4, <2>1, <2>3 DEF IInv, Playing
    <3>2. /\ Len(pass'.sent) = player'.idx
          /\ \A k \in 1 .. Len(pass'.sent) : pass'.sent[k] = player'.frames[k]
      <4>1. CASE c.start = None
        <5>1. pc # "writing" /\ pc # "ended"
          OBVIOUS
        <5>2. player.idx \in Nat
          BY <1>4 DEF PlayerState
        <5> QED
          BY <4>1, <5>1, <5>2, <2>1, <2>3 DEF IInv, Playing
      <4>2. CASE c.start # None
        BY <4>2, <2>1, <2>3
      <4> QED
        BY <4>1, <4>2
    <3>3. player'.idx \in Nat
      BY <2>5 DEF PlayerState
    <3> QED
      BY <1>3, <1>4, <3>1, <3>2, <3>3 DEF IInv, Playing
  <2>9. Schedule' /\ Untouched' /\ NoBurst' /\ NoticeMeansComplete'
    BY <1>3, <1>4, <2>1, <2>3 DEF Schedule, Untouched, NoBurst, NoticeMeansComplete
  <2> QED
    BY <2>7, <2>8, <2>9 DEF IInv
<1> QED
  BY <1>2, <1>5, <1>6

(* A task that waits has sent a frame of this schedule before. *)
LEMMA WaitsKeeps ==
    ASSUME IInv, PacedWaits
    PROVE  IInv'
<1>1. player.base # None
  BY FirstIsDue DEF PacedWaits, Scheduled, IInv
<1>2. Base = player.base
  BY <1>1 DEF Base
<1>3. player' = player
  BY <1>2 DEF PacedWaits, IInv, Shapes, PlayerState
<1>4. /\ pc = "running" /\ HasFrame /\ pc' = "waiting"
      /\ UNCHANGED <<session, elapsed, ctl, ctl_open, holder, blocked, infos, aborting,
                     notices, reading, pass>>
  BY DEF PacedWaits, Scheduled
<1> QED
  BY <1>3, <1>4 DEF IInv, TypeOK, Shapes, Untouched, Playing, HasFrame, Schedule, Paced,
                    NoBurst, NoticeMeansComplete

LEMMA LeavingKeeps ==
    ASSUME IInv, NEW open \in BOOLEAN, Leaving(open)
    PROVE  IInv'
<1>1. /\ pc \in {"running", "waiting"} /\ pc' = "writing"
      /\ HasFrame
      /\ open = ctl_open => ~Paced \/ Due
      /\ player' = [player EXCEPT !.base = Base]
      /\ pass' = [pass EXCEPT !.sent = Append(@, Current),
                              !.first = IF @ = None THEN Current.abs ELSE @,
                              !.at = pass.since,
                              !.early = open # ctl_open]
      /\ ctl_open' = open
      /\ UNCHANGED <<session, elapsed, ctl, holder, blocked, infos, aborting, notices, reading>>
  BY DEF Leaving, Sends
<1>2. /\ Current \in Frame /\ Current.abs \in Nat
      /\ player.idx + 1 \in 1 .. Len(player.frames)
      /\ Base \in Nat
  BY <1>1, CurrentTyped DEF IInv
<1>3. /\ player \in PlayerState /\ pass \in Pass /\ player.base = pass.first
      /\ player.idx \in Nat
      /\ pass.sent \in Seq(Frame)
  BY DEF IInv, Shapes, Schedule, PlayerState, Pass
<1>4. /\ player'.frames = player.frames /\ player'.idx = player.idx
      /\ player'.base = Base /\ player'.speed = player.speed
      /\ player'.paused = player.paused
      /\ player' \in PlayerState
  BY <1>1, <1>2, <1>3 DEF PlayerState
<1>5. /\ pass'.from = pass.from
      /\ pass'.sent = Append(pass.sent, Current)
      /\ pass'.first = Base
      /\ pass'.since = pass.since
      /\ pass'.at = pass.since
      /\ pass'.early = (open # ctl_open)
      /\ pass' \in Pass
  <2>1. pass' = [from |-> pass.from, sent |-> Append(pass.sent, Current),
                 first |-> IF pass.first = None THEN Current.abs ELSE pass.first,
                 since |-> pass.since, at |-> pass.since, early |-> open # ctl_open]
    BY <1>1, <1>3 DEF Pass
  <2>2. Base = IF pass.first = None THEN Current.abs ELSE pass.first
    BY <1>3 DEF Base
  <2>3. Append(pass.sent, Current) \in Seq(Frame)
    BY <1>2, <1>3
  <2> QED
    BY <1>2, <1>3, <2>1, <2>2, <2>3 DEF Pass
<1>6. TypeOK' /\ Shapes' /\ Untouched' /\ NoticeMeansComplete'
  <2>1. notices = 0
    BY <1>1 DEF IInv, Playing
  <2>2. TypeOK'
    BY <1>1, <1>2, <1>4 DEF IInv, TypeOK
  <2> QED
    BY <1>1, <1>4, <1>5, <2>1, <2>2 DEF IInv, Shapes, Untouched, NoticeMeansComplete
<1>7. /\ Len(pass.sent) = player.idx
      /\ \A k \in 1 .. Len(pass.sent) : pass.sent[k] = player.frames[k]
      /\ notices = 0
  BY <1>1, <1>3 DEF IInv, Playing
<1>8. /\ Len(pass'.sent) = player.idx + 1
      /\ pass'.sent[Len(pass'.sent)] = Current
      /\ \A k \in 1 .. Len(pass'.sent) : pass'.sent[k] = player.frames[k]
  <2>1. /\ Len(Append(pass.sent, Current)) = Len(pass.sent) + 1
        /\ Append(pass.sent, Current)[Len(pass.sent) + 1] = Current
        /\ \A k \in 1 .. Len(pass.sent) : Append(pass.sent, Current)[k] = pass.sent[k]
    BY <1>2, <1>3
  <2>2. \A k \in 1 .. player.idx + 1 : k \in 1 .. player.idx \/ k = player.idx + 1
    BY <1>3
  <2> QED
    BY <1>3, <1>5, <1>7, <2>1, <2>2 DEF Current
<1>9. Playing'
  <2>1. HasFrame'
    BY <1>1, <1>4 DEF HasFrame
  <2> QED
    BY <1>1, <1>4, <1>5, <1>7, <1>8, <2>1 DEF IInv, Playing
<1>10. Schedule'
  <2>1. \E i \in 1 .. Len(player.frames) :
            i <= player.idx + 1 /\ player.frames[i].abs = Base
    <3>1. CASE player.base = None
      BY <1>2, <3>1 DEF Base, Current
    <3>2. CASE player.base # None
      BY <3>2 DEF IInv, Schedule, Base
    <3> QED
      BY <3>1, <3>2
  <2> QED
    BY <1>1, <1>4, <1>5, <2>1 DEF IInv, Schedule, Paced
<1>11. NoBurst'
  <2> SUFFICES ASSUME Paced, open = ctl_open
               PROVE  pass'.at >= Delay(pass'.sent[Len(pass'.sent)].abs - pass'.first, player'.speed)
    BY <1>1, <1>5 DEF NoBurst, Paced
  <2>1. Delay(Current.abs - Base, player.speed) <= elapsed
    BY <1>1 DEF Due
  <2>2. pass.since = elapsed
    BY DEF IInv, Schedule
  <2> QED
    BY <1>4, <1>5, <1>8, <2>1, <2>2
<1> QED
  BY <1>6, <1>9, <1>10, <1>11 DEF IInv

LEMMA WrittenKeeps ==
    ASSUME IInv, FrameWritten
    PROVE  IInv'
<1>1. /\ pc = "writing" /\ pc' = "running"
      /\ player' = [player EXCEPT !.idx = @ + 1]
      /\ UNCHANGED <<session, elapsed, ctl, ctl_open, holder, blocked, infos, aborting,
                     notices, reading, pass>>
  BY DEF FrameWritten
<1>2. HasFrame /\ player \in PlayerState /\ player.idx \in Nat
  BY <1>1 DEF IInv, Playing, Shapes, PlayerState
<1>3. /\ player'.frames = player.frames /\ player'.idx = player.idx + 1
      /\ player'.base = player.base /\ player'.speed = player.speed
      /\ player'.paused = player.paused
      /\ player' \in PlayerState
  BY <1>1, <1>2 DEF PlayerState
<1>4. player'.idx \in 0 .. Len(player'.frames)
  BY <1>2, <1>3, CurrentTyped DEF IInv
<1>5. TypeOK' /\ Shapes'
  BY <1>1, <1>3, <1>4 DEF IInv, TypeOK, Shapes
<1>6. Playing'
  BY <1>1, <1>2, <1>3 DEF IInv, Playing
<1>7. Schedule'
  <2>2. ASSUME player.base # None
        PROVE  \E i \in 1 .. Len(player.frames) :
                   i <= player.idx + 1 + 1 /\ player.frames[i].abs = player.base
    BY <1>2, <2>2 DEF IInv, Schedule
  <2> QED
    BY <1>1, <1>3, <2>2 DEF IInv, Schedule, Paced
<1>8. Untouched' /\ NoBurst' /\ NoticeMeansComplete'
  BY <1>1 DEF IInv, Playing, Untouched, NoBurst, NoticeMeansComplete
<1> QED
  BY <1>5, <1>6, <1>7, <1>8 DEF IInv

(* All frames have left: what was sent is the whole range. *)
LEMMA EndKeeps ==
    ASSUME IInv, NaturalEnd
    PROVE  IInv'
<1>1. /\ pc = "running" /\ pc' = "ended" /\ ~HasFrame
      /\ notices' = IF EndInfo THEN notices + 1 ELSE notices
      /\ UNCHANGED <<session, player, elapsed, ctl, ctl_open, holder, blocked, infos,
                     aborting, reading, pass>>
  BY DEF NaturalEnd
<1>2. /\ notices = 0
      /\ player.frames = session.segments[pass.from]
      /\ Len(pass.sent) = player.idx
      /\ \A k \in 1 .. Len(pass.sent) : pass.sent[k] = player.frames[k]
      /\ player.frames \in Seq(Frame) /\ pass.sent \in Seq(Frame)
      /\ player.idx \in 0 .. Len(player.frames)
  BY <1>1 DEF IInv, Playing, TypeOK, Shapes, Pass, PlayerState
<1>3. Len(pass.sent) = Len(player.frames)
  BY <1>1, <1>2 DEF HasFrame
<1>4. pass.sent = player.frames
  BY <1>2, <1>3
<1>5. NoticeMeansComplete'
  BY <1>1, <1>2, <1>4 DEF NoticeMeansComplete
<1>6. notices' \in {0, 1}
  BY <1>1, <1>2
<1> QED
  BY <1>1, <1>5, <1>6
  DEF IInv, TypeOK, Shapes, Untouched, Playing, HasFrame, Schedule, Paced, NoBurst

LEMMA AcceptedKeeps ==
    ASSUME IInv, Accepted
    PROVE  IInv'
<1>1. /\ pc = "accepting" /\ pc' = "running"
      /\ elapsed' = 0
      /\ pass' = [pass EXCEPT !.since = 0]
      /\ UNCHANGED <<session, player, ctl, ctl_open, holder, blocked, infos, aborting,
                     notices, reading>>
  BY DEF Accepted
<1>2. /\ pass'.from = pass.from /\ pass'.sent = pass.sent /\ pass'.first = pass.first
      /\ pass'.since = 0 /\ pass'.at = pass.at /\ pass'.early = pass.early
      /\ pass' \in Pass
  BY <1>1 DEF IInv, Shapes, Pass
<1>3. elapsed' \in 0 .. Horizon
  BY <1>1, PlaybackAssumption
<1> QED
  BY <1>1, <1>2, <1>3
  DEF IInv, TypeOK, Shapes, Untouched, Playing, HasFrame, Schedule, Paced, NoBurst,
      NoticeMeansComplete

LEMMA TickKeeps ==
    ASSUME IInv, Tick
    PROVE  IInv'
<1>1. /\ Paced
      /\ pc \in {"running", "waiting", "writing"}
      /\ elapsed < Horizon
      /\ elapsed' = elapsed + 1
      /\ pass' = [pass EXCEPT !.since = IF @ < Horizon THEN @ + 1 ELSE @]
      /\ UNCHANGED <<session, pc, player, ctl, ctl_open, holder, blocked, infos, aborting,
                     notices, reading>>
  BY DEF Tick
<1>2. elapsed \in Nat /\ elapsed' \in 0 .. Horizon
  BY <1>1, PlaybackAssumption DEF IInv, TypeOK
<1>3. pass.since = elapsed
  BY <1>1 DEF IInv, Schedule
<1>4. /\ pass'.from = pass.from /\ pass'.sent = pass.sent /\ pass'.first = pass.first
      /\ pass'.since = elapsed' /\ pass'.at = pass.at /\ pass'.early = pass.early
      /\ pass' \in Pass
  BY <1>1, <1>2, <1>3 DEF IInv, Shapes, Pass
<1>5. TypeOK' /\ Shapes' /\ Untouched'
  BY <1>1, <1>2, <1>4 DEF IInv, TypeOK, Shapes, Untouched
<1>6. Playing' /\ NoticeMeansComplete'
  BY <1>1, <1>4 DEF IInv, Playing, HasFrame, NoticeMeansComplete
<1>7. Schedule' /\ NoBurst'
  BY <1>1, <1>4 DEF IInv, Schedule, Paced, NoBurst
<1> QED
  BY <1>5, <1>6, <1>7 DEF IInv

LEMMA ElsewhereKeeps ==
    ASSUME IInv, Elsewhere
    PROVE  IInv'
BY DEF Elsewhere, IInv, TypeOK, Shapes, Untouched, Playing, HasFrame, Schedule, Paced,
       NoBurst, NoticeMeansComplete

LEMMA InductiveStep == IInv /\ [Next]_vars => IInv'
<1> SUFFICES ASSUME IInv, [Next]_vars
             PROVE  IInv'
  OBVIOUS
<1> QED
  BY StepKinds, InviteKeeps, EndedKeeps, ControlKeeps, WaitsKeeps, LeavingKeeps,
     WrittenKeeps, EndKeeps, AcceptedKeeps, TickKeeps, ElsewhereKeeps DEF IInv

LEMMA InductiveInit == Init => IInv
<1> SUFFICES ASSUME Init
             PROVE  IInv
  OBVIOUS
<1>1. session \in [kind : {"none", "playback", "download"}, media : {"udp", "tcp"},
                   sip : {"udp", "tcp"}, segments : [MediaTime -> Seq(Frame)],
                   checked : BOOLEAN]
  <2>1. PICK checked \in BOOLEAN : session = NoSession(checked)
    BY DEF Init
  <2>2. <<>> \in Seq(Frame)
    OBVIOUS
  <2> QED
    BY <2>1, <2>2 DEF NoSession
<1>2. TypeOK
  <2>1. player.frames = <<>> /\ player.idx = 0 /\ player.base = None /\ player.speed = 1
        /\ player.paused = FALSE
    BY DEF Init, NoPlayer
  <2>2. player.frames \in Seq(Frame) /\ player.idx \in 0 .. Len(player.frames)
    BY <2>1
  <2>3. player.base \in Nat \cup {None} /\ player.speed \in Int /\ player.paused \in BOOLEAN
    <3>1. player.paused \in BOOLEAN
      BY <2>1, Zenon
    <3>2. player.speed \in Int
      BY <2>1
    <3>3. player.base \in Nat \cup {None}
      BY <2>1, Zenon
    <3> QED
      BY <3>1, <3>2, <3>3, Zenon
  <2>4. elapsed \in 0 .. Horizon /\ infos \in 0 .. MaxInfo
    BY PlaybackAssumption DEF Init
  <2>5. ctl \in Seq(Command) /\ Len(ctl) <= CtlCapacity
    BY PlaybackAssumption DEF Init
  <2>6. /\ pc \in {"idle", "accepting", "running", "waiting", "writing", "ended"}
        /\ ctl_open \in BOOLEAN
        /\ holder \in {"server", "nobody"}
        /\ blocked \in Command \cup {None}
        /\ aborting \in BOOLEAN
        /\ notices \in {0, 1}
        /\ reading \in BOOLEAN
    BY DEF Init
  <2> QED
    BY <1>1, <2>2, <2>3, <2>4, <2>5, <2>6 DEF TypeOK
<1>3. Shapes
  BY DEF Init, Shapes, PlayerState, Pass, NoPlayer
<1>4. Untouched /\ Schedule /\ NoBurst /\ NoticeMeansComplete
  BY DEF Init, Untouched, Schedule, Paced, NoSession, NoPlayer, NoBurst, NoticeMeansComplete
<1>5. Playing
  BY DEF Init, Playing, NoSession, NoPlayer
<1> QED
  BY <1>2, <1>3, <1>4, <1>5 DEF IInv

LEMMA InvariantHolds == Spec => []IInv
BY InductiveInit, InductiveStep, PTL DEF Spec

-------------------------------------------------------------------------------
(* The task, its channel and its clocks keep their shapes, whatever the      *)
(* platform commands.                                                        *)
THEOREM PlaybackTypeCorrect == Spec => []TypeOK
<1>1. IInv => TypeOK
  BY DEF IInv
<1> QED
  BY <1>1, InvariantHolds, PTL

(* No resume and no seek lets a frame leave before its distance from the     *)
(* first one since, for any recording, any speeds and any commands.          *)
THEOREM PlaybackNeverBursts == Spec => []NoBurst
<1>1. IInv => NoBurst
  BY DEF IInv
<1> QED
  BY <1>1, InvariantHolds, PTL

(* Where the unsigned offset wraps the recording itself goes back in time:   *)
(* no command alone, whatever it seeks or resumes, leaves a stale base.      *)
THEOREM WrapsOnlyOverlapped == Spec => []WrapsOnlyInOverlap
BY WrapImplied, InvariantHolds, PTL

(* A MediaStatus notice is sent once, and every frame of the range has left. *)
THEOREM NoticeAfterLastFrame == Spec => []NoticeMeansComplete
<1>1. IInv => NoticeMeansComplete
  BY DEF IInv
<1> QED
  BY <1>1, InvariantHolds, PTL

-------------------------------------------------------------------------------
(* What leaves can be decoded, for any recording that can be.              *)

DecodableFrom(frames, t) ==
    \A i \in DOMAIN frames :
        /\ frames[i].abs >= t
        /\ ~frames[i].is_key => /\ i > 1
                               /\ frames[i - 1].seg = frames[i].seg
                               /\ frames[i - 1].au = frames[i].au - 1

(* What build_frames promises of the frames it makes from a position: none   *)
(* lies before it, and each that is no key frame follows the one before it   *)
(* in its segment.  It is a hypothesis of the theorem and not an assumption  *)
(* on the constants: the run makes its recording with BuildFrames, and what  *)
(* breaks there must show in Decodable.                                      *)
RecordingDecodable ==
    \A r \in RangeStart, t \in MediaTime : DecodableFrom(Recording[r][t], t)

(* The session plays such frames from whatever position it is asked for.     *)
Recorded == \A t \in MediaTime : DecodableFrom(session.segments[t], t)

(* A beginning of frames that can be decoded can be decoded.                 *)
LEMMA PrefixDecodable ==
    ASSUME NEW frames \in Seq(Frame), NEW sent \in Seq(Frame), NEW t,
           DecodableFrom(frames, t), Len(sent) <= Len(frames),
           \A k \in 1 .. Len(sent) : sent[k] = frames[k]
    PROVE  DecodableFrom(sent, t)
<1> SUFFICES ASSUME NEW i \in 1 .. Len(sent)
             PROVE  /\ sent[i].abs >= t
                    /\ ~sent[i].is_key => /\ i > 1
                                         /\ sent[i - 1].seg = sent[i].seg
                                         /\ sent[i - 1].au = sent[i].au - 1
  BY DEF DecodableFrom
<1>1. i \in DOMAIN frames /\ sent[i] = frames[i]
  OBVIOUS
<1>2. i > 1 => sent[i - 1] = frames[i - 1]
  OBVIOUS
<1> QED
  BY <1>1, <1>2 DEF DecodableFrom

(* Once ended a pass sends no more.                                          *)
LEMMA EndedSendsNothing ==
    ASSUME IInv, [Next]_vars, pc' = "ended"
    PROVE  pass' = pass
<1>1. /\ ~ \E kind \in {"playback", "download"}, media \in {"udp", "tcp"},
             sip \in {"udp", "tcp"}, start \in RangeStart : Invite(kind, media, sip, start)
      /\ ~TakesControl /\ ~PacedWaits /\ ~FrameWritten /\ ~Accepted
      /\ ~ \E open \in BOOLEAN : Leaving(open)
  BY DEF Invite, TakesControl, PacedWaits, FrameWritten, Accepted, Leaving, Sends
<1>2. ~Tick
  BY DEF Tick
<1>3. (Ended \/ NaturalEnd \/ Elsewhere) => pass' = pass
  BY DEF Ended, NaturalEnd, Elsewhere
<1> QED
  BY <1>1, <1>2, <1>3, StepKinds DEF IInv

(* Only the INVITE fixes what the session plays.                             *)
LEMMA SessionFixed ==
    ASSUME IInv, [Next]_vars
    PROVE  \/ session' = session
           \/ \E kind \in {"playback", "download"}, media \in {"udp", "tcp"},
                 sip \in {"udp", "tcp"}, start \in RangeStart :
                 Invite(kind, media, sip, start)
<1>1. (\E open \in BOOLEAN : Leaving(open)) => session' = session
  BY DEF Leaving, Sends
<1> QED
  BY <1>1, StepKinds
  DEF IInv, Ended, TakesControl, PacedWaits, FrameWritten, NaturalEnd, Accepted, Tick, Elsewhere

LEMMA DecodableStep ==
    ASSUME RecordingDecodable, IInv, Recorded, Decodable, [Next]_vars
    PROVE  Recorded' /\ Decodable'
<1>1. IInv'
  BY InductiveStep
<1>2. Recorded'
  <2>1. ASSUME NEW kind \in {"playback", "download"}, NEW media \in {"udp", "tcp"},
               NEW sip \in {"udp", "tcp"}, NEW start \in RangeStart,
               Invite(kind, media, sip, start)
        PROVE  Recorded'
    <3>1. session'.segments = Recording[start]
      BY <2>1 DEF Invite, Session
    <3> QED
      BY <3>1 DEF RecordingDecodable, Recorded
  <2> QED
    BY <2>1, SessionFixed DEF Recorded
<1>3. CASE pc' = "ended"
  <2>1. pass' = pass
    BY <1>3, EndedSendsNothing
  <2> QED
    BY <1>2, <2>1 DEF Decodable
<1>4. CASE pc' = "idle"
  <2>1. pass'.sent = <<>>
    BY <1>1, <1>4 DEF IInv, Untouched
  <2> QED
    BY <1>2, <2>1 DEF Decodable
<1>5. CASE pc' \notin {"idle", "ended"}
  <2>1. /\ pass'.from \in MediaTime
        /\ player'.frames = session'.segments[pass'.from]
        /\ pc' \in {"waiting", "writing"} => HasFrame'
        /\ Len(pass'.sent) = player'.idx + IF pc' = "writing" THEN 1 ELSE 0
        /\ \A k \in 1 .. Len(pass'.sent) : pass'.sent[k] = player'.frames[k]
    BY <1>1, <1>5 DEF IInv, Playing
  <2>2. /\ player'.frames \in Seq(Frame) /\ pass'.sent \in Seq(Frame)
        /\ player'.idx \in 0 .. Len(player'.frames)
    BY <1>1 DEF IInv, TypeOK, Shapes, Pass
  <2>3. Len(pass'.sent) <= Len(player'.frames)
    BY <2>1, <2>2 DEF HasFrame
  <2>4. DecodableFrom(player'.frames, pass'.from)
    BY <1>2, <2>1 DEF Recorded
  <2>5. DecodableFrom(pass'.sent, pass'.from)
    BY <2>1, <2>2, <2>3, <2>4, PrefixDecodable
  <2> QED
    BY <1>2, <2>5 DEF Decodable, DecodableFrom
<1> QED
  BY <1>3, <1>4, <1>5

LEMMA DecodableInit == Init => Recorded /\ Decodable
BY DEF Init, Recorded, Decodable, DecodableFrom, NoSession

(* What leaves in a pass can be decoded from its first frame on, whatever    *)
(* was paused, resumed, sought or torn down, for any recording whose frames  *)
(* can be decoded in their order.                                            *)
THEOREM PassesDecodable ==
    ASSUME RecordingDecodable
    PROVE  Spec => []Decodable
<1>1. IInv /\ Recorded /\ Decodable /\ [Next]_vars => (IInv /\ Recorded /\ Decodable)'
  BY InductiveStep, DecodableStep
<1>2. Init => IInv /\ Recorded /\ Decodable
  BY InductiveInit, DecodableInit
<1> QED
  BY <1>1, <1>2, PTL DEF Spec
===============================================================================
