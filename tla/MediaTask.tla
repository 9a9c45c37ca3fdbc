------------------------------- MODULE MediaTask -------------------------------
(***************************************************************************)
(* The task of a live session (run_media_task in src/src/server.rs): it    *)
(* takes access units from the channel its bridge fills, multiplexes each  *)
(* one and sends the pieces as RTP packets, over UDP or framed on a TCP    *)
(* stream that either side dialled.  A send may fail at any packet; a peer *)
(* that fails too often in a row loses the session.                        *)
(*                                                                         *)
(* The platform's view is the sequence of packets on the wire.  Sequence   *)
(* numbers and timestamps wrap, at bounds a short run can reach.           *)
(***************************************************************************)
EXTENDS ProgramStream

CONSTANTS
    Content,     \* access units: [nalus, key] records
    Gap,         \* milliseconds between two captures
    MaxPayload,  \* MAX_RTP_PAYLOAD
    SeqSpace,      \* 2^16, the RTP sequence numbers
    ClockSpace,    \* 2^32, the RTP clock
    TearDownAus, \* MEDIA_TEARDOWN_FAILED_AUS
    MaxAus       \* bound: access units of a session

ASSUME MediaTaskAssumption ==
    /\ \A c \in Content : c.nalus \in Seq(Seq(Byte)) /\ c.key \in BOOLEAN
    /\ Gap \subseteq Nat
    /\ MaxPayload \in Nat \ {0}
    /\ TearDownAus \in Nat \ {0}
    /\ SeqSpace \in Nat /\ SeqSpace > TearDownAus
    /\ ClockSpace \in Nat /\ ClockSpace > 9000000
    /\ MaxAus \in Nat

VARIABLES
    phase,   \* "accepting", "idle", "sending", "torn_down" or "ended"
    tcp,     \* whether the packets go over a stream
    broken,  \* whether that stream has failed
    seq,     \* RtpPusher::sequence_number
    clock,   \* RtpPusher::timestamp
    pts,     \* the program stream's clock
    streak,  \* MediaSendPolicy::consecutive_failed_aus
    pieces,  \* pieces of the current unit still to send
    delta,   \* its clock increment
    aus,     \* history: the units taken, with what became of them
    wire     \* history: packets that reached the platform

vars == <<phase, tcp, broken, seq, clock, pts, streak, pieces, delta, aus, wire>>

Unit == [nalus : {c.nalus : c \in Content}, key : BOOLEAN, gap : Nat,
         pts : Nat, clock : Nat, fate : {"open", "sent", "cut"}]

TypeOK ==
    /\ phase \in {"accepting", "idle", "sending", "torn_down", "ended"}
    /\ tcp \in BOOLEAN
    /\ broken \in BOOLEAN
    /\ seq \in 0 .. SeqSpace - 1
    /\ clock \in 0 .. ClockSpace - 1
    /\ pts \in Nat
    /\ streak \in 0 .. TearDownAus
    /\ pieces \in Seq(Seq(Byte))
    /\ delta \in Nat
    /\ aus \in Seq(Unit)
    /\ wire \in Seq([seq : Nat, clock : Nat, marker : BOOLEAN, payload : Seq(Byte)])

(* A passive TCP answer waits for the platform's dial first. *)
Init ==
    /\ phase \in {"accepting", "idle"}
    /\ tcp \in BOOLEAN
    /\ phase = "accepting" => tcp
    /\ broken = FALSE
    /\ seq = 0
    /\ clock = 0
    /\ pts = 0
    /\ streak = 0
    /\ pieces = <<>>
    /\ delta = 0
    /\ aus = <<>>
    /\ wire = <<>>

-------------------------------------------------------------------------------
(* The passive listener.  Frames that come before the dial are dropped.      *)
PlatformDials ==
    /\ phase = "accepting"
    /\ phase' = "idle"
    /\ UNCHANGED <<tcp, broken, seq, clock, pts, streak, pieces, delta, aus, wire>>

(* The channel closes, or accepting fails, or the task is aborted by a BYE,  *)
(* a new INVITE or a shutdown: at any await, in the middle of a unit too.    *)
Ends ==
    /\ phase \in {"accepting", "idle", "sending"}
    /\ phase' = "ended"
    /\ UNCHANGED <<tcp, broken, seq, clock, pts, streak, pieces, delta, aus, wire>>

-------------------------------------------------------------------------------
UnclampedTicks(gap) == gap * 90

(* The ticks between two captures, at least one and at most 100 s.           *)
Ticks(gap) ==
    IF gap * 90 < 1 THEN 1 ELSE IF gap * 90 > 9000000 THEN 9000000 ELSE gap * 90

(* The first unit takes the nominal frame duration. *)
Delta(gap) == IF aus = <<>> THEN 3000 ELSE Ticks(gap)

Chunks(ps) ==
    [k \in 1 .. (Len(ps) + MaxPayload - 1) \div MaxPayload |->
        SubSeq(ps, (k - 1) * MaxPayload + 1,
                   IF k * MaxPayload < Len(ps) THEN k * MaxPayload ELSE Len(ps))]

TakeUnit(c, gap) ==
    /\ phase = "idle"
    /\ Len(aus) < MaxAus
    /\ phase' = "sending"
    /\ delta' = Delta(gap)
    /\ pts' = pts + Delta(gap)
    /\ pieces' = Chunks(Mux(c.nalus, c.key, pts + Delta(gap)))
    /\ aus' = Append(aus, [nalus |-> c.nalus, key |-> c.key, gap |-> gap,
                           pts |-> pts + Delta(gap), clock |-> clock, fate |-> "open"])
    /\ UNCHANGED <<tcp, broken, seq, clock, streak, wire>>

-------------------------------------------------------------------------------
(* The number is spent before the send. *)
NextSeq == (seq + 1) % SeqSpace

Fate(f) == [aus EXCEPT ![Len(aus)].fate = f]

StalledClock == clock

NextClock == (clock + delta) % ClockSpace

PacketReaches ==
    wire' = Append(wire, [seq |-> seq, clock |-> clock,
                          marker |-> Len(pieces) = 1, payload |-> Head(pieces)])

SendPacket ==
    /\ phase = "sending"
    /\ Len(pieces) > 1
    /\ ~broken
    /\ PacketReaches
    /\ seq' = NextSeq
    /\ pieces' = Tail(pieces)
    /\ UNCHANGED <<phase, tcp, broken, clock, pts, streak, delta, aus>>

StreakKept == streak

(* record_success: any unit sent whole ends the streak. *)
StreakReset == 0

SendLast ==
    /\ phase = "sending"
    /\ Len(pieces) = 1
    /\ ~broken
    /\ PacketReaches
    /\ seq' = NextSeq
    /\ clock' = NextClock
    /\ streak' = StreakReset
    /\ pieces' = <<>>
    /\ aus' = Fate("sent")
    /\ phase' = "idle"
    /\ UNCHANGED <<tcp, broken, pts, delta>>

SeqWithoutFailed == seq

SeqAfterFailure == NextSeq

(* The rest of the unit is given up.  A stream that failed once stays so; a  *)
(* UDP send says nothing of the next one.                                    *)
SendFails ==
    /\ phase = "sending"
    /\ seq' = SeqAfterFailure
    /\ broken' = tcp
    /\ pieces' = <<>>
    /\ aus' = Fate("cut")
    /\ streak' = streak + 1
    /\ IF streak + 1 >= TearDownAus
       THEN phase' = "torn_down" /\ clock' = clock
       ELSE phase' = "idle" /\ clock' = NextClock
    /\ UNCHANGED <<tcp, pts, delta, wire>>

-------------------------------------------------------------------------------
Next ==
    \/ PlatformDials
    \/ \E c \in Content, gap \in Gap : TakeUnit(c, gap)
    \/ SendPacket
    \/ SendLast
    \/ SendFails
    \/ Ends

Spec == Init /\ [][Next]_vars

-------------------------------------------------------------------------------
(* Properties.                                                             *)

(* Two packets of one frame to a receiver: numbers in sequence, one clock.   *)
Joined(i) ==
    /\ wire[i + 1].seq = (wire[i].seq + 1) % SeqSpace
    /\ wire[i + 1].clock = wire[i].clock

(* A frame a receiver takes for complete: joined packets up to a marker, the *)
(* first of them not joined to the one before it.                            *)
Frame(j, i) ==
    /\ j = 1 \/ ~Joined(j - 1)
    /\ \A x \in j .. i - 1 : Joined(x)
    /\ wire[i].marker

Received(j, i) == FlattenSeq([x \in 1 .. i - j + 1 |-> wire[j + x - 1].payload])

(* The parser gives the unit u back.  A false start code at the head of a    *)
(* continuation packet is the one exception.                                 *)
GivesBack(ps, u) == NalUnits(ps) = u.nalus \/ FalseStart(u.nalus)

(* A unit sent whole comes out of the platform's end as it went in: it is a  *)
(* frame there, every frame is such a unit, and the parser gives back its    *)
(* NAL units, however the unit is cut into PES and RTP packets and whatever  *)
(* failed around it.                                                         *)
UnitsSurvive ==
    /\ \A i \in 1 .. Len(wire), j \in 1 .. Len(wire) :
          j <= i /\ Frame(j, i) =>
              \E k \in 1 .. Len(aus) : /\ aus[k].fate = "sent" /\ aus[k].clock = wire[i].clock
                                       /\ GivesBack(Received(j, i), aus[k])
    /\ \A k \in 1 .. Len(aus) :
          aus[k].fate = "sent" =>
              \E i \in 1 .. Len(wire) : \E j \in 1 .. i :
                  Frame(j, i) /\ aus[k].clock = wire[i].clock
                  /\ GivesBack(Received(j, i), aus[k])

(* Every video packet has a length, and the first carries the unit's clock,  *)
(* modulo 2^33 (in two parts: TLC's integers have 32 bits).                  *)
Declares(ps, u) ==
    LET at == VideoPackets(ps)
    IN \/ FalseStart(u.nalus)
       \/ /\ at # <<>>
          /\ \A n \in 1 .. Len(at) : ps[at[n] + 4] * 256 + ps[at[n] + 5] > 0
          /\ DecodeClock(SubSeq(ps, at[1] + 8, at[1] + 12))
                = Bits(u.pts, 30, 3) * 2^30 + (u.pts % 2^30)

(* Every PES packet of a unit carries its length: none is unbounded, and the *)
(* clock of the first reads back as the unit's.  "mux must never emit these" *)
(* (src/src/ps.rs:785).                                                      *)
PacketsBounded ==
    \A i \in 1 .. Len(wire), j \in 1 .. Len(wire) :
        j <= i /\ Frame(j, i) =>
            \E k \in 1 .. Len(aus) : /\ aus[k].fate = "sent" /\ aus[k].clock = wire[i].clock
                                     /\ Declares(Received(j, i), aus[k])

(* A receiver sees every loss: two packets that follow each other in the     *)
(* sequence numbers belong to one unit, or the first ends its unit.          *)
LossVisible ==
    \A i \in 1 .. Len(wire) - 1 :
        wire[i + 1].seq = (wire[i].seq + 1) % SeqSpace =>
            wire[i].marker <=> wire[i].clock # wire[i + 1].clock

(* The packets j to i carry the clock and the bytes of the unit u.           *)
FrameIs(j, i, u) ==
    /\ wire[i].clock = u.clock
    /\ Received(j, i) = Mux(u.nalus, u.key, u.pts)

(* What a receiver takes for complete is one unit and all of it: a frame     *)
(* with a marker and no gap joins to the program stream of a unit that was   *)
(* sent whole, whatever failed before, between and after, and every unit     *)
(* sent whole is such a frame.                                               *)
FramesWhole ==
    /\ \A i \in 1 .. Len(wire), j \in 1 .. Len(wire) :
          j <= i /\ Frame(j, i) =>
              \E k \in 1 .. Len(aus) : aus[k].fate = "sent" /\ FrameIs(j, i, aus[k])
    /\ \A k \in 1 .. Len(aus) :
          aus[k].fate = "sent" =>
              \E i \in 1 .. Len(wire) : \E j \in 1 .. i : Frame(j, i) /\ FrameIs(j, i, aus[k])

(* The session is given up after TearDownAus units in a row failed, not for  *)
(* failures spread over it and not later.  One packet that failed makes a    *)
(* unit a failed one, whatever packets of it were delivered before.          *)
TornDownByStreak ==
    LET cut(k) == \A i \in k - TearDownAus + 1 .. k : aus[i].fate = "cut"
    IN /\ phase = "torn_down" => Len(aus) >= TearDownAus /\ cut(Len(aus))
       /\ \A k \in TearDownAus .. Len(aus) :
            cut(k) => phase = "torn_down" /\ k = Len(aus)

(* "RTP timestamps derived from real capture time (any frame rate)": between *)
(* two units the RTP clock advances by the time between their captures.      *)
ClockFollowsCapture ==
    \A k \in 2 .. Len(aus) :
        (aus[k].clock - aus[k - 1].clock) % ClockSpace = Ticks(aus[k].gap)

(* A pack header built by the device reads back in its own parser.           *)
PackHeaderReadsBack ==
    \A k \in 1 .. Len(aus) :
        ParsePackHeader(PackHeader(aus[k].pts)) = [base |-> aus[k].pts, consumed |-> 14]

(* "Consecutive access units with zero successful packets that trigger a     *)
(* media-session teardown" (src/src/server.rs:4303): of the units a session  *)
(* is given up for, no packet was delivered.  A packet is a unit's by its    *)
(* clock, which no two units share until ClockSpace wraps.                   *)
TornDownUnsent ==
    phase = "torn_down" =>
        \A k \in Len(aus) - TearDownAus + 1 .. Len(aus), i \in 1 .. Len(wire) :
            wire[i].clock # aus[k].clock

(* Without the exception of UnitsSurvive.                                    *)
EveryUnitSurvives ==
    \A k \in 1 .. Len(aus) :
        aus[k].fate = "sent" =>
            NalUnits(Mux(aus[k].nalus, aus[k].key, aus[k].pts)) = aus[k].nalus
===============================================================================
