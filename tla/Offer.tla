--------------------------------- MODULE Offer ---------------------------------
(***************************************************************************)
(* The session offer of an INVITE: the line reader SdpSession::parse       *)
(* (src/src/sip.rs), parse_invite on top of it (src/src/client.rs) and the *)
(* two answers (src/src/server.rs).  An offer is a sequence of lines       *)
(* <<letter, value>>; lines the reader skips are left out.  A media line's *)
(* value is [kind, port, tcp, types].                                      *)
(***************************************************************************)
EXTENDS Integers, Sequences, SequencesExt

Blank == [origin |-> "", name |-> "", address |-> "127.0.0.1", ssrc |-> 0,
          range |-> <<>>, media |-> <<>>]

(* An attribute belongs to the media line before it; one before any media    *)
(* line is dropped.  The last of several c=, s= or y= lines wins, and a      *)
(* range of 0 0 is none.                                                     *)
ReadLine(sdp, line) ==
    LET letter == line[1]
        value  == line[2]
        media  == sdp.media
    IN CASE letter = "o" -> [sdp EXCEPT !.origin = value]
         [] letter = "s" -> [sdp EXCEPT !.name = value]
         [] letter = "c" -> [sdp EXCEPT !.address = value]
         [] letter = "y" -> [sdp EXCEPT !.ssrc = value]
         [] letter = "t" -> IF value = <<0, 0>> THEN sdp ELSE [sdp EXCEPT !.range = value]
         [] letter = "m" -> [sdp EXCEPT !.media = Append(media, value @@ [attrs |-> <<>>])]
         [] letter = "a" -> IF media = <<>> THEN sdp
                            ELSE [sdp EXCEPT !.media[Len(media)].attrs = Append(@, value)]
         [] OTHER -> sdp

Read(lines) == FoldLeft(ReadLine, Blank, lines)

(* What SdpSession::parse and parse_invite turn away with an error. *)
Readable(sdp) == sdp.origin # "" /\ sdp.name # "" /\ sdp.media # <<>>

Lines(sdp, kind) == SelectSeq(sdp.media, LAMBDA m : m.kind = kind)

(* parse_invite expects an audio line once there is no video line. *)
Panics(sdp) == Lines(sdp, "video") = <<>> /\ Lines(sdp, "audio") = <<>>

Values(media, name) == SelectSeq(media.attrs, LAMBDA a : a[1] = name)

Has(media, name) == Values(media, name) # <<>>

(* Which side dials is the offer's setup role, passive when it says nothing *)
(* that the device knows.                                                   *)
Transport(media) ==
    IF ~media.tcp THEN "udp"
    ELSE IF Has(media, "setup") /\ Values(media, "setup")[1][2] = "active" THEN "tcp_listen"
    ELSE "tcp_connect"

Laws == [pcma |-> 8, pcmu |-> 0]   \* G.711 laws and their static payload types

(* The first law among the payload types, else among the rtpmap values, a   *)
(* type and a name that must both be the law's; none of the two is "other". *)
Codec(audio) ==
    LET law(t) == CHOOSE c \in DOMAIN Laws : Laws[c] = t
        static == SelectSeq(audio.types, LAMBDA t : \E c \in DOMAIN Laws : Laws[c] = t)
        maps   == {<<Laws[c], c>> : c \in DOMAIN Laws}
        named  == SelectSeq(Values(audio, "rtpmap"), LAMBDA a : a[2] \in maps)
    IN IF static # <<>> THEN law(static[1])
       ELSE IF named # <<>> THEN named[1][2][2]
       ELSE "other"

(* Destination, transport and direction come from the first media line,      *)
(* whatever its kind; a video line anywhere makes it a video session.        *)
Invite(sdp) ==
    LET first == sdp.media[1]
        audio == Lines(sdp, "video") = <<>>
    IN [audio     |-> audio,
        codec     |-> IF audio THEN Codec(Lines(sdp, "audio")[1]) ELSE "none",
        address   |-> sdp.address,
        port      |-> first.port,
        transport |-> Transport(first),
        recv_only |-> audio /\ Has(first, "recvonly"),
        send_only |-> audio /\ Has(first, "sendonly"),
        ssrc      |-> sdp.ssrc]

-------------------------------------------------------------------------------
NoAnswer == [kind |-> "none"]

(* Only an offer to listen gets a direction. *)
AudioAnswer(invite) ==
    [kind |-> "audio", type |-> Laws[invite.codec],
     direction |-> IF invite.recv_only THEN "sendonly" ELSE "none"]

(* The device takes the other role of the offer's. *)
VideoAnswer(invite) ==
    [kind |-> "video", tcp |-> invite.transport # "udp",
     setup |-> CASE invite.transport = "tcp_listen"  -> "passive"
                 [] invite.transport = "tcp_connect" -> "active"
                 [] OTHER -> "none"]
===============================================================================
