---------------------------- MODULE ProgramStream ----------------------------
(***************************************************************************)
(* The MPEG program stream of src/src/ps.rs: the multiplexer that packs an *)
(* access unit for the platform, and the parser that takes it apart.  Bytes *)
(* are numbers, positions count from 1; the sizes that the wire format and *)
(* the code fix are parameters, so that small units reach them.            *)
(***************************************************************************)
EXTENDS Integers, Sequences, FiniteSets, SequencesExt

CONSTANTS
    MaxChunk,    \* MAX_PES_CHUNK_BYTES
    LengthCap    \* largest value of the PES_packet_length field

ASSUME ProgramStreamAssumption ==
    /\ MaxChunk \in Nat \ {0}
    /\ LengthCap \in Nat /\ LengthCap <= 65535
    /\ 13 + MaxChunk <= LengthCap

Byte == 0 .. 255

BigEndian(n) == <<n \div 256, n % 256>>

Video == 224    \* stream id 0xE0
AnyVideo == 224 .. 239

-------------------------------------------------------------------------------
(* Building.                                                               *)

(* n bits of v, from bit low up. *)
Bits(v, low, n) == (v \div 2^low) % 2^n

(* The clock is the presentation time itself, its extension zero; the mux    *)
(* rate is 10000.                                                            *)
PackHeader(base) ==
    <<0, 0, 1, 186,
      68 + Bits(base, 30, 3) * 8 + Bits(base, 28, 2),
      Bits(base, 20, 8),
      4 + Bits(base, 15, 5) * 8 + Bits(base, 13, 2),
      Bits(base, 5, 8),
      4 + Bits(base, 0, 5) * 8,
      1,
      Bits(10000, 14, 8),
      Bits(10000, 6, 8),
      3 + Bits(10000, 0, 6) * 4,
      248>>

StreamMap == <<0, 0, 1, 187, 0, 11, 1, 0, 0, 0, 4, 27, Video, 0, 0, 0, 0>>

(* A clock value in five bytes with marker bits. *)
EncodeClock(v, prefix) ==
    <<prefix * 16 + Bits(v, 30, 3) * 2 + 1,
      Bits(v, 22, 8),
      Bits(v, 15, 7) * 2 + 1,
      Bits(v, 7, 8),
      Bits(v, 0, 7) * 2 + 1>>

(* The length that was computed in 16 bits. *)
WrappedLength(header, payload) == (3 + header + Len(payload)) % (LengthCap + 1)

(* What the field says of a packet with header bytes of clocks: 0, unbounded, *)
(* past its cap.                                                             *)
PacketLength(header, payload) ==
    LET declared == 3 + header + Len(payload)
    IN IF (header = 0 /\ payload = <<>>) \/ declared > LengthCap THEN 0 ELSE declared

(* A PES packet; the first one of an access unit carries both clocks, and a  *)
(* filler byte follows the header.                                           *)
Pes(payload, clocks) ==
    <<0, 0, 1, Video>>
        \o BigEndian(PacketLength(Len(clocks), payload))
        \o <<IF clocks = <<>> THEN 0 ELSE 192, Len(clocks)>>
        \o clocks \o <<0>> \o payload

(* The NAL units behind Annex-B start codes, four bytes before the first. *)
Elementary(nalus) ==
    FlattenSeq([i \in 1 .. Len(nalus) |->
        (IF i = 1 THEN <<0, 0, 0, 1>> ELSE <<0, 0, 1>>) \o nalus[i]])

AtLeastOne(n) == IF n = 0 THEN 1 ELSE n

WholeElementary(es) == <<es>>

(* Bounded pieces of the elementary stream, one even of an empty one. *)
Pieces(es) ==
    [k \in 1 .. AtLeastOne((Len(es) + MaxChunk - 1) \div MaxChunk) |->
        SubSeq(es, (k - 1) * MaxChunk + 1,
                   IF k * MaxChunk < Len(es) THEN k * MaxChunk ELSE Len(es))]

Mux(nalus, key, pts) ==
    LET pieces == Pieces(Elementary(nalus))
        clocks(k) == IF k = 1 THEN EncodeClock(pts, 3) \o EncodeClock(pts, 1) ELSE <<>>
    IN PackHeader(pts)
         \o (IF key THEN StreamMap ELSE <<>>)
         \o FlattenSeq([k \in 1 .. Len(pieces) |-> Pes(pieces[k], clocks(k))])

-------------------------------------------------------------------------------
(* Parsing.                                                                *)

Matches(data, i, code) ==
    i + Len(code) - 1 <= Len(data) /\ SubSeq(data, i, i + Len(code) - 1) = code

(* The numbers of S among 1 .. n, as a scan comes by them. *)
Scan(S, n) ==
    LET upto[m \in 0 .. n] ==
            IF m = 0 THEN <<>>
            ELSE IF m \in S THEN Append(upto[m - 1], m) ELSE upto[m - 1]
    IN upto[n]

(* Start codes with a byte behind them. *)
StartCodes(data) == {i \in 1 .. Len(data) : i + 3 <= Len(data) /\ Matches(data, i, <<0, 0, 1>>)}

DecodeClock(b) ==
    Bits(b[1], 1, 3) * 2^30 + b[2] * 2^22 + Bits(b[3], 1, 7) * 2^15
        + b[4] * 2^7 + Bits(b[5], 1, 7)

(* The header's clock and the bytes it takes, for the MPEG-2 marker. *)
ParsePackHeader(data) ==
    [base |-> Bits(data[5], 3, 3) * 2^30 + Bits(data[6], 1, 7) * 2^15
                + Bits(data[6], 0, 1) * 2^14 + Bits(data[7], 1, 7),
     consumed |-> 11 + Bits(data[11], 0, 3)]

(* The payload of the audio or video packet at position i, <<>> when it does *)
(* not parse.                                                                *)
PesPayload(data, i) ==
    LET length == data[i + 4] * 256 + data[i + 5]
        header == data[i + 7]
        from   == i + 9 + header
        to     == IF length = 0 THEN Len(data)
                  ELSE from - 1 + (IF length > 3 + header THEN length - 3 - header ELSE 0)
    IN IF i + 8 > Len(data) \/ i + 7 + header > Len(data) THEN <<>>
       ELSE SubSeq(data, from, IF to < Len(data) THEN to ELSE Len(data))

(* Positions of video packets, in order. *)
VideoPackets(data) ==
    Scan({i \in StartCodes(data) : data[i + 3] \in AnyVideo}, Len(data))

ParseElementary(data) ==
    LET at == VideoPackets(data)
    IN FlattenSeq([k \in 1 .. Len(at) |-> PesPayload(data, at[k])])

(* Annex-B start codes: <<position, first byte of the unit>>, four bytes     *)
(* before three.                                                             *)
NalStarts(data) ==
    LET long(i)  == i >= 1 /\ Matches(data, i, <<0, 0, 0, 1>>)
        short(i) == i + 3 <= Len(data) /\ Matches(data, i, <<0, 0, 1>>) /\ ~long(i - 1)
        at == Scan({i \in 1 .. Len(data) : long(i) \/ short(i)}, Len(data))
    IN [k \in 1 .. Len(at) |-> <<at[k], at[k] + IF long(at[k]) THEN 4 ELSE 3>>]

SplitNalUnits(data) ==
    LET starts == NalStarts(data)
        stop(k) == IF k < Len(starts) THEN starts[k + 1][1] - 1 ELSE Len(data)
        filled == Scan({k \in 1 .. Len(starts) : starts[k][2] <= stop(k)}, Len(starts))
    IN IF starts = <<>> THEN (IF data = <<>> THEN <<>> ELSE <<data>>)
       ELSE [n \in 1 .. Len(filled) |->
                SubSeq(data, starts[filled[n]][2], stop(filled[n]))]

NalUnits(ps) == SplitNalUnits(ParseElementary(ps))

(* NAL units as coding standards make them: not empty, headed by a byte that *)
(* is no stream id, no start code inside, no zero at the end.                *)
NalWellFormed(nal) ==
    /\ nal # <<>>
    /\ nal[1] \notin AnyVideo
    /\ \A i \in 1 .. Len(nal) - 2 : ~(nal[i] = 0 /\ nal[i + 1] = 0 /\ nal[i + 2] = 1)
    /\ nal[Len(nal)] # 0

(* A continuation packet has a zero header before its payload: a piece that  *)
(* happens to start with 01 and a video id, after zeros or none, reads as    *)
(* one more packet.                                                          *)
FalseStart(nalus) ==
    LET pieces == Pieces(Elementary(nalus))
    IN \E k \in 2 .. Len(pieces) : \E n \in 1 .. Len(pieces[k]) - 1 :
            /\ \A i \in 1 .. n - 1 : pieces[k][i] = 0
            /\ pieces[k][n] = 1
            /\ pieces[k][n + 1] \in AnyVideo
===============================================================================
