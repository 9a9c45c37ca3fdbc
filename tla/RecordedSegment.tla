--------------------------- MODULE RecordedSegment ---------------------------
(***************************************************************************)
(* How a recording becomes the frames a playback task emits: a segment     *)
(* file's NAL units grouped into access units, the per-frame offsets of    *)
(* its sidecar (src/src/segment.rs), and the frames of all segments inside *)
(* the requested range, each segment entered at a key frame                *)
(* (src/src/playback.rs, build_frames).                                    *)
(*                                                                         *)
(* A NAL unit is its kind.  Media time is counted in the nominal frame     *)
(* interval of 25 fps (40 ms).                                             *)
(***************************************************************************)
EXTENDS Naturals, Sequences, SequencesExt

Slice   == {"idr", "non_idr"}
Kinds   == Slice \cup {"aud", "sps"}

(* A sidecar is the list of its lines: <<N>> for a parsed {"pts_ms":N}, and  *)
(* Unparsed for anything else.  A missing sidecar is a list without lines.   *)
Pts(n)   == <<n>>
Unparsed == <<>>

-------------------------------------------------------------------------------
(* Segment files.                                                          *)

(* Every slice NAL unit closes an access unit, which takes along the other   *)
(* units that precede it; units after the last slice are dropped.            *)
GroupAus(nalus) ==
    LET Take(acc, n) ==
            IF n \in Slice
            THEN [groups  |-> Append(acc.groups, [nalus |-> Append(acc.pending, n),
                                                  is_key |-> n = "idr"]),
                  pending |-> <<>>]
            ELSE [acc EXCEPT !.pending = Append(@, n)]
    IN  FoldLeft(Take, [groups |-> <<>>, pending |-> <<>>], nalus).groups

NominalPts(count) == [i \in 1 .. count |-> i - 1]

(* The offsets of the sidecar, or the nominal cadence for all of them as     *)
(* soon as the sidecar has fewer than one per access unit.                   *)
LoadPts(sidecar, count) ==
    LET pts == FlattenSeq(sidecar)
    IN  IF Len(pts) >= count THEN SubSeq(pts, 1, count) ELSE NominalPts(count)

ReadSegment(segment) ==
    LET groups == GroupAus(segment.nalus)
        pts    == LoadPts(segment.sidecar, Len(groups))
    IN  [i \in DOMAIN groups |-> [pts_offset   |-> pts[i],
                                  is_key_frame |-> groups[i].is_key]]

-------------------------------------------------------------------------------
(* The frames of a range.                                                  *)

(* RecordingSource::lookup: the segments that overlap the range.             *)
Lookup(segments, start, end) ==
    LET Overlaps(s) == s.start <= end /\ s.end >= start
    IN  SelectSeq(segments, Overlaps)

(* Entering a segment at the frame asked for, key frame or not.              *)
EveryFrame(segments, s, start, end) ==
    LET aus   == IF segments[s].readable THEN ReadSegment(segments[s]) ELSE <<>>
        frame == [i \in DOMAIN aus |->
                     [seg |-> s, au |-> i, abs |-> segments[s].start + aus[i].pts_offset,
                      is_key |-> aus[i].is_key_frame]]
    IN  SelectSeq(frame, LAMBDA f : f.abs >= start /\ f.abs <= end)

(* The access units of segment number s inside the range, from the first key *)
(* frame among them on; an unreadable segment contributes none.              *)
SegmentFrames(segments, s, start, end) ==
    LET seg      == segments[s]
        aus      == IF seg.readable THEN ReadSegment(seg) ELSE <<>>
        frame    == [i \in DOMAIN aus |->
                        [seg |-> s, au |-> i, abs |-> seg.start + aus[i].pts_offset,
                         is_key |-> aus[i].is_key_frame]]
        started  == SelectSeq(frame, LAMBDA f : f.abs >= start)
        beyond   == {i \in DOMAIN started : started[i].abs > end}
        in_range == IF beyond = {} THEN started
                    ELSE SubSeq(started, 1, (CHOOSE i \in beyond : \A j \in beyond : i <= j) - 1)
        keys     == {i \in DOMAIN in_range : in_range[i].is_key}
    IN  IF keys = {} THEN <<>>
        ELSE SubSeq(in_range, CHOOSE i \in keys : \A j \in keys : i <= j, Len(in_range))

(* All segments in order: those before the range are skipped, the first one  *)
(* past it ends the scan.                                                    *)
BuildFrames(segments, start, end) ==
    LET past    == {s \in DOMAIN segments : segments[s].start > end}
        last    == IF past = {} THEN Len(segments)
                   ELSE (CHOOSE s \in past : \A t \in past : s <= t) - 1
        Part(s) == IF segments[s].end < start THEN <<>>
                   ELSE SegmentFrames(segments, s, start, end)
    IN  FlattenSeq([s \in 1 .. last |-> Part(s)])
==============================================================================
