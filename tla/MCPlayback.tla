------------------------------ MODULE MCPlayback ------------------------------
(* Playback on a recording of two segments: the first starts with a key frame, *)
(* has another one in the middle and a sidecar too short to be used, so that   *)
(* its five frames take longer at 25 fps than they were recorded in and        *)
(* overlap the second segment, which starts with a frame that is no key frame  *)
(* and is followed by a segment that cannot be read.                           *)
EXTENDS Playback, RecordedSegment

CONSTANTS RangeEnd

Segments ==
    <<[start |-> 0, end |-> 1, readable |-> TRUE, sidecar |-> <<Pts(0), Unparsed>>,
       nalus |-> <<"sps", "idr", "non_idr", "aud", "idr", "non_idr", "non_idr">>],
      [start |-> 1, end |-> 4, readable |-> TRUE,
       sidecar |-> <<Pts(0), Unparsed, Pts(1), Pts(2), Pts(3)>>,
       nalus |-> <<"non_idr", "idr", "non_idr", "idr">>],
      [start |-> 6, end |-> 6, readable |-> FALSE, sidecar |-> <<>>, nalus |-> <<"idr">>]>>

MCTimes == {0, 1, 4}
MCRangeStart == {t \in {1} : Lookup(Segments, t, RangeEnd) # <<>>}
MCRecording ==
    [r \in MCRangeStart |-> [t \in MCTimes |-> BuildFrames(Lookup(Segments, r, RangeEnd), t, RangeEnd)]]
MCCommand == {Pause, Play(None, None), Play(0, None), Play(4, 2), Play(None, 0)}
===============================================================================
