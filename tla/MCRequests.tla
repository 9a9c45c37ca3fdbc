------------------------------ MODULE MCRequests ------------------------------
(***************************************************************************)
(* Bodies and host data for the model checker.                             *)
(***************************************************************************)
EXTENDS Requests

Query(cmd) == [CmdType |-> cmd, DeviceID |-> "d"]
AttrQuery(cmd) == [n \in {"@CmdType", "@DeviceID"} |-> IF n = "@CmdType" THEN cmd ELSE "d"]
Control(content) == Query("DeviceControl") ++ content
Config(content)  == Query("DeviceConfig") ++ content

Window(start, end) == [StartTime |-> start, EndTime |-> end]

Queries ==
    { Query("Catalog"), AttrQuery("Catalog"), Query("PresetQuery"), Query("DeviceInfo"),
      Query("DeviceStatus"), Query("PTZPosition"), Query("SDCardStatus"),
      Query("HomePositionQuery"), Query("CruiseTrackListQuery"), Query("HomePosition"),
      Query("Unknown"), Nothing, Query("CruiseTrackQuery") ++ [Number |-> 3],
      Query("ConfigDownload") ++ [ConfigType |-> {"BasicParam", "VideoParamOpt"}],
      Query("RecordInfo") ++ Window(2, 7), Query("RecordInfo") ++ Window(0, 9),
      Query("RecordInfo") ++ Window(Junk, 9), Query("RecordInfo") ++ Window(8, 9) }

Ptz == <<165, 15, 1, 8, 0, 32, 0, 221>>

Controls ==
    { Control([IFrameCmd |-> "Send"]), Control([IFrameCmd |-> Junk, PTZCmd |-> Ptz]),
      Control([PTZCmd |-> Ptz, GuardCmd |-> "SetGuard"]),
      Control([FormatSDCard |-> Junk, PTZCmd |-> Junk]),
      Control([HomePosition |-> [Enabled |-> 1, ResetTime |-> Junk]]),
      Control([HomePosition |-> [Enabled |-> Junk]]),
      Control([DragZoomIn |-> [n \in DragZoomFields |-> 4]]),
      Control([DeviceUpgrade |-> [Firmware |-> "f", FileURL |-> "u", SessionID |-> "s"]]),
      Control([DeviceUpgrade |-> [Firmware |-> "f"]]), Control(Nothing) }

Osd(list) == [OSDConfig |-> [n \in Required["OSDConfig"] |-> 1] ++ [Item |-> list]]
Mask(list) == [PictureMask |-> [On |-> 1, SumNum |-> 1, Item |-> list]]
Snapshot == [SnapShotConfig |-> [SnapNum |-> 1, UploadURL |-> "u", SessionID |-> "s"]]

Configs ==
    { Config([BasicParam |-> [Name |-> "n", Expiration |-> Junk]]), Config([FrameMirror |-> 1]),
      Config([FrameMirror |-> Junk]), Config([AlarmReport |-> [MotionDetection |-> 1]]),
      Config(Osd(<<[X |-> 1, Y |-> 2]>>)), Config(Osd(<<[X |-> 1, Y |-> 2], [X |-> Junk, Y |-> 2]>>)),
      Config(Mask(<<[Seq |-> Junk]>>)), Config(Snapshot), Config(Snapshot ++ [FrameMirror |-> 1]),
      Config([SN |-> Junk] ++ Snapshot), Config([SnapShotConfig |-> [SnapNum |-> Junk]]) }

BroadcastNotify == [CmdType |-> "Broadcast", SourceID |-> "s", TargetID |-> "d"]

MCBodies == Queries \cup Controls \cup Configs \cup {BroadcastNotify}

MCLater == { Query("Catalog"), Query("RecordInfo") ++ Window(2, 7), Config(Snapshot),
             Control([PTZCmd |-> Ptz]) }

MCHosts == {HostSeams, {}, {"control", "config"}, {"snapshot", "upgrade", "config"}}

(* The host's configuration handler acts on the basic parameters alone.    *)
MCActedOn == {"BasicParam"}

MCSegments == <<[start |-> 0, end |-> 2], [start |-> 3, end |-> 4], [start |-> 5, end |-> 7]>>

MCExtra == <<"c1", "c2">>

(* The hypotheses of the theorems about Requests hold of this instance.    *)
ASSUME InstanceWellFormed == BodiesWellFormed /\ ListsDistinct

MCInfoData ==
    [HomePositionQuery |-> [enabled |-> 1], CruiseTrackListQuery |-> <<"t">>,
     CruiseTrackQuery |-> <<"p1", "p2">>, PTZPosition |-> [pan |-> 1], SDCardStatus |-> <<"card">>]
===============================================================================
