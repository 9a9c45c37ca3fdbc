-------------------------------- MODULE Manscdp --------------------------------
(***************************************************************************)
(* MANSCDP bodies as the device decodes and builds them                    *)
(* (src/src/manscdp.rs, the response builders of src/src/client.rs).       *)
(*                                                                         *)
(* A parsed XML body is a function from element names to contents; names   *)
(* of attributes of the root start with "@".  The content of an element is *)
(* a number, a word, Junk (text that is neither), a function (children) or *)
(* a sequence (a repeated element).  A blank element counts as missing.    *)
(* The SIP headers around a body are left out.                             *)
(***************************************************************************)
EXTENDS Integers, Sequences, SequencesExt, FiniteSetsExt, TLC

CONSTANTS
    Absent, \* None
    Junk    \* text that does not parse as what it stands for

Nothing == <<>>   \* no further elements

(* More elements; the first keep theirs.                                     *)
f ++ g == [x \in DOMAIN f \cup DOMAIN g |-> IF x \in DOMAIN f THEN f[x] ELSE g[x]]

(* empty_string_as_none.                                                     *)
Text(b, name) == IF name \in DOMAIN b THEN b[name] ELSE Absent

(* parse().ok() of a text, missing or not.                                   *)
Num(b, name) == IF Text(b, name) \in Nat THEN b[name] ELSE Absent

AllNum(b, names) == \A name \in names : Num(b, name) # Absent

(* Children that are kept only when they parse.                              *)
Optional(b, names) == [name \in {n \in names : Num(b, n) # Absent} |-> b[name]]

Items(b, name) == IF name \in DOMAIN b THEN b[name] ELSE <<>>

-------------------------------------------------------------------------------
(* Queries.                                                                *)

QueryOf(cmd, b, at) ==
    [cmd |-> cmd, sn |-> b[at["SN"]], device |-> b[at["DeviceID"]],
     start |-> Text(b, at["StartTime"]), end |-> Text(b, at["EndTime"]),
     number |-> IF at["SN"] = "SN" THEN Text(b, "Number") ELSE Absent,
     config_type |-> Text(b, at["ConfigType"])]

AsChild ==
    [CmdType |-> "CmdType", SN |-> "SN", DeviceID |-> "DeviceID", StartTime |-> "StartTime",
     EndTime |-> "EndTime", ConfigType |-> "ConfigType"]
AsAttribute ==
    [CmdType |-> "@CmdType", SN |-> "@SN", DeviceID |-> "@DeviceID", StartTime |-> "@StartTime",
     EndTime |-> "@EndTime", ConfigType |-> "@ConfigType"]

(* Child elements first, attributes of the root otherwise.                   *)
ParseQueryDual(b) ==
    LET Complete(at) == {at["CmdType"], at["SN"], at["DeviceID"]} \subseteq DOMAIN b
        Query(at)    == QueryOf(b[at["CmdType"]], b, at)
    IN  IF Complete(AsChild) THEN Query(AsChild)
        ELSE IF Complete(AsAttribute) THEN Query(AsAttribute)
        ELSE Absent

(* A bound that is missing or does not parse is None.                        *)
ParseRecordInfoQuery(b) ==
    LET q == ParseQueryDual(b)
        Bound(t) == IF t \in Nat THEN t ELSE Absent
    IN  IF q = Absent THEN Absent
        ELSE IF q.cmd # "RecordInfo" THEN Absent
        ELSE [q EXCEPT !.start = Bound(@), !.end = Bound(@)]

-------------------------------------------------------------------------------
(* DeviceControl.                                                          *)

PtzCommand(op, a, b, c) == [op |-> op, a |-> a, b |-> b, c |-> c]

(* The 8-byte A5 command: start byte, combination code, address, code, three *)
(* data bytes, checksum.  The decode is total.                               *)
ParsePtzCommand(raw) ==
    LET Checksum == (raw[1] + raw[2] + raw[3] + raw[4] + raw[5] + raw[6] + raw[7]) % 256
        code == raw[4]
    IN  IF raw = Junk THEN PtzCommand("invalid", 0, 0, 0)
        ELSE IF Len(raw) # 8 THEN PtzCommand("invalid", 0, 0, 0)
        ELSE IF raw[1] # 165 \/ raw[8] # Checksum THEN PtzCommand("invalid", 0, 0, 0)
        ELSE CASE code \in 0 .. 63    -> PtzCommand("move", code, raw[5], raw[6]) ++ [d |-> raw[7]]
               [] code \in 64 .. 79   -> PtzCommand("lens", code % 16, raw[5], raw[6])
               [] code \in 129 .. 131 -> PtzCommand("preset", code - 129, raw[7], 0)
               [] code \in 132 .. 136 -> PtzCommand("cruise", code - 132, raw[5], raw[7])
               [] code \in {140, 141} -> PtzCommand("aux", raw[5], 141 - code, 0)
               [] OTHER -> PtzCommand("unknown", code, raw[5], raw[6]) ++ [d |-> raw[7]]

DragZoomFields == {"Length", "Width", "MidPointX", "MidPointY", "LengthX", "LengthY"}

(* One-word commands and their words.                                        *)
Words == [IFrameCmd |-> {"Send"}, RecordCmd |-> {"Record", "StopRecord"},
          GuardCmd |-> {"SetGuard", "ResetGuard"}, AlarmCmd |-> {"ResetAlarm"},
          TeleBoot |-> {"Boot"}]

(* The order in which sub-commands are looked for.                           *)
ControlOrder == <<"IFrameCmd", "RecordCmd", "GuardCmd", "AlarmCmd", "TeleBoot", "HomePosition",
                  "DragZoomIn", "DragZoomOut", "FormatSDCard", "PTZPreciseCtrl",
                  "DeviceUpgrade", "PTZCmd">>

ConfigOrder == <<"BasicParam", "FrameMirror", "AlarmReport", "VideoParamAttribute",
                 "VideoRecordPlan", "VideoAlarmRecord", "PictureMask", "OSDConfig">>

(* Elements that are passed over, as if missing, when they do not parse.     *)
PassedOver == {"FormatSDCard", "FrameMirror"}

(* The sub-command of a body: the first of the list that is there.           *)
Chosen(b, order) ==
    LET Candidate(i) == order[i] \in DOMAIN b
                        /\ (order[i] \in PassedOver => b[order[i]] \in Nat)
        found == {i \in DOMAIN order : Candidate(i)}
    IN  IF found = {} THEN Absent ELSE order[Min(found)]

(* What the sub-command asks for, or Absent when it does not parse.          *)
ControlValue(kind, v) ==
    CASE kind \in DOMAIN Words -> IF v \in Words[kind] THEN v ELSE Absent
      [] kind = "HomePosition" ->
            IF AllNum(v, {"Enabled"})
            THEN Optional(v, {"Enabled", "ResetTime", "PresetIndex"}) ELSE Absent
      [] kind \in {"DragZoomIn", "DragZoomOut"} ->
            IF AllNum(v, DragZoomFields) THEN Optional(v, DragZoomFields) ELSE Absent
      [] kind = "FormatSDCard" -> v
      [] kind = "PTZPreciseCtrl" -> Optional(v, {"Pan", "Tilt", "Zoom"})
      [] kind = "DeviceUpgrade" -> IF {"Firmware", "FileURL"} \subseteq DOMAIN v THEN v ELSE Absent
      [] kind = "PTZCmd" -> ParsePtzCommand(v)

Command(b, kind, value) ==
    [sn |-> Text(b, "SN"), device |-> Text(b, "DeviceID"), kind |-> kind, value |-> value]

ParseDeviceControl(b) ==
    LET kind  == Chosen(b, ControlOrder)
    IN  IF Text(b, "CmdType") # "DeviceControl" \/ kind = Absent THEN Absent
        ELSE IF ControlValue(kind, b[kind]) = Absent THEN Absent
        ELSE Command(b, kind, ControlValue(kind, b[kind]))

-------------------------------------------------------------------------------
(* DeviceConfig.                                                           *)

Required ==
    [BasicParam |-> {}, AlarmReport |-> {"MotionDetection", "FieldDetection"},
     VideoParamAttribute |-> {}, VideoRecordPlan |-> {"RecordEnable", "StreamNumber"},
     VideoAlarmRecord |-> {"RecordEnable", "StreamNumber"}, PictureMask |-> {"On", "SumNum"},
     OSDConfig |-> {"Length", "Width", "TimeX", "TimeY", "SumNum"}]

KeptIfNumber ==
    [BasicParam |-> {"Expiration", "HeartBeatInterval", "HeartBeatCount"}, AlarmReport |-> {},
     VideoParamAttribute |-> {"Num"}, VideoRecordPlan |-> {},
     VideoAlarmRecord |-> {"RecordTime", "PreRecordTime"}, PictureMask |-> {},
     OSDConfig |-> {"TimeEnable", "TimeType", "TextEnable"}]

(* The list a configuration carries and the numbers each entry must have.    *)
EntryFields == [VideoParamAttribute |-> {"StreamNumber"}, VideoRecordPlan |-> {"WeekDayNum"},
                PictureMask |-> {"Seq"}, OSDConfig |-> {"X", "Y"}]

SegmentFields == {"StartHour", "StartMin", "StartSec", "StopHour", "StopMin", "StopSec"}

EntryParses(kind, e) ==
    /\ AllNum(e, EntryFields[kind])
    /\ \A i \in DOMAIN Items(e, "TimeSegment") : AllNum(e["TimeSegment"][i], SegmentFields)

(* One entry that does not parse fails the list.                             *)
Entries(kind, list) ==
    IF \A i \in DOMAIN list : EntryParses(kind, list[i]) THEN list ELSE Absent

(* A mask whose region list does not parse has no regions.                   *)
ConfigList(kind, list) ==
    IF kind = "PictureMask" /\ Entries(kind, list) = Absent THEN <<>> ELSE Entries(kind, list)

ConfigValue(kind, v) ==
    LET fields == Optional(v, Required[kind] \cup KeptIfNumber[kind])
                  ++ [n \in {"Name"} \cap DOMAIN v |-> v[n]]
    IN  IF kind = "FrameMirror" THEN v
        ELSE IF ~AllNum(v, Required[kind]) THEN Absent
        ELSE IF kind \notin DOMAIN EntryFields THEN fields
        ELSE LET list == ConfigList(kind, Items(v, "Item"))
             IN  IF list = Absent THEN Absent ELSE fields ++ [Item |-> list]

ParseDeviceConfig(b) ==
    LET kind  == Chosen(b, ConfigOrder)
    IN  IF Text(b, "CmdType") # "DeviceConfig" \/ kind = Absent THEN Absent
        ELSE IF ConfigValue(kind, b[kind]) = Absent THEN Absent
        ELSE Command(b, kind, ConfigValue(kind, b[kind]))

(* DeviceConfig with a complete SnapShotConfig, all of whose texts are       *)
(* required.                                                                 *)
ParseConfigSnapshot(b) ==
    LET Complete(v) == /\ AllNum(v, {"SnapNum"} \cup ({"Interval"} \cap DOMAIN v))
                       /\ {"UploadURL", "SessionID"} \subseteq DOMAIN v
    IN  IF {"SN", "DeviceID", "SnapShotConfig"} \subseteq DOMAIN b
               /\ Text(b, "CmdType") = "DeviceConfig"
        THEN IF Complete(b["SnapShotConfig"])
             THEN Command(b, "SnapShotConfig", b["SnapShotConfig"]) ELSE Absent
        ELSE Absent

(* The voice broadcast notification, in either form.                         *)
ParseBroadcastNotify(b) ==
    LET Complete(names) == names \subseteq DOMAIN b
        Notify(cmd, sn, source) ==
            IF cmd = "Broadcast" /\ sn \in Nat THEN [sn |-> sn, source |-> source] ELSE Absent
    IN  IF Complete({"CmdType", "SN", "SourceID", "TargetID"})
        THEN Notify(b["CmdType"], b["SN"], b["SourceID"])
        ELSE IF Complete({"@CmdType", "@SN", "@SourceID", "@TargetID"})
        THEN Notify(b["@CmdType"], b["@SN"], b["@SourceID"])
        ELSE Absent

-------------------------------------------------------------------------------
(* Answers.                                                                *)

Answer(cmd, sn, device, content) ==
    [kind |-> "answer", cmd |-> cmd, sn |-> sn, device |-> device] ++ content

BuildPresetListResponse(sn, device, presets) ==
    Answer("PresetQuery", sn, device, [sum_num |-> Len(presets), items |-> presets])

(* Every page carries the total.                                             *)
BuildCatalogResponsePage(sn, device, items, sum_num) ==
    Answer("Catalog", sn, device, [sum_num |-> sum_num, num |-> Len(items), items |-> items])

BuildRecordInfoResponsePage(sn, device, items, sum_num) ==
    Answer("RecordInfo", sn, device, [sum_num |-> sum_num, num |-> Len(items), items |-> items])

BuildDeviceInfoResponse(sn, device, info) ==
    Answer("DeviceInfo", sn, device, [result |-> "OK", info |-> info])

BuildDeviceStatusResponse(sn, device, recording) ==
    Answer("DeviceStatus", sn, device, [result |-> "OK", record |-> recording])

BuildHomePositionResponse(sn, device, info) ==
    Answer("HomePositionQuery", sn, device,
           IF info = Absent THEN Nothing ELSE [home_position |-> info])

Listed(list) ==
    IF list = Absent THEN [sum_num |-> 0]
    ELSE [sum_num |-> Len(list), num |-> Len(list), items |-> list]

BuildCruiseTrackListResponse(sn, device, tracks) ==
    Answer("CruiseTrackListQuery", sn, device, Listed(tracks))

BuildCruiseTrackResponse(sn, device, number, points) ==
    Answer("CruiseTrackQuery", sn, device, [number |-> number] ++ Listed(points))

BuildPtzPositionResponse(sn, device, position) ==
    Answer("PTZPosition", sn, device, IF position = Absent THEN Nothing ELSE position)

(* The schema's limit on storage cards.                                      *)
MaxCards == 8

BuildSdCardStatusResponse(sn, device, cards) ==
    Answer("SDCardStatus", sn, device,
           Listed(IF cards = Absent THEN Absent
                  ELSE SubSeq(cards, 1, Min({MaxCards, Len(cards)}))))

(* The minimal answer, with the number of the track when it parses.          *)
BuildGb2022QueryResponse(cmd, sn, device, number) ==
    Answer(cmd, sn, device,
           (IF cmd \in {"CruiseTrackListQuery", "CruiseTrackQuery", "SDCardStatus"}
            THEN [sum_num |-> 0] ELSE Nothing)
           ++ (IF cmd = "CruiseTrackQuery" /\ number \in Nat THEN [number |-> number] ELSE Nothing))

BuildConfigDownloadResponse(sn, device, basic, video_param_opt) ==
    Answer("ConfigDownload", sn, device,
           [result |-> "OK"] ++ (IF basic = Absent THEN Nothing ELSE [basic |-> basic])
           ++ (IF video_param_opt = Absent THEN Nothing ELSE [video_param_opt |-> video_param_opt]))

BuildControlRejectResponse(cmd, sn, device) == Answer(cmd, sn, device, [result |-> "ERROR"])

BuildDeviceConfigResponse(ok, sn, device) ==
    Answer("DeviceConfig", sn, device, [result |-> IF ok THEN "OK" ELSE "ERROR"])

BuildBroadcastResponse(sn, device, ok) ==
    Answer("Broadcast", sn, device, [result |-> IF ok THEN "OK" ELSE "ERROR"])

Notify(cmd, sn, device, session, content) ==
    [kind |-> "notify", cmd |-> cmd, sn |-> sn, device |-> device, session |-> session] ++ content

(* An empty list reports a failed exchange.                                  *)
BuildUploadSnapshotFinished(sn, device, session, files) ==
    Notify("UploadSnapShotFinished", sn, device, session, [files |-> files])

BuildDeviceUpgradeResult(sn, device, session, ok, reason) ==
    Notify("DeviceUpgradeResult", sn, device, session,
           [result |-> IF ok THEN "OK" ELSE "ERROR"]
           ++ (IF ok THEN Nothing ELSE [reason |-> reason]))
===============================================================================
