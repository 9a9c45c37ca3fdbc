------------------------------- MODULE Requests -------------------------------
(***************************************************************************)
(* The platform's MESSAGE requests and what the device makes of them:      *)
(* handle_message with build_query_response and the detached snapshot and  *)
(* upgrade exchanges (src/src/server.rs).                                  *)
(*                                                                         *)
(* The SIP loop handles one request at a time, as the list of effects the  *)
(* code goes through: messages sent (and the pauses before them), hooks of *)
(* the host called, exchanges spawned.  Exchanges run beside the loop and  *)
(* report over the transport they were bound to when spawned.  A stream    *)
(* connection may drop between any two effects; on UDP requests may come   *)
(* twice.  INVITE, BYE, INFO and SUBSCRIBE belong to other modules.        *)
(***************************************************************************)
EXTENDS Manscdp

CONSTANTS
    Hosts,         \* what the host may have installed
    ActedOn,       \* configurations whose hook is not the no-op default
    Bodies,        \* bodies the platform sends first, without their SN
    LaterBodies,   \* bound: bodies it sends after that
    OwnDevice,     \* config.device_id
    ExtraChannels, \* config.extra_channels
    Segments,      \* the recordings behind recording_index
    InfoData,      \* what an info_query_provider returns
    PageItems,     \* RESPONSE_PAGE_ITEMS
    MaxRequests,   \* bound: requests
    MaxCopies,     \* bound: receptions of one request
    MaxDrops       \* bound: connections dropped

HostSeams == {"control", "config", "snapshot", "upgrade", "provider", "audio_sink"}

ASSUME RequestsAssumption ==
    /\ Hosts \subseteq SUBSET HostSeams
    /\ PageItems \in Nat \ {0}
    /\ ExtraChannels \in Seq(ToSet(ExtraChannels))
    /\ Segments \in Seq(ToSet(Segments))
    /\ \A i \in DOMAIN Segments : {Segments[i].start, Segments[i].end} \subseteq Nat
    /\ {MaxRequests, MaxDrops} \subseteq Nat /\ MaxCopies \in Nat \ {0}

VARIABLES
    host,     \* the seams the host installed
    received, \* requests, each known by its place
    copies,   \* receptions of each
    handler,  \* the request in hand and the effects that remain
    link,     \* whether it is a stream (TCP, TLS), its number, whether it is up
    tasks,    \* exchanges under way
    sent,     \* messages on the wire, with the request each is about
    executed, \* calls of the host's hooks
    cut,      \* history: requests whose answer a dropped connection cut short
    lost      \* history: requests whose report a dropped connection took

requestsVars == <<host, received, copies, handler, link, tasks, sent, executed, cut, lost>>

Idle == [about |-> 0, todo |-> <<>>]
Id   == 1 .. Len(received)

RequestsTypeOK ==
    /\ host \in Hosts
    /\ \A i \in Id : received[i].method \in {"MESSAGE", "OPTIONS", "CANCEL", "NOTIFY"}
                     /\ received[i].note \in BOOLEAN /\ received[i].manscdp \in BOOLEAN
    /\ DOMAIN copies = Id /\ \A i \in Id : copies[i] \in 1 .. MaxCopies
    /\ handler = Idle \/ (handler.about \in Id /\ handler.todo # <<>>)
    /\ link.stream \in BOOLEAN /\ link.number \in 1 .. MaxDrops + 1 /\ link.up \in BOOLEAN
    /\ \A t \in tasks : t.about \in Id /\ t.seam \in {"snapshot", "upgrade"}
                        /\ t.sink \in 1 .. link.number
    /\ \A i \in DOMAIN sent : sent[i].about \in Id
    /\ \A i \in DOMAIN executed : /\ executed[i].about \in Id
                                  /\ executed[i].seam \in {"control", "config"}
    /\ cut \subseteq Id /\ lost \subseteq Id

RequestsInit ==
    /\ host \in Hosts
    /\ received = <<>> /\ copies = <<>>
    /\ handler = Idle
    /\ \E stream \in BOOLEAN : link = [stream |-> stream, number |-> 1, up |-> TRUE]
    /\ tasks = {} /\ sent = <<>> /\ executed = <<>>
    /\ cut = {} /\ lost = {}

-------------------------------------------------------------------------------
(* Query answers.                                                          *)

WholeChunks(items) ==
    [p \in 1 .. Len(items) \div PageItems |->
        SubSeq(items, (p - 1) * PageItems + 1, p * PageItems)]

(* slice::chunks.                                                            *)
Chunks(items) ==
    [p \in 1 .. (Len(items) + PageItems - 1) \div PageItems |->
        SubSeq(items, (p - 1) * PageItems + 1, Min({p * PageItems, Len(items)}))]

(* An empty answer is still one page.                                        *)
Pages(items) == IF items = <<>> THEN << <<>> >> ELSE Chunks(items)

Channels == <<OwnDevice>> \o ExtraChannels

(* RecordingSource::lookup between two bounds that parsed.                   *)
RecordItems(q) ==
    LET Overlaps(s) == s.start <= q.end /\ s.end >= q.start
    IN  IF q.start # Absent /\ q.end # Absent
        THEN FlattenSeq([i \in DOMAIN Segments |->
                            IF Overlaps(Segments[i]) THEN <<Segments[i]>> ELSE <<>>])
        ELSE <<>>

CatalogPages(q) ==
    LET pages == Pages(Channels)
    IN  [p \in DOMAIN pages |->
            BuildCatalogResponsePage(q.sn, OwnDevice, pages[p], Len(Channels))]

RecordInfoPages(q) ==
    LET items == RecordItems(q)
        pages == Pages(items)
    IN  [p \in DOMAIN pages |->
            BuildRecordInfoResponsePage(q.sn, q.device, pages[p], Len(items))]

(* The host's data for an information query.                                 *)
Provided(cmd) == IF "provider" \in host THEN InfoData[cmd] ELSE Absent

TrackNumber(q) == IF q.number \in Nat THEN q.number ELSE 0

InfoQueryResponse(q) ==
    CASE q.cmd = "HomePositionQuery" ->
            BuildHomePositionResponse(q.sn, q.device, Provided(q.cmd))
      [] q.cmd = "CruiseTrackListQuery" ->
            BuildCruiseTrackListResponse(q.sn, q.device, Provided(q.cmd))
      [] q.cmd = "CruiseTrackQuery" ->
            IF Provided(q.cmd) = Absent
            THEN BuildGb2022QueryResponse(q.cmd, q.sn, q.device, q.number)
            ELSE BuildCruiseTrackResponse(q.sn, q.device, TrackNumber(q), Provided(q.cmd))
      [] q.cmd = "PTZPosition" -> BuildPtzPositionResponse(q.sn, q.device, Provided(q.cmd))
      [] q.cmd = "SDCardStatus" -> BuildSdCardStatusResponse(q.sn, q.device, Provided(q.cmd))

(* ConfigType is the set of types asked for.                                 *)
ConfigDownload(q) ==
    LET types == IF q.config_type = Absent THEN {} ELSE q.config_type
    IN  BuildConfigDownloadResponse(q.sn, q.device,
            IF "BasicParam" \in types THEN "basic" ELSE Absent,
            IF "VideoParamOpt" \in types THEN "video" ELSE Absent)

Rejected == {"DeviceControl", "Broadcast", "DeviceConfig", "HomePosition"}
InfoQueries == {"HomePositionQuery", "CruiseTrackListQuery", "CruiseTrackQuery",
                "PTZPosition", "SDCardStatus"}

(* The messages that answer a body, in order; none for what is not known.    *)
BuildQueryResponse(b, manscdp) ==
    LET q == ParseQueryDual(b) IN
    IF ~manscdp \/ q = Absent THEN <<>>
    ELSE CASE q.cmd = "Catalog"        -> CatalogPages(q)
           [] q.cmd = "RecordInfo"     -> RecordInfoPages(ParseRecordInfoQuery(b))
           [] q.cmd = "PresetQuery"    -> <<BuildPresetListResponse(q.sn, OwnDevice, <<>>)>>
           [] q.cmd = "DeviceInfo"     -> <<BuildDeviceInfoResponse(q.sn, OwnDevice, "config")>>
           [] q.cmd = "DeviceStatus"   -> <<BuildDeviceStatusResponse(q.sn, q.device, "OFF")>>
           [] q.cmd \in InfoQueries    -> <<InfoQueryResponse(q)>>
           [] q.cmd = "ConfigDownload" -> <<ConfigDownload(q)>>
           [] q.cmd \in Rejected       -> <<BuildControlRejectResponse(q.cmd, q.sn, q.device)>>
           [] OTHER -> <<>>

-------------------------------------------------------------------------------
(* What handling a request does, in order.                                 *)

Send(message)          == [act |-> "send", message |-> message]
Final(status)          == Send([kind |-> "final", status |-> status])
Execute(seam, command) == [act |-> "execute", seam |-> seam, command |-> command]

(* The exchange keeps what its report echoes; an SN that is no u32 becomes 0. *)
Spawn(seam, command, session) ==
    [act |-> "spawn", seam |-> seam, session |-> session,
     sn |-> IF command.sn \in Nat THEN command.sn ELSE 0]

SendAll(messages) == [i \in DOMAIN messages |-> Send(messages[i])]

ConfigOK(command) == Send(BuildDeviceConfigResponse(TRUE, command.sn, command.device))

(* spawn_snapshot_exchange comes after the OK it promises a report for.      *)
SnapshotEffects(command) ==
    <<ConfigOK(command), Spawn("snapshot", command, command.value["SessionID"])>>

UpgradeEffects(command) == <<Spawn("upgrade", command, Text(command.value, "SessionID"))>>

FallsThrough(command) ==
    <<Execute("control", command),
      Send(BuildControlRejectResponse("DeviceControl", command.sn, command.device))>>

(* dispatch_device_control: DeviceUpgrade is none of the handler's calls.    *)
ControlEffects(command) ==
    IF command.kind = "DeviceUpgrade" THEN <<>> ELSE <<Execute("control", command)>>

ConfigEffects(command) == <<Execute("config", command), ConfigOK(command)>>

(* start_broadcast, up to its INVITE.                                        *)
BroadcastEffects(notify) ==
    <<Final(200), Send(BuildBroadcastResponse(notify.sn, OwnDevice, "audio_sink" \in host))>>
    \o IF "audio_sink" \in host THEN <<Send([kind |-> "invite"])>> ELSE <<>>

MessageEffects(b, manscdp) ==
    LET snapshot == ParseConfigSnapshot(b)
        control  == ParseDeviceControl(b)
        config   == ParseDeviceConfig(b)
        notify   == ParseBroadcastNotify(b)
    IN  IF snapshot # Absent /\ "snapshot" \in host THEN SnapshotEffects(snapshot)
        ELSE IF control # Absent /\ control.kind = "DeviceUpgrade" /\ "upgrade" \in host
             THEN UpgradeEffects(control)
        ELSE IF control # Absent /\ "control" \in host THEN ControlEffects(control)
        ELSE IF config # Absent /\ "config" \in host THEN ConfigEffects(config)
        ELSE IF notify # Absent THEN BroadcastEffects(notify)
        ELSE SendAll(BuildQueryResponse(b, manscdp))

(* A Note that does not verify is answered with 403, and nothing else.       *)
Dispatch(request) ==
    IF ~request.note THEN <<Final(403)>>
    ELSE <<Final(200)>> \o IF request.method = "MESSAGE"
                           THEN MessageEffects(request.body, request.manscdp) ELSE <<>>

-------------------------------------------------------------------------------
(* Actions.                                                                *)

(* The platform numbers a body unless it comes with an SN of its own.        *)
Numbered(b, sn) ==
    b ++ IF "@CmdType" \in DOMAIN b THEN [n \in {"@SN"} |-> sn] ELSE [SN |-> sn]

Takes(id, request) == handler' = [about |-> id, todo |-> Dispatch(request)]

Receive(body, method, note, manscdp) ==
    LET id      == Len(received) + 1
        request == [body |-> Numbered(body, id), method |-> method, note |-> note,
                    manscdp |-> manscdp]
    IN  /\ handler = Idle /\ link.up
        /\ Len(received) < MaxRequests
        /\ received' = Append(received, request)
        /\ copies' = Append(copies, 1)
        /\ Takes(id, request)
        /\ UNCHANGED <<host, link, tasks, sent, executed, cut, lost>>

(* UDP: the platform did not see the 200 in time, or the network repeats.    *)
ReceiveAgain(id) ==
    /\ ~link.stream
    /\ handler = Idle
    /\ copies[id] < MaxCopies
    /\ copies' = [copies EXCEPT ![id] = @ + 1]
    /\ Takes(id, received[id])
    /\ UNCHANGED <<host, received, link, tasks, sent, executed, cut, lost>>

Effect == Head(handler.todo)

Rest == IF Len(handler.todo) = 1 THEN Idle ELSE [handler EXCEPT !.todo = Tail(@)]

(* send_sip_message.                                                         *)
SendMessage ==
    /\ handler # Idle /\ Effect.act = "send" /\ link.up
    /\ sent' = Append(sent, [about |-> handler.about, message |-> Effect.message])
    /\ handler' = Rest
    /\ UNCHANGED <<host, received, copies, link, tasks, executed, cut, lost>>

(* A failed send is an error of the handler: what remains is not done.       *)
SendFails ==
    /\ handler # Idle /\ Effect.act = "send" /\ ~link.up
    /\ cut' = cut \cup {handler.about}
    /\ handler' = Idle
    /\ UNCHANGED <<host, received, copies, link, tasks, sent, executed, lost>>

CallHook ==
    /\ handler # Idle /\ Effect.act = "execute"
    /\ executed' = Append(executed, [about |-> handler.about, seam |-> Effect.seam,
                                     command |-> Effect.command])
    /\ handler' = Rest
    /\ UNCHANGED <<host, received, copies, link, tasks, sent, cut, lost>>

SpawnExchange ==
    /\ handler # Idle /\ Effect.act = "spawn"
    /\ tasks' = tasks \cup {[about |-> handler.about, copy |-> copies[handler.about],
                             seam |-> Effect.seam, session |-> Effect.session,
                             sn |-> Effect.sn, sink |-> link.number]}
    /\ handler' = Rest
    /\ UNCHANGED <<host, received, copies, link, sent, executed, cut, lost>>

SilentFailure(t, ok) ==
    IF ok THEN <<BuildUploadSnapshotFinished(t.sn, OwnDevice, t.session, <<"file">>)>> ELSE <<>>

(* The report of an exchange: a failed one reports an empty list or reason 99. *)
Report(t, ok) ==
    IF t.seam = "snapshot"
    THEN <<BuildUploadSnapshotFinished(t.sn, OwnDevice, t.session, IF ok THEN <<"file">> ELSE <<>>)>>
    ELSE <<BuildDeviceUpgradeResult(t.sn, OwnDevice, t.session, ok, "99")>>

(* The executor returns; its report goes to the connection of its spawn.     *)
ExchangeEnds(t, ok) ==
    /\ tasks' = tasks \ {t}
    /\ IF link.up /\ t.sink = link.number
       THEN /\ sent' = sent \o [i \in DOMAIN Report(t, ok) |->
                                    [about |-> t.about, message |-> Report(t, ok)[i]]]
            /\ UNCHANGED lost
       ELSE /\ lost' = lost \cup {t.about}
            /\ UNCHANGED sent
    /\ UNCHANGED <<host, received, copies, handler, link, executed, cut>>

ConnectionDrops ==
    /\ link.stream /\ link.up /\ link.number <= MaxDrops
    /\ link' = [link EXCEPT !.up = FALSE]
    /\ UNCHANGED <<host, received, copies, handler, tasks, sent, executed, cut, lost>>

(* The run loop dials again after the handler has returned.                  *)
Redial ==
    /\ ~link.up /\ handler = Idle
    /\ link' = [link EXCEPT !.number = @ + 1, !.up = TRUE]
    /\ UNCHANGED <<host, received, copies, handler, tasks, sent, executed, cut, lost>>

Handle == SendMessage \/ SendFails \/ CallHook \/ SpawnExchange

RequestsNext ==
    \/ \E b \in IF received = <<>> THEN Bodies ELSE LaterBodies :
            \/ \E manscdp \in BOOLEAN : Receive(b, "MESSAGE", TRUE, manscdp)
            \/ Receive(b, "MESSAGE", FALSE, TRUE)
    \/ \E method \in {"OPTIONS", "CANCEL", "NOTIFY"} : Receive(Nothing, method, TRUE, FALSE)
    \/ \E id \in Id : ReceiveAgain(id)
    \/ Handle
    \/ \E t \in tasks, ok \in BOOLEAN : ExchangeEnds(t, ok)
    \/ ConnectionDrops
    \/ Redial

(* The SIP loop runs whenever it can, and the host's executors return.       *)
RequestsFairness ==
    /\ WF_requestsVars(Handle)
    /\ WF_requestsVars(\E t \in tasks, ok \in BOOLEAN : ExchangeEnds(t, ok))

RequestsSpec == RequestsInit /\ [][RequestsNext]_requestsVars /\ RequestsFairness

-------------------------------------------------------------------------------
(* Properties.                                                             *)

(* Handled to the end, with a good Note, as MANSCDP.                         *)
Done(id) ==
    /\ handler.about # id /\ id \notin cut
    /\ received[id].method = "MESSAGE" /\ received[id].note /\ received[id].manscdp

Answers(id, cmd) ==
    {i \in DOMAIN sent : /\ sent[i].about = id
                         /\ sent[i].message.kind = "answer" /\ sent[i].message.cmd = cmd}

(* What the answers below take for granted: bodies come as child elements or *)
(* as attributes, commands name their device, and no channel and no recording *)
(* is listed twice.                                                          *)
BodiesWellFormed ==
    \A b \in Bodies \cup LaterBodies :
        /\ "CmdType" \in DOMAIN b => "@CmdType" \notin DOMAIN b
        /\ Text(b, "CmdType") \in {"DeviceControl", "DeviceConfig"} => "DeviceID" \in DOMAIN b

ListsDistinct ==
    /\ \A i, j \in DOMAIN Channels : Channels[i] = Channels[j] => i = j
    /\ \A i, j \in DOMAIN Segments : Segments[i] = Segments[j] => i = j

(* What the platform asked for: the whole catalog, or every recording of the *)
(* window (none for a window that does not parse).                           *)
Asked(q) ==
    IF q.cmd = "Catalog" THEN {OwnDevice} \cup {ExtraChannels[i] : i \in DOMAIN ExtraChannels}
    ELSE {Segments[i] : i \in {j \in DOMAIN Segments :
            q.start \in Nat /\ q.end \in Nat
            /\ Segments[j].start <= q.end /\ q.start <= Segments[j].end}}

(* server.rs: "every page carries the TOTAL SumNum, the platform accumulates *)
(* by SN": unless the connection dropped under it, a list query is answered  *)
(* with at least one page, no page over the limit, and pages that together   *)
(* are the whole list, nothing twice, under its SN and its total.            *)
PagesAccumulate ==
    \A id \in Id :
        LET q == ParseQueryDual(received[id].body)
            pages == Answers(id, q.cmd)
            ItemsOf(p) == sent[p].message.items
            places == {e \in pages \X (1 .. PageItems) : e[2] \in DOMAIN ItemsOf(e[1])}
            At(e)  == ItemsOf(e[1])[e[2]]
        IN  (Done(id) /\ copies[id] = 1 /\ q # Absent /\ q.cmd \in {"Catalog", "RecordInfo"}) =>
                /\ pages # {}
                /\ \A p \in pages : /\ sent[p].message.sn = q.sn
                                     /\ sent[p].message.sum_num = Cardinality(Asked(q))
                                     /\ Len(ItemsOf(p)) <= PageItems
                /\ {At(e) : e \in places} = Asked(q)
                /\ \A d, e \in places : At(d) = At(e) => d = e

Executions(id) == Cardinality({i \in DOMAIN executed : executed[i].about = id})
IsResult(m, result) ==
    m.kind = "answer" /\ m.cmd \in {"DeviceControl", "DeviceConfig"} /\ m.result = result
Results(id, result) ==
    Cardinality({i \in DOMAIN sent : sent[i].about = id /\ IsResult(sent[i].message, result)})
Reports(id) ==
    Cardinality({i \in DOMAIN sent : sent[i].about = id /\ sent[i].message.kind = "notify"})
Underway(id) == Cardinality({t \in tasks : t.about = id})

(* A firmware upgrade that reaches a host with a control handler and without *)
(* an upgrader; it gets neither verdict.                                     *)
Unserved(id) ==
    /\ "control" \in host /\ "upgrade" \notin host
    /\ ParseDeviceControl(received[id].body) # Absent
    /\ ParseDeviceControl(received[id].body).kind = "DeviceUpgrade"

(* server.rs: a command is executed "and the 200 OK above is the whole       *)
(* synchronous answer", or answered with Result (OK "when a handler          *)
(* executed, ERROR otherwise"): every reception of a command ends in exactly *)
(* one verdict, handed to the host or refused, never both and never neither, *)
(* and a configuration is reported OK exactly when it was handed over.  What *)
(* the host does with it is its own affair: a hook left at the no-op default *)
(* counts as any other here, and NoOpKeepsReject says what it should do.     *)
OneVerdict ==
    \A id \in Id :
        LET cmd     == Text(received[id].body, "CmdType")
            carried == Executions(id) + Reports(id) + Underway(id)
        IN  (/\ Done(id) /\ id \notin lost
             /\ cmd \in {"DeviceControl", "DeviceConfig"} /\ ~Unserved(id)) =>
                /\ carried + Results(id, "ERROR") = copies[id]
                /\ Results(id, "OK") = IF cmd = "DeviceConfig" THEN carried ELSE 0

(* DeviceConfigHandler: "a command whose handler is the no-op default keeps  *)
(* the reject answer".  No reception of a configuration that the host does   *)
(* not act on is answered with OK.                                           *)
NoOpKeepsReject ==
    \A id \in Id :
        LET config == ParseDeviceConfig(received[id].body)
        IN  (/\ config # Absent /\ config.kind \notin ActedOn
             /\ ParseConfigSnapshot(received[id].body) = Absent) => Results(id, "OK") = 0

(* Every exchange that was started is reported on, whether it succeeded or   *)
(* not, unless its connection has gone.                                      *)
ExchangeReported ==
    \A id \in 1 .. MaxRequests :
        (\E t \in tasks : t.about = id) ~> (id \in Id /\ (Reports(id) >= 1 \/ id \in lost))
===============================================================================
