# gb28181-rs: TLA+ models, checks and proofs

`gb28181-rs` is the device side of GB/T 28181: a camera registers with a SIP
platform, keeps itself alive, answers queries, and streams live, recorded or
talkback media when the platform sends an INVITE. This directory holds TLA+
models of the parts of `src/src/` that are concurrent or stateful, the TLC runs
that check them on small instances, and proofs that the TLA+ proof system checks
for every value of the constants. Paths below are relative to `src/src/`.

`PROJECT.json` maps every definition to the lines it translates, lists the runs,
the findings, the hazards line by line and, for each property, a plausible
defect of the code that makes TLC find the property violated.

## The system

### Components

| Component | Source | State it keeps | Operations | Correct when | Module |
|---|---|---|---|---|---|
| UDP run loop: registration, keepalive | `server.rs` `run_udp`, `perform_register`, `perform_deregister`, `receive_register_response`, `run_keepalive`; `client.rs` | loop position, attempt, `registered`, `cseq`, `keepalive_failures`, keepalive tasks, the shutdown watch channel | startup attempts with back-off, listen-only retry, refresh tick, silence and failure detectors, fast and de-registering shutdown | `registered` rests on a grant and is kept alive; an answer counts only for its own request; de-registration is sent last; shutdown always completes | `Registration` |
| Media session slot | `server.rs` `handle_invite`, `handle_bye`, `start_broadcast`, `complete_broadcast`, `shutdown_cleanup` | `media_task`, `invite_info`, `subscriber_id`, `playback_ctl`, `broadcast_pending` | INVITE (new, repeated, refused, failing half-way), BYE, broadcast placed, answered, rejected, given up; task end; shutdown | one session at a time; nothing of a replaced session stays; a BYE really silences its dialog | `MediaSession`, `SingleSession` |
| Outbound stream transport | `server.rs` `run_stream`, `dial_platform_stream` | connection, `conn_stop`, notifier binding, drain and keepalive tasks | dial, register, serve, lose the connection, dial again, shut down | tasks of connections never stack, a lost connection is replaced, shutdown leaves nothing | `StreamTransport` |
| Subscriptions and NOTIFY | `subscribe.rs`; `server.rs` `handle_subscribe`, `spawn_position_task` | registry of bookings with `next_cseq`, `position_cancel`, `tcp_tx` | SUBSCRIBE, lapse, host senders, position task, bind and unbind | a CSeq is used once per booking; one position task in charge; replaced ones end | `Notifier` |
| Inbound TCP and TLS listeners | `server.rs` `run_tcp_bound`, `run_tls_listen_bound`, `handle_tcp_connection`, `read_sip_message_framed`; `tls.rs` | a server value per connection, the shared notifier | accept, hand-shake, frame, serve, close | messages come out whole and in order; the notifier stays with a live connection; shutdown ends every handler | `InboundConnections` |
| Playback task | `playback.rs`; `server.rs` `handle_info` | frame list, index, pacing anchor, speed, pause; control channel of 8 | pause, play, seek, speed, pacing, natural end, BYE | frames keep their schedule and can be decoded, an end notice only after the last one, the loop gets free | `Playback` |
| Recorded segments | `segment.rs`, `build_frames` | files | list, read, group | frames in order, entered at key frames | `RecordedSegment` |
| GB 35114 authentication | `security35114/`, `authenticator.rs` | platform session per device (random1, VKEK, last answer), device VKEK | challenge, register, verify, Note | both sides end with the same VKEK; a retransmission gets the same answer; Notes verify | `Handshake`, `SecurityHeaders` |
| Live media | `server.rs` `run_media_task` and `MediaSendPolicy`, `ps.rs`, `rtp_pusher.rs`, `frame.rs` | RTP sequence and timestamp, failure streak | multiplex, split, packetise, send, give up | what arrives whole parses back, bounded packets, every loss visible, teardown exactly after a streak of units with a failed packet | `ProgramStream`, `MediaTask` |
| Talkback | `server.rs` `handle_audio_invite`, talkback task and source; `sip.rs` SDP; `client.rs` `parse_invite` | the source's queue and law, the session's task | negotiate, push, tick, send | frames leave once, in order, numbered as they leave, and under their law's payload type | `Offer`, `Talkback` |
| Query responses, control, configuration | `server.rs` `handle_message`, `build_query_response`; `manscdp.rs`, `info_query.rs` | none | answer, page, refuse, call the host | pages add up to the list, one verdict for each command | `Requests`, `Manscdp` |
| Snapshot and upgrade | `snapshot.rs`, `upgrade.rs` | detached exchanges | one exchange each | each is reported on | `Requests` |
| SIP text and charset | `sip.rs`, `charset.rs` | none | parse, format | round trip | SDP only: `Offer` |
| Configuration, metrics, facade | `config.rs`, `metrics.rs`, `lib.rs` | plain data | | | |
| Test doubles | `mock.rs` | the frame hub | subscribe, push | | subscriber list in `MediaSession` |

### How they interact

The server is one value with `&mut self` handlers. On UDP and on an outbound
stream a single `select!` loop owns it, so handlers run one at a time, and a
handler that awaits a REGISTER exchange, or room in a playback's control channel,
stops the loop from serving anything else. Beside the loop run spawned tasks:
keepalives, media, playback and talkback tasks with their bridge threads, the
position task, snapshot and upgrade exchanges, NOTIFY drains and the stream's
pump. They share with it the socket or the connection's writer, the frame source,
watch and mpsc channels, and the notifier, which the host's own threads call as
well. On inbound TCP every connection has its own server value; the notifier is
shared.

### What is hard

* Handlers that await in the middle, with the platform free to send anything
  meanwhile, and two states (the slot, `registered`) written on several paths.
* Responses over UDP: late, lost, duplicated, matched by CSeq alone.
* Tasks told to stop by dropping or signalling a channel, or aborted, which takes
  effect at their next await, while a new one starts.
* Shutdown that races every await, on ways out that clean up differently.
* A lock taken to read or number something that is then sent outside the lock; a
  lock released between reading and writing the same session.
* A byte stream that stalls, closes or resets between any two bytes of a message.
* A schedule of frames re-based by pauses, seeks and speeds while it runs, and a
  send that fails in the middle of an access unit.

## Modules

`SingleSession` is the abstract promise about media; `MediaSession` implements
it. `Playback` takes its recording from `RecordedSegment`, `Handshake` its messages
from `SecurityHeaders`, `Requests` its bodies from `Manscdp`, `MediaTask` its bytes
from `ProgramStream`, `Talkback` its offers from `Offer`: the second of each pair
holds pure operators. `StreamTransport` uses of a registration exchange only its
beginning and its result, the exchange itself being that of `Registration`. What a
session of `MediaSession`'s slot does inside its task is `MediaTask`, `Playback` or
`Talkback`.

### SingleSession

The device serves at most one session; an INVITE transaction that is already
the session is not established again; a replaced session stops being served in
the step that replaces it; after shutdown nothing is served.

### MediaSession (MCMediaSession, MediaSession_proofs)

A handler is one step, because the code runs it on `&mut self` and the states
between its awaits are not visible to another handler. Media tasks and bridge
threads take their own steps. `slot` groups the four server fields;
`tasks[i].state` goes from running to aborting (`JoinHandle::abort`) to ended (at
the task's next await); `hub` is the frame source's subscriber list; `bridges`
are the blocking threads between it and the tasks. `pending` is the broadcast
INVITE sent and not answered. `reply` holds the last answer, which
`ByeSilencesDialog` reads. An INVITE can find an ended task whose handle was
never cleared, can be refused (488), or can fail after its 200 OK was sent.
Messages are unordered and repeatable: any INVITE or BYE of the constant sets
can arrive at any step.

### Registration (Registration_proofs)

`exchange` says what REGISTER exchange the loop awaits, why, and in which leg.
`requests`, `unanswered` and `inbox` are the wire: the platform answers each
request at most once, whenever it likes, and a response is received during its
exchange, during a later one, by the idle loop, or never. `cseq` follows
`SipDeviceClient`: it advances on a challenge and on success, and not on a
failure or a timeout. The detectors and the refresh tick are one action each;
what they do with the result is `RegisterEnds`, told apart by `exchange.cause`.
`accepted` and `granted` are history variables.

### Notifier (MCNotifier, Notifier_proofs)

A sender takes a snapshot and a number out of the registry under its lock
(`Take`), and writes to the socket later (`Transmit`), which is where senders
overtake each other. Host threads and position tasks are senders. A position
task ends only when its cancel channel is signalled or closed. Clocks are left
out: a booking can lapse at any time, and a tick can come at any time.

### StreamTransport (StreamTransport_proofs)

`loop` follows the two nested loops of `run_stream`; each connection has a
keepalive task, a drain task and perhaps the notifier's binding, and `told`
records which of them got their stop signal. The media session is one Boolean:
whether the slot holds one. The platform can close a connection in any state.

### InboundConnections (MCInboundConnections, InboundConnections_proofs)

The accept loop, one handler per connection of the platform, and the notifier's
binding they share. The platform sends the messages of `Script` on every
connection, cut into units (a request's head, its Content-Length body, an empty
line) that arrive one at a time; it may stall, close or reset the connection
between any two. A handler is a loop over a `select!` of
`read_sip_message_framed` and the shutdown signal, and its server value, hence
its media session, is its own. At the end of its stream it goes on reading empty
messages, as the code does.

### Playback (MCPlayback, RecordedSegment, Playback_proofs)

The SIP loop and the playback task are two actors. `handle_info` answers 200, then
waits for room in the control channel (`blocked`), so the loop serves nothing else
meanwhile. The task is a loop over its channel, its sleep until the next frame is
due, and a write to the platform that can stall (`pc`). An abort is served at one of
the task's awaits; a session whose connection went away is orphaned, its channel
closed (`holder`). Media time and wall-clock time share one unit, and `elapsed` is
the time since the pacing anchor. `pass` is history: what was sent since the last
seek, and from where the schedule was last anchored. A frame's offset is the unsigned
`abs_ms - base`: of a frame before the base it wraps, and the frame is due after all
time (`Never`), or, in a build with overflow checks (`session.checked`), the task
panics (`OffsetPanics`). No order of a recording's frames is assumed: a segment
without a sidecar is laid out at 25 fps and may overlap the next one. `RecordedSegment` makes the
frames of a range out of segment files: `group_aus` over kinds of NAL units, the
sidecar's offsets, and `build_frames`, which enters each segment at a key frame.

### Handshake (SecurityHeaders, Handshake_proofs)

The device's `perform_register` with its authenticator against the platform's
`challenge`, `verify_register` and `verify_note`. Messages stay on the wire once
sent: they are taken late, out of order, more than once or never. The device tells
responses apart by CSeq alone. `verify_register` takes the session lock twice, once
to read and once to write (`VerifyBegins`, `VerifyCommits`). A signature is its
signer and the octets signed, an envelope its addressee and the key inside, a digest
the octets digested: `SecurityHeaders` says which octets these are and in what order.
The SIP server around the platform's state machine, a pool of `Workers`, is not
part of the repository and marked external.

### Requests (MCRequests, Manscdp, InboundConnections_proofs)

A MESSAGE is the list of effects `handle_message` goes through: messages sent and
the pauses before them, hooks of the host called, exchanges spawned. `handler` is
what is left of it, so a stream connection can drop between any two effects; on UDP a
request may arrive twice. Snapshot and upgrade exchanges run beside the loop and
report over the transport they were bound to. `Manscdp` decodes and builds the
bodies; an XML body is a function from element names to contents, in the plain and
the attribute form of a query, and text that does not parse is `Junk`.

### MediaTask (MCMediaTask, ProgramStream, MediaTask_proofs)

`run_media_task` takes access units from the channel its bridge fills, multiplexes
each and sends the pieces as RTP packets, over UDP or framed on a TCP stream that
either side dialled; a send may fail at any packet. `wire` is what the platform got.
`ProgramStream` builds and parses the bytes: pack headers, the program stream map,
PES packets with their lengths and clocks, and the two scans for start codes, which
are written as sets of positions that `Scan` lists in order. The sizes that the
format and the code fix are parameters, so that small units reach them. The units of
an instance are well formed (`ContentWellFormed`): coding standards keep start codes
out of NAL units and zeros from their ends.

### Talkback (MCTalkback, Offer, MediaSession_proofs)

`Offer` reads an SDP line by line as `SdpSession::parse` does, chooses the media as
`parse_invite` does, and builds the two answers. `Talkback` is `handle_audio_invite`,
the task it spawns and the `TalkbackSource` the host's encoder feeds. The queue and
the law belong to the source and outlive every session; an aborted task may finish
a poll that is under way beside its successor (`leaving`, `LastPoll`). The encoder
polls the law for a frame, then pushes it: `polled` is the frame between the two, and
`under` names the session that was in the slot when it was begun.

## Runs

`tlc -config X.cfg M`; `PROJECT.json` names module and configuration of each run.

| Run | Instance | Shows |
|---|---|---|
| `video` | 2 Call-IDs, 2 CSeqs, 3 sessions, no broadcast | one session, shutdown releases everything, refinement of `SingleSession`, replaced sessions drain |
| `broadcast` | 1 Call-ID, 1 CSeq, 2 broadcasts, 3 sessions | a broadcast is completed once |
| `broadcast_slot` | 2 Call-IDs, 2 broadcasts | **violated**: a broadcast answered while a session runs overwrites it (`OneSession`) |
| `registration` | 2 attempts, threshold 2, 3 exchanges and the de-registration | numbers in order, de-registration last and not forgotten, shutdown completes |
| `notifier` | 2 subjects, 2 dialogs, 2 host threads, 2 bookings, numbers up to 3 | numbers not shared, one position task, replaced tasks end, a lasting subscription is served |
| `stream` | 2 attempts, 2 connections | keepalives do not stack, a drop is followed by a dial, shutdown completes |
| `playback` | a range over 2 overlapping segments, seeks to before and into it, speeds 0 and 2, channel of 1, 2 INFO requests, clock up to 4, builds with and without overflow checks | no burst after pause, seek or speed; an offset below zero only where segments overlap; decodable output; a truthful end notice; the loop gets free; a released session ends |
| `handshake` | 1 worker, 3 exchanges, 1 restart, 3 challenges, both schemes | both sides agree on the key, it is the exchange's own, a retransmission gets the same answer, Notes verify |
| `requests` | 2 requests of any body, each received twice, 1 drop, pages of 2 | pages add up, each command handed to the host or refused once, exchanges reported |
| `inbound` | 2 TLS connections, 3 messages, 2 units in flight | messages whole and in order, the binding with the newest live connection, shutdown ends handlers |
| `media` | 3 units of 3 contents, PES chunks of 8, RTP payloads of 30, streak of 2 | what arrives whole parses back, PES lengths and clocks, losses visible, teardown exactly after a streak of units with a failed packet |
| `talkback` | 8 offers, 2 INVITEs, 3 frames of 3 lengths, numbers wrap at 2, the clock at 100 | numbering and order around the wrap, a session's own frames under their law's payload type, the queue drains |

### Counterexamples kept beside the runs

Nine of the checked modules also state what the repository's documents, comments or
tests promise and the code does not do. Each configuration below makes TLC print
the behaviour; the findings in `PROJECT.json` quote the promise. The two `_promises`
configurations list several such properties: TLC stops at the first it refutes; with
the others taken off the list it refutes each.

| Configuration | Module | Property TLC refutes | Behaviour |
|---|---|---|---|
| `Registration_keepalive.cfg` | `Registration` | `OneKeepalive` | two keepalive tasks after a failed and a repeated refresh |
| `Registration_stale.cfg` | `Registration` | `ConsumesOwnResponse` | a late response is consumed by a later exchange |
| `Registration_deregister.cfg` | `Registration` | `DeregistersWhenAccepted` | a registration made by a detector is not de-registered |
| `Notifier_numbers.cfg` | `MCNotifier` | `NumbersAdvance` | NOTIFY numbers restart on renewal |
| `StreamTransport_redial.cfg` | `StreamTransport` | `ShutdownReleases` | shutdown while dialing again leaves the media session running |
| `StreamTransport_listen.cfg` | `StreamTransport` | `RetryIsKeptAlive` | a listen-only retry that succeeds gets no keepalive |
| `Inbound_shutdown.cfg` | `MCInboundConnections` | `ShutdownStopsMedia` | a handler stopped by shutdown leaves its media session running |
| `Inbound_close.cfg` | `MCInboundConnections` | `CloseClearsBinding` | a connection the platform closed stays bound |
| `Playback_notice.cfg` | `MCPlayback` | `NaturalEndReported` | no end notice on a TCP dialog |
| `Playback_emitted.cfg` | `MCPlayback` | `EachFrameEmitted` | a resume in an overlap leaves a frame that is never emitted |
| `Handshake_workers.cfg` | `Handshake` | `OneKeyPerRegister` | two workers answer two copies of a REGISTER with two keys |
| `Requests_noop.cfg` | `MCRequests` | `NoOpKeepsReject` | a configuration for a no-op hook is answered OK |
| `MediaTask_promises.cfg` | `MCMediaTask` | `ClockFollowsCapture` | the RTP clock lags one unit behind a change of frame rate |
| `MediaTask_promises.cfg` | `MCMediaTask` | `PackHeaderReadsBack` | the pack header's clock does not read back |
| `MediaTask_promises.cfg` | `MCMediaTask` | `EveryUnitSurvives` | a continuation piece completes a false start code |
| `MediaTask_streak.cfg` | `MCMediaTask` | `TornDownUnsent` | torn down after units of which packets were delivered |
| `Talkback_promises.cfg` | `MCTalkback` | `AnswerKept` | `a=sendonly` is answered and nothing is sent |
| `Talkback_promises.cfg` | `MCTalkback` | `PayloadFitsType` | frames of one law leave under the other's payload type |
| `Talkback_promises.cfg` | `MCTalkback` | `VideoGoesToItsPort` | video pushed to the audio line's port |
| `Talkback_promises.cfg` | `MCTalkback` | `NoPanic` | an offer without audio and video stops the program |

In the passing runs the same modules are checked for what does hold: `video`
restricts `BroadcastId` to the empty set because the broadcast path is where
`OneSession` fails, and `broadcast` checks what broadcasts leave intact. Three
properties leave out a case by name: `OneVerdict` a `DeviceUpgrade` for a host that
has a control handler and no upgrader (`Unserved`), `UnitsSurvive` and
`PacketsBounded` a unit with a false start code at a chunk's head (`FalseStart`), and
`ReleasedSessionEnds` an orphaned playback whose next frame is due never, at speed
zero or before the base. Three speak of what the code does where a comment promises
more, with the promise beside them: `OneVerdict` of the hook that was called, no-op or
not (`NoOpKeepsReject`), `TornDownByStreak` of units with one failed packet
(`TornDownUnsent`), and `OwnFramesLabelled` of the frames of a session's own time
(`PayloadFitsType`).

### Bounds, and why they are enough

* `MaxSessions = 3`: a session, its replacement, and one more that arrives while
  the first is still draining; the proofs below cover every value.
* `MaxExchanges = 3` of `Registration` (plus the de-registration): a startup that uses
  both attempts and a refresh or detector after it, or one that succeeds followed by
  two exchanges of any cause. Two keepalives need startup, a failed refresh and a
  repeated one; the counterexamples use 4.
* `MaxBookings = 2`, `MaxNumber = 3`: a booking and its renewal or replacement,
  with two numbers of one booking in two senders' hands.
* `MaxConns = 2`: a connection and the one after it, with tasks of the first
  still running; the tasks of a third would meet those of the second in the
  same way. The same goes for the two connections of `inbound`.
* `Script` and `Window` of `inbound`: an INVITE with a body, an empty keepalive line
  and a BYE, so that each kind of message precedes and follows another; two units
  unread let a message be cut between any two of its units.
* `CtlCapacity = 1` of `playback` is the smallest channel that can be full; with
  `MaxInfo = 2` one INFO waits behind the other. The recording has two segments:
  the first has a key frame in the middle and a sidecar too short to be used, so that
  its five frames reach past the start of the second, which is entered past a frame that is no key
  frame; a third cannot be read. `Horizon = 4` lies past every frame's due time, those
  that are never due excepted. The proofs cover any channel, recording, horizon and number of INFOs.
* `handshake`: three exchanges are one before, one across and one after a failure or
  restart; three challenges let an old one be answered while a newer one is pending.
* `requests`: `PageItems = 2` with a catalog of more than one page; two requests,
  because the second can arrive between the effects of the first's exchange, two
  copies, one drop. `LaterBodies` is smaller than `Bodies`: what the first request can
  leave behind is an exchange, a pause or a drop, whatever the second one asks.
* `media`: `MaxChunk = 8`, `LengthCap = 24`, `MaxPayload = 30` cut a unit of a few
  bytes into two PES packets and several RTP packets; the sequence wraps at 4 and the
  clock at 9 000 001, which one long gap reaches; a streak of 2 in 3 units.
* `talkback`: an offer for each branch of the negotiation; frames of no octet, of an
  ordinary and of an oversized length; numbers wrap at 2 and the clock at 100, so that
  the second and third packet of one session are past a wrap; two sessions, the second
  of which can overlap the last poll of the first. The run leaves three offers to the
  counterexamples that a session is begun or refused by like another's.

All runs switch deadlock checking off: a server that was shut down stops, and a
run whose bound is used up does too.

### Fairness

* A task whose abort or stop signal is pending ends: weak fairness for an abort
  (Tokio serves it at the next await) and for a keepalive that waits on the signal
  and on its interval only; strong fairness for the position task, the stream's
  tasks and the inbound handlers, where the signal is one branch of a `select!` that
  other ready branches can win some of the time but, being polled in random order,
  not always.
* A task that is ready runs (`TaskStep`, `InfoUnblocks`, `Handle`, `Progress`), and the
  host's executors return (`ExchangeEnds`).
* Timers fire: response windows, back-offs, pauses and tickers (weak fairness of
  `ResponseMissing`, `BackoffElapses`, `PauseElapses`, `Tick` and their like).
* The loop takes a pending shutdown: strong fairness of `Interrupted` and
  `StopAccepting`, again because `select!` polls its branches in random order.
* Of the platform only `playback` assumes anything: that it reads its media connection
  again (`PlatformReads`) and that a write for which it makes room again and again gets
  through (`FrameWritten`). Elsewhere nothing is assumed of the platform, the network,
  the host's own calls or the camera; a write to a connection is assumed to return.

## Proofs

Eight modules hold theorems; every one is proved for every value of the constants.

`MediaSession_proofs` proves, for any sets of Call-IDs and CSeqs and any number
of sessions, under `MediaSessionAssumption` alone (the CSeqs are numbers, the
two kinds of Call-ID differ, `None` is neither):

* in every deployment `TypeOK`, `TaskHasDialog` and `BroadcastCompletedOnce`
  (`TypeCorrect`, `DialogTracked`, `BroadcastOnce`), from the inductive invariant
  `Core`. What it adds is `Numbering` (a task is unborn exactly when its number
  was not handed out, so a fresh number is no running task's) and `Ledger` (a
  broadcast task's Call-ID was placed and is no longer pending, so no second task
  can be made from it);
* where the platform sends no broadcast, `OneSession`, `SubscriptionsOwned`,
  `ControlReachesSession`, `ByeSilencesDialog` and `ShutdownReleases`, from
  `Video`, which adds to `Core` that a slot without a task is wholly empty.
  `handle_invite` recycles only behind `if self.media_task.is_some()`, so without
  that fact a stale subscription could survive; it is also what the broadcast
  handlers break;
* under the same restriction, that `MediaSession` implements `SingleSession`
  (`MediaSessionRefines`): initial states map to initial states, and each step to
  `Establish`, `Release`, `Exhaust`, `Close` or a stutter.

`AbortKeeps`, `RecycleKeeps` and `RecycleEmpties` state once what taking the slot
apart does.

`Registration_proofs` proves, for any number of attempts, threshold and
exchanges under `RegistrationAssumption`, `TypeOK`, `RegistrationIsGranted`,
`RegisteredIsKeptAlive`, `NumbersInOrder`, `FailuresReact`, `DeregisterIsLast` and
the action property `StopsDeregistered`. The inductive invariant `IInv` adds to
them:

* `Control`: where the loop is tells which exchange it can be waiting for; a
  back-off is followed by an attempt that is left;
* `Budget`: an exchange spends at most two numbers and spawns at most one
  keepalive, which bounds `cseq` and `keepalives` by the exchanges begun;
* `Wire`: a response in flight answers a request that was sent, requests carry
  numbers up to the client's, and an acceptance in flight was granted. Since a
  response is matched by its number only, `RegistrationIsGranted` needs both this
  and `DeregisterIsLast`: no 200 to a de-registration can be taken for one to a
  REGISTER because no REGISTER exchange follows;
* `Reacting`: the failure counter is at its threshold only during the exchange it
  triggered.

`RegisterEndsKeeps`, `DeregisterEndsKeeps`, `BeginKeeps` and `CountedKeeps` say once
what the end of an exchange, its beginning and a counted response preserve.

`StreamTransport_proofs` proves, for any number of attempts and connections under
`StreamAssumption`, `TypeOK`, `OneConnectionBeats` and `BindingFollowsConnection`.
Its `IInv` adds `Control`; `Fresh` (nothing of a connection not yet dialed runs or
was told to stop, so a new connection's tasks start clean); and
`StopSenderCurrent` (the stop sender belongs to the connection being served, so
when that ends its keepalive is told).

`Notifier_proofs` proves, for any events, dialogs, host threads and number of
bookings under `NotifierAssumption`, `TypeOK`, `NumbersNotShared` and
`OnePositionTask`. The numbers of one booking come out of one entry of the registry,
so the argument is about entries: `Bookings` says that bookings are numbered as they
come and that each has one entry, `Numbers` that two senders never hold the same
NOTIFY, that none held was sent already, and that every number taken from an entry is
`Behind` the entry's next one. `OnePositionTask` is inductive with `TypeOK`.

`InboundConnections_proofs` proves, for any set of connections and any script,
`TypeOK`, `BindingIsServed`, `MessagesFramed` and the action property
`NewestKeepsBinding`, under `InboundAssumption` (a `Script` of requests and empty
lines, an empty line without a body). `StepKinds` shows that of all steps only five
kinds touch a task's stage or the binding, so `BindingInv` needs no more of the types
than these two variables. `MessagesFramed` has an invariant of its own, `FramingInv`:

* `Fresh`: a connection that is not served has taken nothing;
* `Framing`: a connection handled the first n messages of the script, whole, for some
  n, and its reader is in message n + 1. `Framed(c, n)` says where: among the lines of
  its head, or in its body with exactly the rest of it still wanted, or waiting for a
  body the closed stream will not bring. `CutOff(c, n)` is the end the last of these
  comes to.

The wire is the units of all messages in a row, and what was handled is `Messages[n]`,
a recursive function of n: `UnitsShape`, `SentGrows` and `MessagesGrow` say what one
message more adds to both. The steps that matter are `ReadLine` at the blank line,
where a body begins or the message is whole, and `ReadBody` at its last unit: the place
they leave the reader at is the first unit of the next message.

`Playback_proofs` proves, for any recording, in order or not, any commands and any
channel under `PlaybackAssumption` (types only), `TypeOK`, `NoBurst`,
`WrapsOnlyInOverlap` and `NoticeMeansComplete`. Its `IInv` adds:

* `Shapes`: the types of the task's and the history's records;
* `Untouched`: before the INVITE nothing has happened;
* `Playing`: the task plays the frames of the last seek, and what it sent is their
  beginning, from which it follows that a pass that ran out of frames has sent all;
* `Schedule`: the schedule's base is the first frame sent since the last PLAY and the
  time of a frame of this pass that was reached, so that a frame before it is one an
  earlier frame of the range overtook; and the clock the pacing uses started together
  with the one the property looks at.

Every step is one of ten kinds (`StepKinds`), and the induction has a lemma for each.

`PassesDecodable` adds `Decodable`: a pass starts at a frame a decoder can start at
and breaks off nowhere. It has a hypothesis, `RecordingDecodable`, which says of the
frames of every range what `build_frames` promises: a key frame with its parameter
sets in front, then frames that follow each other. The run makes its recording out
of segments with `BuildFrames`, so there the hypothesis is what is checked and not
what is assumed; the theorem says that the task, its seeks and speeds included, adds
no way to break it.

`Handshake_proofs` proves, for any number of exchanges, restarts and challenges and
both schemes:

* with any number of `Workers`, `TypeOK` and `OwnHandshakeKey`, by the invariant `Core`:
  every Authorization on the wire answers a challenge that was drawn, and every 200, and
  every answer a worker has ready, is to an Authorization that was sent, echoes its
  randoms under Bidirection and carries a key that was drawn (`Wire`, `Jobs`). Nothing
  leaves the wire, so all this survives what is repeated, delayed or overtaken.
  `Budget` bounds the numbers by the exchanges begun, whatever the restarts do;
* with one worker (`SingleWorker`), `RegisteredAgree`, `OneKeyPerRegister` and the
  action property `NotesVerify`, by adding to `Core` what holds until the device
  restarts (`Unrestarted`). The argument is the order of the challenges: a challenge to
  a later REGISTER than an Authorization is newer than the one it answers
  (`NewerChallenges`), so what the device waits for or was granted is its newest
  (`Newest`), what is being answered is newer than all that was answered
  (`JobsNewer`), and the session's key is that of the newest answer (`NewestKey`). A
  restart starts the CSeqs again and lets an old challenge answer a new REGISTER, which
  ends the order.

`SingleWorker` is a hypothesis because the three are false without it: two workers
that verify two copies of one REGISTER both draw a key (`Handshake_workers.cfg`
shows it).

`MediaTask_proofs` proves, for any units, gaps, payload sizes and failures, under
`MediaTaskAssumption` (more numbers than the streak is long, a clock that wraps later
than the longest step) and `ProgramStreamAssumption` (a chunk and its header fit the
length field):

* about the multiplexer: what `encode_pts_dts` writes `parse_pts_dts` reads back, modulo
  2^33 (`ClockReadsBack`); the RTP payloads of a program stream join to it and none is
  longer than `MAX_RTP_PAYLOAD` (`ChunksRejoin`); and every PES packet a unit is split
  into, of whatever size, has a length that its field holds (`LengthsDeclared`);
* `TypeOK`, down to the bytes of each packet on the wire;
* `TornDownByStreak`, from `StreakInv`: the units before the one under way split at the
  streak, those in it were cut, the one before it was sent whole, and no run of cuts
  was long enough before. That last part is what makes the teardown exact;
* `LossVisible`, from `LossInv`: since the last packet that arrived, the numbers spent
  are those of at most `streak` failed sends, hence fewer than there are numbers, so
  the next packet's number follows the last one's only if nothing was lost between
  them; and if nothing was, the clock moved exactly when the unit ended, because a
  step of the clock is shorter than its space;
* about the parser: `split_nal_units` gives back the NAL units that `mux_nalus_to_ps`
  strings together, whatever well-formed units they are (`UnitsSplitBack`), and the
  whole parser gives them back from the program stream (`UnitsComeBack`), however many
  PES packets they take, unless a continuation piece starts falsely (`FalseStart`). The
  argument is a map of the bytes. `Located` says where each part of a joined sequence
  lies. `UnitsFound` and `MuxLaidOut` apply it to the elementary stream and to the
  packets, so that each byte has a known origin, and a case analysis of origins shows
  that three bytes 00 00 01 are a start code only where one was written: marker bits
  break up the clocks, the last byte of a NAL unit is not zero, and the zero filler of
  a continuation packet is where the exception comes from. `ScanFinds` then turns the
  set of positions into the list the parser walks. `StreamDeclares` reads the lengths
  and the clock at those positions;
* `FramesWhole`, for sessions of any length: what a receiver takes for a complete
  frame (packets in sequence on one clock, up to a marker) joins to the program stream
  of one unit that was sent whole, and every unit sent whole is such a frame.
  `FrameInv` follows the unit under way (`Underway(m)`: its first m payloads are the
  last m packets, joined to each other and to nothing before) and records of every
  marker whose it is (`Delivered`, `SentArrive`). It leans on the other invariants
  where a unit begins: a packet is not joined to the frame before it because the clock
  moved, nor to a unit cut short because a number is missing;
* `UnitsSurvive` and `PacketsBounded`, from `FramesWhole` and the parser's theorems, for
  well-formed content: no failure of a send and no way a unit is cut, into PES packets
  or into RTP packets, changes what the platform's parser gives back.

`MediaSession_proofs` also proves, for any offers, frames and number of INVITEs and
under `TalkbackAssumption` (any width of numbers and clock), `TalkbackTypeOK`,
`StreamFollowsFrames` and `OwnFramesLabelled` of `Talkback`. Frames lie in three places:
the queue, the hands of an aborted task that is still in its last poll, and the wire.
`InOrder` says that the host's numbers grow from the wire through those hands to the queue, so that no frame is in two of
them. `OwnInvite` says that every packet, and every task that may still send one,
belongs to an INVITE of its own, so that two tasks that overlap never number one
session. `Counting` says what the next packet of a task will be after the last one of
its session, modulo the widths. `Labelled` follows the law from the announcement
through the encoder's hands and the queue to the wire: the law announced is that of the
session in the slot if that sends, frames in the queue or being encoded are of the time
of sessions that were, so that none is of a new session's, and those of the time of a
session that may still send are in its law (`FramesFit`).

`InboundConnections_proofs` also proves these of `Requests`, for any bodies,
hosts, lists, page sizes and number of requests, copies and drops:

* `OneVerdict`, by `VerdictInv`: for every command that is owed a verdict (`Owing`:
  nothing of it was lost with a connection) what was handed to the host, what is being
  carried out and what was refused, together with what the effects still ahead will
  add to each, are as many as its receptions (`Accounted`). The property only speaks
  of commands that are done; the invariant has to know what is left of those that are
  not, and that the effects of a command are at most three of which at most one
  carries it out (`Orderly`). `CommandEffects` says so of `MessageEffects`, for every
  branch of the handler. An exchange counts once although tasks are a set: `SpawnsOnce`;
* `PagesAccumulate`, by adding `PagingInv`: a list query that was received once and not
  cut follows its plan (`PagePlan`: the final response, then its pages). The first
  effects of the plan went out at known places, nothing else about it did, and the
  rest is ahead. The plan's pages hold every item of the list at one place
  (`ListingIsList`, which rests on `PagesOfList` for `slice::chunks` and on the
  order in which `FlattenSeq` keeps the overlapping recordings).

`RequestsTypeOK` follows by `TypesInv`: every effect the handler plans is one the code
has (`DispatchTyped`, branch by branch and for answers of any length), and a connection
that may drop again is one that is not yet the last (`LinkTyped`).

Their hypotheses are `BodiesWellFormed` and `ListsDistinct` (`Requests`), which
`MCRequests` assumes of its instance so that TLC evaluates them, and `AbsentIsApart`:
the value that stands for `None` is no record, number or command. `ListsDistinct`
is needed because a recording listed twice is sent twice, and `BodiesWellFormed`
because a command that no handler takes and that names no device is answered by
nothing but its 200.

Each induction has one step per action, or per kind of step where many actions
leave the invariant's variables alone, and each invariant was checked by TLC on the
run's configuration before it was proved. Proved and in no run are the eight
`TypeOK`, `TalkbackTypeOK`, `RequestsTypeOK`, `TaskHasDialog`, `SubscriptionsOwned`,
`ControlReachesSession`, `ByeSilencesDialog`, `RegistrationIsGranted`, `RegisteredIsKeptAlive`,
`FailuresReact`, `BindingFollowsConnection` and `FramesWhole`.

The library's induction theorems take the formula to be proved as an operator, which
the installed provers cannot instantiate. Where a proof needs induction over a length
(`InboundConnections_proofs`, `MediaTask_proofs`) the lemma `Induction` takes a set of
numbers instead and finds the least one that is missing (`WFMin`,
`NatLessThanWellFounded`). `Recursion` builds from it the table of a function defined
step by step, and `FlattenTable` unfolds the library's `FlattenSeq` with that. The two
modules hold a copy of these lemmas each.

Only model-checked:

* every liveness property (`ReplacedSessionsDrain`, `ShutdownCompletes`,
  `ReplacedTasksEnd`, `PositionServed`, `DroppedConnectionRedials`, `LoopGetsFree`,
  `ReleasedSessionEnds`, `ExchangeReported`, `ShutdownEndsHandlers`, `QueueDrains`):
  liveness under fairness is out of the prover's reach.

## Not modelled

* Time of the SIP side. Refresh, silence and expiry are events that can come
  whenever their guards allow; that they come at the right moment is not claimed.
  Nor is the time window of a Note: a Note is fresh or not.
* Requests of the platform that arrive during a REGISTER exchange, which the code
  reads and drops, on the UDP loop: `Registration` receives nothing but responses.
  (`Handshake` drops them, as the code does.)
* The 64-entry NOTIFY channel of a connection: on the stream transports
  `send_notify` returns before it reaches it.
* XML and SIP text, character sets, device ids digit by digit, digest computation,
  the certificate chain, SM2, SM3 and SM4, TLS itself: stateless conversions and
  libraries, of which the models use what they carry.
* `run_broadcast_receiver`'s body, which takes the RTP header off what a broadcast
  sends and hands the rest to the sink; `MediaSession` has its task's start, abort and
  end.
* Configuration, metrics and the facade: no state of their own.

What would extend the models next: `Registration` composed with the request handlers,
so that a request lost to an exchange and its retransmission meet; and a `Registration`
with a clock, for the refresh interval that is computed from the first expiry and for
the silence timer that any datagram restarts.
