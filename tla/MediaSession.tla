----------------------------- MODULE MediaSession -----------------------------
(***************************************************************************)
(* The media slot of the device's SIP server (src/src/server.rs): the      *)
(* INVITE, BYE and voice-broadcast handlers, the media tasks they spawn    *)
(* and abort, the frame-source subscriptions those tasks consume through a *)
(* bridge thread, and the graceful shutdown.                               *)
(*                                                                         *)
(* The handlers take `&mut self` and run one at a time on the server's     *)
(* receive loop, so a handler is one step.  Spawned media tasks, bridge    *)
(* threads and the platform run beside it.  The platform's messages may    *)
(* arrive in any order, be duplicated (an INVITE or a BYE can be delivered *)
(* again at any time) or be lost.                                          *)
(*                                                                         *)
(* A session is named by the number of the media task spawned for it; the  *)
(* frame-source subscription and the 200 OK made for it carry that name.   *)
(***************************************************************************)
EXTENDS Naturals

CONSTANTS
    CallId,       \* Call-IDs of the platform's INVITE dialogs
    CSeq,         \* CSeq numbers of its INVITEs
    BroadcastId,  \* Call-IDs the device draws for its broadcast INVITEs; empty
                  \* when the platform sends no Broadcast notification
    AudioSink,    \* whether with_audio_sink() installed a talkback sink
    MaxSessions,  \* bound: media tasks spawned in one behaviour
    None          \* no Call-ID

ASSUME MediaSessionAssumption ==
    /\ CSeq \subseteq Nat
    /\ AudioSink \in BOOLEAN
    /\ MaxSessions \in Nat
    /\ CallId \cap BroadcastId = {}
    /\ None \notin CallId \cup BroadcastId

VARIABLES
    slot,      \* the server's media_task, invite_info, subscriber_id, playback_ctl
    tasks,     \* the media tasks on the runtime
    spawned,   \* how many were spawned
    hub,       \* subscriptions registered in the frame source
    bridges,   \* sync-to-async bridge threads still running
    pending,   \* broadcast_pending: the unanswered broadcast INVITE
    placed,    \* Call-IDs of the broadcast INVITEs sent so far
    reply,     \* the last thing the handlers put on the wire
    phase      \* "serving", or "stopped" after shutdown_cleanup

vars == <<slot, tasks, spawned, hub, bridges, pending, placed, reply, phase>>

NoTask  == 0
Id      == 1 .. MaxSessions
AnyCall == CallId \cup BroadcastId
Kind    == {"live", "playback", "talkback", "broadcast"}
TaskState == {"unborn", "running", "aborting", "ended"}

NoDialog  == [call_id |-> None, cseq |-> 0, answer |-> NoTask]
EmptySlot == [media_task |-> NoTask, invite_info |-> NoDialog,
              subscriber_id |-> NoTask, playback_ctl |-> NoTask]
NoPending == [call_id |-> None, expired |-> FALSE]
NoReply   == [method |-> "none", call_id |-> None, code |-> 0, answer |-> NoTask]
Answer(method, c, code, answer) ==
    [method |-> method, call_id |-> c, code |-> code, answer |-> answer]

Dialog == [call_id : AnyCall \cup {None}, cseq : CSeq \cup {0, 1},
           answer : Id \cup {NoTask}]

TypeOK ==
    /\ slot \in [media_task : Id \cup {NoTask}, invite_info : Dialog,
                 subscriber_id : Id \cup {NoTask}, playback_ctl : Id \cup {NoTask}]
    /\ tasks \in [Id -> [state : TaskState, kind : Kind, call_id : AnyCall \cup {None}]]
    /\ spawned \in 0 .. MaxSessions
    /\ hub \subseteq Id
    /\ bridges \subseteq Id
    /\ pending \in [call_id : BroadcastId \cup {None}, expired : BOOLEAN]
    /\ placed \subseteq BroadcastId
    /\ reply \in [method : {"none", "INVITE", "BYE", "BROADCAST", "ACK"},
                  call_id : AnyCall \cup {None}, code : {0, 200, 481, 488},
                  answer : Id \cup {NoTask}]
    /\ phase \in {"serving", "stopped"}

Init ==
    /\ slot = EmptySlot
    /\ tasks = [i \in Id |-> [state |-> "unborn", kind |-> "live", call_id |-> None]]
    /\ spawned = 0
    /\ hub = {}
    /\ bridges = {}
    /\ pending = NoPending
    /\ placed = {}
    /\ reply = NoReply
    /\ phase = "serving"

Running == {i \in Id : tasks[i].state = "running"}

-------------------------------------------------------------------------------
(* Taking the slot apart.                                                  *)

KeptHub == hub

(* subscriber_id.take() and FrameSource::unsubscribe. *)
UnsubscribedHub == hub \ {slot.subscriber_id}

KeptTasks == tasks

(* media_task.take() and JoinHandle::abort: a request the runtime serves at  *)
(* the task's next await.                                                    *)
AbortedTasks ==
    IF slot.media_task \in Running
    THEN [tasks EXCEPT ![slot.media_task].state = "aborting"]
    ELSE tasks

(* An INVITE recycles the session it finds, but only behind                  *)
(* `if self.media_task.is_some()`.                                           *)
Recycled ==
    IF slot.media_task # NoTask
    THEN [slot |-> EmptySlot, hub |-> UnsubscribedHub, tasks |-> AbortedTasks]
    ELSE [slot |-> slot, hub |-> hub, tasks |-> tasks]

-------------------------------------------------------------------------------
(* INVITE.                                                                 *)

NeverRetransmission(c, n) == FALSE

IsRetransmission(c, n) ==
    /\ slot.media_task # NoTask
    /\ slot.invite_info.call_id = c
    /\ slot.invite_info.cseq = n

(* The INVITE that established the current dialog arrives again: the cached  *)
(* 200 OK is sent again and nothing else happens.                            *)
InviteRetransmitted(c, n) ==
    /\ phase = "serving"
    /\ IsRetransmission(c, n)
    /\ reply' = Answer("INVITE", c, 200, slot.invite_info.answer)
    /\ UNCHANGED <<slot, tasks, spawned, hub, bridges, pending, placed, phase>>

(* playback_ctl: a recorded session installs its channel, a live session     *)
(* clears it, a talkback session leaves what the recycling left.             *)
ControlFor(k, id) ==
    CASE k = "playback" -> id
      [] k = "live"     -> NoTask
      [] OTHER          -> Recycled.slot.playback_ctl

SlotFor(c, n, k, id) ==
    [media_task    |-> id,
     invite_info   |-> [call_id |-> c, cseq |-> n, answer |-> id],
     subscriber_id |-> IF k = "live" THEN id ELSE Recycled.slot.subscriber_id,
     playback_ctl  |-> ControlFor(k, id)]

(* The frame source numbers its subscriptions with a counter. *)
FreshNumber == spawned + 1

SpawnedTask(k, c) == [state |-> "running", kind |-> k, call_id |-> c]

(* Accepted: 200 OK, dialog, media task; a live session also subscribes to   *)
(* the frame source and starts a bridge thread.                              *)
InviteAccepted(c, n, k) ==
    LET id == FreshNumber IN
    /\ phase = "serving"
    /\ ~IsRetransmission(c, n)
    /\ k = "talkback" => AudioSink
    /\ spawned < MaxSessions
    /\ spawned' = id
    /\ slot' = SlotFor(c, n, k, id)
    /\ tasks' = [Recycled.tasks EXCEPT ![id] = SpawnedTask(k, c)]
    /\ hub' = IF k = "live" THEN Recycled.hub \cup {id} ELSE Recycled.hub
    /\ bridges' = IF k = "live" THEN bridges \cup {id} ELSE bridges
    /\ reply' = Answer("INVITE", c, 200, id)
    /\ UNCHANGED <<pending, placed, phase>>

(* 488: no recording in the range, no sink, codec or transport unsupported.  *)
(* The previous session is already recycled when the refusal is decided.     *)
InviteRefused(c, n) ==
    /\ phase = "serving"
    /\ ~IsRetransmission(c, n)
    /\ slot' = Recycled.slot
    /\ tasks' = Recycled.tasks
    /\ hub' = Recycled.hub
    /\ reply' = Answer("INVITE", c, 488, NoTask)
    /\ UNCHANGED <<spawned, bridges, pending, placed, phase>>

(* The handler returns Err after the recycling: binding the media socket or  *)
(* parsing the media address failed (nothing was answered), or the TCP media *)
(* connection was refused (the 200 OK is already on the wire).               *)
InviteFails(c, n) ==
    /\ phase = "serving"
    /\ ~IsRetransmission(c, n)
    /\ slot' = Recycled.slot
    /\ tasks' = Recycled.tasks
    /\ hub' = Recycled.hub
    /\ reply' \in {NoReply, Answer("INVITE", c, 200, NoTask)}
    /\ UNCHANGED <<spawned, bridges, pending, placed, phase>>

-------------------------------------------------------------------------------
(* BYE.                                                                    *)

KnowsDialog(c) ==
    /\ slot.media_task # NoTask
    /\ slot.invite_info.call_id = c

ByeStopsSession(c) ==
    /\ phase = "serving"
    /\ KnowsDialog(c)
    /\ slot' = EmptySlot
    /\ tasks' = AbortedTasks
    /\ hub' = UnsubscribedHub
    /\ reply' = Answer("BYE", c, 200, NoTask)
    /\ UNCHANGED <<spawned, bridges, pending, placed, phase>>

(* No dialog, or another dialog's Call-ID: 481 and no side effect. *)
ByeUnknown(c) ==
    /\ phase = "serving"
    /\ ~KnowsDialog(c)
    /\ reply' = Answer("BYE", c, 481, NoTask)
    /\ UNCHANGED <<slot, tasks, spawned, hub, bridges, pending, placed, phase>>

Bye(c) == ByeStopsSession(c) \/ ByeUnknown(c)

-------------------------------------------------------------------------------
(* Voice broadcast.                                                        *)

(* Without a sink the notification is answered with a refusal and changes    *)
(* nothing.                                                                 *)
(*                                                                           *)
(* With a sink the handler takes the media task out of the slot and aborts   *)
(* it, leaving the rest of the slot, then places its own INVITE under a      *)
(* fresh Call-ID b; an earlier unanswered INVITE is forgotten.               *)
BroadcastPlaced(b) ==
    /\ phase = "serving"
    /\ AudioSink
    /\ b \notin placed
    /\ slot' = [slot EXCEPT !.media_task = NoTask]
    /\ tasks' = AbortedTasks
    /\ pending' = [call_id |-> b, expired |-> FALSE]
    /\ placed' = placed \cup {b}
    /\ reply' = Answer("BROADCAST", b, 0, NoTask)
    /\ UNCHANGED <<spawned, hub, bridges, phase>>

(* As BroadcastPlaced, but binding the socket or sending the INVITE failed.  *)
BroadcastFails ==
    /\ phase = "serving"
    /\ AudioSink
    /\ BroadcastId # {}
    /\ slot' = [slot EXCEPT !.media_task = NoTask]
    /\ tasks' = AbortedTasks
    /\ reply' = NoReply
    /\ UNCHANGED <<spawned, hub, bridges, pending, placed, phase>>

KeepsPending == pending

TakenPending == NoPending

(* Only the dialog and the task handle are overwritten: what the slot held   *)
(* of an earlier session stays.                                              *)
AnsweredSlot(b, id) ==
    [slot EXCEPT !.media_task = id,
                 !.invite_info = [call_id |-> b, cseq |-> 1, answer |-> NoTask]]

(* 200 OK to the pending INVITE: ACK, and the receiver takes over the slot's *)
(* dialog and task handle.                                                   *)
BroadcastAnswered(b) ==
    LET id == FreshNumber IN
    /\ phase = "serving"
    /\ pending.call_id = b
    /\ spawned < MaxSessions
    /\ spawned' = id
    /\ pending' = TakenPending
    /\ slot' = AnsweredSlot(b, id)
    /\ tasks' = [tasks EXCEPT ![id] = SpawnedTask("broadcast", b)]
    /\ reply' = Answer("ACK", b, 0, NoTask)
    /\ UNCHANGED <<hub, bridges, placed, phase>>

(* Any other status, a provisional 1xx included, drops the pending INVITE;   *)
(* so does a 200 OK whose ACK cannot be sent.                                *)
BroadcastRejected(b) ==
    /\ phase = "serving"
    /\ pending.call_id = b
    /\ pending' = NoPending
    /\ reply' = NoReply
    /\ UNCHANGED <<slot, tasks, spawned, hub, bridges, placed, phase>>

(* Five seconds pass; the pending INVITE goes only when a response that is   *)
(* not its own arrives.                                                      *)
AnswerWindowPasses ==
    /\ pending # NoPending
    /\ ~pending.expired
    /\ pending' = [pending EXCEPT !.expired = TRUE]
    /\ UNCHANGED <<slot, tasks, spawned, hub, bridges, placed, reply, phase>>

OtherResponse ==
    /\ phase = "serving"
    /\ pending.expired
    /\ pending' = NoPending
    /\ UNCHANGED <<slot, tasks, spawned, hub, bridges, placed, reply, phase>>

-------------------------------------------------------------------------------
(* The tasks and threads beside the receive loop.                          *)

(* A media task returns by itself: recording exhausted, 25 access units in a *)
(* row undeliverable, a socket error.  The slot still holds its handle.      *)
TaskFinishes(i) ==
    /\ tasks[i].state = "running"
    /\ tasks' = [tasks EXCEPT ![i].state = "ended"]
    /\ UNCHANGED <<slot, spawned, hub, bridges, pending, placed, reply, phase>>

(* The runtime drops an aborted task. *)
TaskAborted(i) ==
    /\ tasks[i].state = "aborting"
    /\ tasks' = [tasks EXCEPT ![i].state = "ended"]
    /\ UNCHANGED <<slot, spawned, hub, bridges, pending, placed, reply, phase>>

(* The frame source dropped the sender: sync_rx.recv() fails. *)
BridgeUnsubscribed(i) ==
    /\ i \in bridges
    /\ i \notin hub
    /\ bridges' = bridges \ {i}
    /\ UNCHANGED <<slot, tasks, spawned, hub, pending, placed, reply, phase>>

(* A frame arrives for a task that is gone: blocking_send fails.  The        *)
(* subscription stays registered.                                            *)
BridgeReceiverGone(i) ==
    /\ i \in bridges
    /\ tasks[i].state = "ended"
    /\ bridges' = bridges \ {i}
    /\ UNCHANGED <<slot, tasks, spawned, hub, pending, placed, reply, phase>>

(* The shutdown signal wins the select of the run loop: shutdown_cleanup. *)
Shutdown ==
    /\ phase = "serving"
    /\ phase' = "stopped"
    /\ slot' = EmptySlot
    /\ tasks' = AbortedTasks
    /\ hub' = UnsubscribedHub
    /\ pending' = NoPending
    /\ UNCHANGED <<spawned, bridges, placed, reply>>

-------------------------------------------------------------------------------
Handlers ==
    \/ \E c \in CallId, n \in CSeq :
          \/ InviteRetransmitted(c, n)
          \/ \E k \in {"live", "playback", "talkback"} : InviteAccepted(c, n, k)
          \/ InviteRefused(c, n)
          \/ InviteFails(c, n)
    \/ \E c \in AnyCall : Bye(c)
    \/ \E b \in BroadcastId : \/ BroadcastPlaced(b)
                              \/ BroadcastAnswered(b)
                              \/ BroadcastRejected(b)
    \/ BroadcastFails
    \/ OtherResponse

Background ==
    \/ AnswerWindowPasses
    \/ \E i \in Id : \/ TaskFinishes(i)
                     \/ TaskAborted(i)
                     \/ BridgeUnsubscribed(i)
                     \/ BridgeReceiverGone(i)

Next == Handlers \/ Background \/ Shutdown

Spec == Init /\ [][Next]_vars

(* The runtime serves an abort, and a bridge thread whose sender was dropped *)
(* wakes up.  Nothing is assumed of the platform, of the camera's frames or  *)
(* of a task ending by itself.                                               *)
Fairness == \A i \in Id : WF_vars(TaskAborted(i)) /\ WF_vars(BridgeUnsubscribed(i))

FairSpec == Spec /\ Fairness

-------------------------------------------------------------------------------
(* Properties.                                                             *)

(* "single session at a time": every task that still runs and was not told   *)
(* to stop is the one whose handle the slot holds, so BYE, the next INVITE   *)
(* and shutdown can reach it.                                                *)
OneSession == Running \subseteq {slot.media_task}

(* Every subscription in the frame source is the one the slot will           *)
(* unsubscribe, and belongs to the session in the slot: nothing is left      *)
(* registered by a session that was replaced, refused, ended or shut down.   *)
SubscriptionsOwned ==
    /\ hub \subseteq {slot.subscriber_id}
    /\ slot.subscriber_id # NoTask => slot.subscriber_id = slot.media_task

(* The control channel kept for SIP INFO is the current recorded session's:  *)
(* a PAUSE or SEEK can never reach a session other than the one in the slot. *)
ControlReachesSession ==
    slot.playback_ctl # NoTask =>
        /\ slot.playback_ctl = slot.media_task
        /\ tasks[slot.media_task].kind = "playback"

(* After a BYE was answered, with 200 or with 481, no task serves that       *)
(* dialog any more: 481 is only said of dialogs the device does not serve.   *)
ByeSilencesDialog ==
    reply.method = "BYE" =>
        \A i \in Running : tasks[i].call_id # reply.call_id

(* The task in the slot serves the dialog in the slot; in particular the     *)
(* branch "INVITE with no dialog tracked" of handle_invite is unreachable.   *)
TaskHasDialog ==
    slot.media_task # NoTask =>
        /\ slot.invite_info.call_id # None
        /\ tasks[slot.media_task].call_id = slot.invite_info.call_id

(* A broadcast INVITE is completed at most once, although its 200 OK may be  *)
(* delivered several times: no Call-ID has two receivers.                    *)
BroadcastCompletedOnce ==
    \A i, j \in Id :
        /\ tasks[i].kind = "broadcast" /\ tasks[j].kind = "broadcast"
        /\ tasks[i].call_id = tasks[j].call_id
        /\ tasks[i].call_id # None
        => i = j

(* Once a session is out of the slot its task and its bridge thread are      *)
(* eventually gone, whatever replaced it and also after shutdown: "spawned   *)
(* tasks do not outlive the server".                                         *)
ReplacedSessionsDrain ==
    \A i \in Id :
        (slot.media_task # i) ~>
            (tasks[i].state \in {"unborn", "ended"} /\ i \notin bridges)

(* Graceful shutdown unsubscribes from the frame source and aborts every     *)
(* active media task.                                                        *)
ShutdownReleases == phase = "stopped" => hub = {} /\ Running = {}

(* The abstract slot: the session is the dialog whose task the slot holds.   *)
Session ==
    IF slot.media_task = NoTask
    THEN NoDialog
    ELSE [invite |-> <<slot.invite_info.call_id, slot.invite_info.cseq>>,
          id |-> slot.media_task]

Slot == INSTANCE SingleSession
            WITH Transaction <- CallId \X CSeq, Session <- Id, NoSession <- NoDialog,
                 session <- Session, serving <- Running, open <- phase = "serving"

(* The server implements the abstract single-session slot. *)
ImplementsSingleSession == Slot!Spec
===============================================================================
