------------------------- MODULE MediaSession_proofs -------------------------
(***************************************************************************)
(* Proofs about MediaSession for every set of dialogs, CSeq numbers and    *)
(* broadcast Call-IDs and every bound on the sessions; then about Talkback,*)
(* the audio session in the other direction, for all offers and frames.    *)
(***************************************************************************)
EXTENDS MediaSession, Talkback, TLAPS

(* Task numbers are handed out in order and the slot holds one of them.    *)
Numbering ==
    /\ \A i \in Id : tasks[i].state = "unborn" <=> i > spawned
    /\ slot.media_task <= spawned

(* A broadcast task's Call-ID was placed and is no longer pending.         *)
Ledger ==
    /\ pending.call_id \in placed \cup {None}
    /\ \A i \in Id : tasks[i].kind = "broadcast" =>
          /\ tasks[i].call_id \in placed
          /\ tasks[i].call_id # pending.call_id

(* The inductive invariant that holds in every deployment.                 *)
Core == TypeOK /\ Numbering /\ TaskHasDialog /\ Ledger /\ BroadcastCompletedOnce

(* Outside of a session the slot holds nothing at all; this is what the    *)
(* broadcast handlers break.                                               *)
EmptyWithoutTask == slot.media_task = NoTask => slot = EmptySlot

(* The inductive invariant of the deployments without broadcasts.          *)
Video == /\ Core
         /\ EmptyWithoutTask
         /\ OneSession
         /\ SubscriptionsOwned
         /\ ControlReachesSession
         /\ ByeSilencesDialog
         /\ phase = "stopped" => slot.media_task = NoTask

-------------------------------------------------------------------------------
(* Aborting keeps the type of the task table and, of a task, everything but  *)
(* its state; no task is born or starts running, and the slot's task is not  *)
(* running afterwards.                                                       *)
LEMMA AbortKeeps ==
    ASSUME TypeOK
    PROVE  /\ AbortedTasks \in [Id -> [state : TaskState, kind : Kind,
                                       call_id : AnyCall \cup {None}]]
           /\ \A i \in Id :
                 /\ AbortedTasks[i].kind = tasks[i].kind
                 /\ AbortedTasks[i].call_id = tasks[i].call_id
                 /\ AbortedTasks[i].state = "unborn" <=> tasks[i].state = "unborn"
                 /\ AbortedTasks[i].state = "running" <=>
                       tasks[i].state = "running" /\ i # slot.media_task
<1>1. CASE slot.media_task \in Running
  BY <1>1 DEF AbortedTasks, TypeOK, Running, TaskState
<1>2. CASE slot.media_task \notin Running
  BY <1>2 DEF AbortedTasks, TypeOK, Running
<1>3. QED
  BY <1>1, <1>2

(* What an INVITE that is no retransmission finds after the recycling.       *)
LEMMA RecycleKeeps ==
    ASSUME TypeOK
    PROVE  /\ Recycled.slot = (IF slot.media_task # NoTask THEN EmptySlot ELSE slot)
           /\ Recycled.slot.media_task = NoTask
           /\ Recycled.slot \in [media_task : Id \cup {NoTask}, invite_info : Dialog,
                                 subscriber_id : Id \cup {NoTask},
                                 playback_ctl : Id \cup {NoTask}]
           /\ Recycled.hub = (IF slot.media_task # NoTask THEN hub \ {slot.subscriber_id}
                              ELSE hub)
           /\ Recycled.tasks \in [Id -> [state : TaskState, kind : Kind,
                                         call_id : AnyCall \cup {None}]]
           /\ \A i \in Id :
                 /\ Recycled.tasks[i].kind = tasks[i].kind
                 /\ Recycled.tasks[i].call_id = tasks[i].call_id
                 /\ Recycled.tasks[i].state = "unborn" <=> tasks[i].state = "unborn"
                 /\ Recycled.tasks[i].state = "running" <=>
                       tasks[i].state = "running" /\ i # slot.media_task
<1>1. NoTask \notin Id
  BY DEF NoTask, Id
<1>2. CASE slot.media_task # NoTask
  BY <1>2, AbortKeeps DEF Recycled, UnsubscribedHub, EmptySlot, NoDialog, Dialog, NoTask
<1>3. CASE slot.media_task = NoTask
  BY <1>1, <1>3 DEF Recycled, TypeOK
<1>4. QED
  BY <1>2, <1>3

-------------------------------------------------------------------------------
LEMMA CoreInit == Init => Core
<1>1. SUFFICES ASSUME Init PROVE Core
  OBVIOUS
<1>2. TypeOK
  <2>1. EmptySlot \in [media_task : Id \cup {NoTask}, invite_info : Dialog,
                        subscriber_id : Id \cup {NoTask}, playback_ctl : Id \cup {NoTask}]
    BY DEF EmptySlot, NoDialog, Dialog
  <2>2. tasks \in [Id -> [state : TaskState, kind : Kind, call_id : AnyCall \cup {None}]]
    BY <1>1 DEF Init, TaskState, Kind
  <2>3. /\ spawned \in 0 .. MaxSessions
        /\ pending \in [call_id : BroadcastId \cup {None}, expired : BOOLEAN]
        /\ reply \in [method : {"none", "INVITE", "BYE", "BROADCAST", "ACK"},
                      call_id : AnyCall \cup {None}, code : {0, 200, 481, 488},
                      answer : Id \cup {NoTask}]
    BY <1>1, MediaSessionAssumption DEF Init, NoPending, NoReply
  <2>4. QED
    BY <1>1, <2>1, <2>2, <2>3 DEF Init, TypeOK
<1>3. Numbering
  BY <1>1, MediaSessionAssumption DEF Init, Numbering, EmptySlot, NoTask, Id
<1>4. TaskHasDialog /\ Ledger /\ BroadcastCompletedOnce
  BY <1>1 DEF Init, TaskHasDialog, Ledger, BroadcastCompletedOnce, EmptySlot, NoPending
<1>5. QED
  BY <1>2, <1>3, <1>4 DEF Core

(* Every step keeps Core: one step of the proof per action.                  *)
LEMMA CoreStep == Core /\ [Next]_vars => Core'
<1> SUFFICES ASSUME Core, [Next]_vars PROVE Core'
  OBVIOUS
<1> USE MediaSessionAssumption DEF Core, NoTask
<1>1. ASSUME NEW c \in CallId, NEW n \in CSeq, InviteRetransmitted(c, n) PROVE Core'
  BY <1>1 DEF InviteRetransmitted, TypeOK, Dialog, Answer, AnyCall, Numbering, TaskHasDialog,
              Ledger, BroadcastCompletedOnce
<1>2. ASSUME NEW c \in CallId, NEW n \in CSeq, NEW k \in {"live", "playback", "talkback"},
             InviteAccepted(c, n, k)
      PROVE  Core'
  <2> DEFINE id == FreshNumber
  <2>1. id \in Id /\ spawned' = id /\ id = spawned + 1
    BY <1>2 DEF InviteAccepted, FreshNumber, Id, TypeOK
  <2>2. tasks' = [Recycled.tasks EXCEPT ![id] = SpawnedTask(k, c)]
    BY <1>2 DEF InviteAccepted
  <2>3. SpawnedTask(k, c) \in [state : TaskState, kind : Kind, call_id : AnyCall \cup {None}]
    BY DEF SpawnedTask, TaskState, Kind, AnyCall
  <2>4. slot' \in [media_task : Id \cup {NoTask}, invite_info : Dialog,
                   subscriber_id : Id \cup {NoTask}, playback_ctl : Id \cup {NoTask}]
    <3>1. slot' = SlotFor(c, n, k, id)
      BY <1>2 DEF InviteAccepted
    <3>2. ControlFor(k, id) \in Id \cup {NoTask}
      BY <2>1, RecycleKeeps DEF ControlFor
    <3>3. [call_id |-> c, cseq |-> n, answer |-> id] \in Dialog
      BY <2>1 DEF Dialog, AnyCall
    <3>4. QED
      BY <2>1, <3>1, <3>2, <3>3, RecycleKeeps DEF SlotFor
  <2>5. TypeOK'
    <3>1. hub' \subseteq Id /\ bridges' \subseteq Id
      <4>1. Recycled.hub \subseteq Id
        BY RecycleKeeps DEF TypeOK
      <4>2. hub' \subseteq Recycled.hub \cup {id} /\ bridges' \subseteq bridges \cup {id}
        BY <1>2 DEF InviteAccepted
      <4>3. QED
        BY <2>1, <4>1, <4>2 DEF TypeOK
    <3>2. reply' \in [method : {"none", "INVITE", "BYE", "BROADCAST", "ACK"},
                      call_id : AnyCall \cup {None}, code : {0, 200, 481, 488},
                      answer : Id \cup {NoTask}]
      BY <1>2, <2>1 DEF InviteAccepted, Answer, AnyCall
    <3>3. tasks' \in [Id -> [state : TaskState, kind : Kind, call_id : AnyCall \cup {None}]]
      BY <2>2, <2>3, RecycleKeeps
    <3>4. spawned' \in 0 .. MaxSessions
      BY <2>1 DEF Id
    <3>5. QED
      BY <1>2, <2>4, <3>1, <3>2, <3>3, <3>4 DEF InviteAccepted, TypeOK
  <2>6. Numbering'
    <3>1. slot'.media_task = id
      BY <1>2 DEF InviteAccepted, SlotFor
    <3>2. \A i \in Id : tasks'[i].state = "unborn" <=> i > spawned'
      BY <2>1, <2>2, RecycleKeeps DEF Numbering, SpawnedTask, Id, TypeOK
    <3>3. QED
      BY <2>1, <3>1, <3>2 DEF Numbering, Id
  <2>7. TaskHasDialog'
    <3>1. slot'.media_task = id /\ slot'.invite_info.call_id = c
      BY <1>2 DEF InviteAccepted, SlotFor
    <3>2. tasks'[id].call_id = c
      BY <2>1, <2>2, RecycleKeeps DEF SpawnedTask
    <3>3. QED
      BY <3>1, <3>2 DEF TaskHasDialog, AnyCall
  <2>8. Ledger' /\ BroadcastCompletedOnce'
    <3>1. \A i \in Id : IF i = id THEN tasks'[i].kind # "broadcast"
                        ELSE tasks'[i].kind = tasks[i].kind /\ tasks'[i].call_id = tasks[i].call_id
      BY <2>1, <2>2, RecycleKeeps DEF SpawnedTask
    <3>2. UNCHANGED <<pending, placed>>
      BY <1>2 DEF InviteAccepted
    <3>3. QED
      BY <3>1, <3>2 DEF Ledger, BroadcastCompletedOnce
  <2>9. QED
    BY <2>5, <2>6, <2>7, <2>8
<1>3. ASSUME NEW c \in CallId, NEW n \in CSeq, InviteRefused(c, n) \/ InviteFails(c, n)
      PROVE  Core'
  <2>1. /\ slot' = Recycled.slot /\ hub' = Recycled.hub /\ tasks' = Recycled.tasks
        /\ UNCHANGED <<spawned, bridges, pending, placed, phase>>
    BY <1>3 DEF InviteRefused, InviteFails
  <2>2. reply' \in [method : {"none", "INVITE", "BYE", "BROADCAST", "ACK"},
                    call_id : AnyCall \cup {None}, code : {0, 200, 481, 488},
                    answer : Id \cup {NoTask}]
    BY <1>3 DEF InviteRefused, InviteFails, Answer, NoReply, AnyCall
  <2>3. TypeOK'
    BY <2>1, <2>2, RecycleKeeps DEF TypeOK
  <2>4. Numbering' /\ TaskHasDialog' /\ Ledger' /\ BroadcastCompletedOnce'
    BY <2>1, RecycleKeeps DEF Numbering, TaskHasDialog, Ledger, BroadcastCompletedOnce, TypeOK
  <2>5. QED
    BY <2>3, <2>4
<1>4. ASSUME NEW c \in AnyCall, Bye(c) PROVE Core'
  <2>1. CASE ByeUnknown(c)
    BY <2>1 DEF ByeUnknown, TypeOK, Answer, Numbering, TaskHasDialog, Ledger,
                BroadcastCompletedOnce
  <2>2. CASE ByeStopsSession(c)
    <3>1. TypeOK'
      BY <2>2, AbortKeeps DEF ByeStopsSession, TypeOK, Answer, EmptySlot, NoDialog, Dialog,
                              UnsubscribedHub
    <3>2. Numbering' /\ TaskHasDialog' /\ Ledger' /\ BroadcastCompletedOnce'
      BY <2>2, AbortKeeps DEF ByeStopsSession, Numbering, TaskHasDialog, Ledger,
                              BroadcastCompletedOnce, EmptySlot, TypeOK
    <3>3. QED
      BY <3>1, <3>2
  <2>3. QED
    BY <1>4, <2>1, <2>2 DEF Bye
<1>5. ASSUME NEW b \in BroadcastId, BroadcastPlaced(b) PROVE Core'
  <2>1. TypeOK'
    <3>1. /\ pending' \in [call_id : BroadcastId \cup {None}, expired : BOOLEAN]
          /\ placed' \subseteq BroadcastId
          /\ reply' \in [method : {"none", "INVITE", "BYE", "BROADCAST", "ACK"},
                        call_id : AnyCall \cup {None}, code : {0, 200, 481, 488},
                        answer : Id \cup {NoTask}]
      BY <1>5 DEF BroadcastPlaced, TypeOK, Answer, AnyCall
    <3>2. slot' \in [media_task : Id \cup {NoTask}, invite_info : Dialog,
                    subscriber_id : Id \cup {NoTask}, playback_ctl : Id \cup {NoTask}]
      BY <1>5 DEF BroadcastPlaced, TypeOK
    <3>3. QED
      BY <1>5, <3>1, <3>2, AbortKeeps DEF BroadcastPlaced, TypeOK
  <2>2. Numbering' /\ TaskHasDialog'
    BY <1>5, AbortKeeps DEF BroadcastPlaced, Numbering, TaskHasDialog, TypeOK
  <2>3. Ledger' /\ BroadcastCompletedOnce'
    BY <1>5, AbortKeeps DEF BroadcastPlaced, Ledger, BroadcastCompletedOnce, TypeOK
  <2>4. QED
    BY <2>1, <2>2, <2>3
<1>6. CASE BroadcastFails
  <2>1. TypeOK'
    BY <1>6, AbortKeeps DEF BroadcastFails, TypeOK, NoReply
  <2>2. Numbering' /\ TaskHasDialog' /\ Ledger' /\ BroadcastCompletedOnce'
    BY <1>6, AbortKeeps DEF BroadcastFails, Numbering, TaskHasDialog, Ledger,
                            BroadcastCompletedOnce, TypeOK
  <2>3. QED
    BY <2>1, <2>2
<1>7. ASSUME NEW b \in BroadcastId, BroadcastAnswered(b) PROVE Core'
  <2> DEFINE id == FreshNumber
  <2>1. id \in Id /\ spawned' = id /\ id = spawned + 1
    BY <1>7 DEF BroadcastAnswered, FreshNumber, Id, TypeOK
  <2>2. tasks' = [tasks EXCEPT ![id] = SpawnedTask("broadcast", b)]
    BY <1>7 DEF BroadcastAnswered
  <2>3. b \in AnyCall /\ b # None /\ b = pending.call_id /\ b \in placed
    BY <1>7 DEF BroadcastAnswered, AnyCall, Ledger
  <2>4. /\ slot'.media_task = id
        /\ slot'.invite_info = [call_id |-> b, cseq |-> 1, answer |-> NoTask]
        /\ slot' \in [media_task : Id \cup {NoTask}, invite_info : Dialog,
                      subscriber_id : Id \cup {NoTask}, playback_ctl : Id \cup {NoTask}]
    <3>1. [call_id |-> b, cseq |-> 1, answer |-> NoTask] \in Dialog
      BY <2>3 DEF Dialog
    <3>2. slot' = AnsweredSlot(b, id)
      BY <1>7 DEF BroadcastAnswered
    <3>3. slot \in [media_task : Id \cup {NoTask}, invite_info : Dialog,
                    subscriber_id : Id \cup {NoTask}, playback_ctl : Id \cup {NoTask}]
      BY DEF TypeOK
    <3>4. AnsweredSlot(b, id).media_task = id
      BY <3>3 DEF AnsweredSlot
    <3>5. AnsweredSlot(b, id).invite_info = [call_id |-> b, cseq |-> 1, answer |-> NoTask]
      BY <3>3 DEF AnsweredSlot
    <3>6. AnsweredSlot(b, id) \in
             [media_task : Id \cup {NoTask}, invite_info : Dialog,
              subscriber_id : Id \cup {NoTask}, playback_ctl : Id \cup {NoTask}]
      BY <2>1, <3>1, <3>3 DEF AnsweredSlot
    <3>7. QED
      BY <3>2, <3>4, <3>5, <3>6
  <2>5. TypeOK'
    <3>1. SpawnedTask("broadcast", b) \in
             [state : TaskState, kind : Kind, call_id : AnyCall \cup {None}]
      BY <2>3 DEF SpawnedTask, TaskState, Kind
    <3>2. tasks' \in [Id -> [state : TaskState, kind : Kind, call_id : AnyCall \cup {None}]]
      BY <2>2, <3>1 DEF TypeOK
    <3>3. pending' \in [call_id : BroadcastId \cup {None}, expired : BOOLEAN]
      BY <1>7 DEF BroadcastAnswered, TakenPending, NoPending
    <3>4. reply' \in [method : {"none", "INVITE", "BYE", "BROADCAST", "ACK"},
                      call_id : AnyCall \cup {None}, code : {0, 200, 481, 488},
                      answer : Id \cup {NoTask}]
      BY <1>7, <2>3 DEF BroadcastAnswered, Answer
    <3>5. spawned' \in 0 .. MaxSessions
      BY <2>1 DEF Id
    <3>6. QED
      BY <1>7, <2>4, <3>2, <3>3, <3>4, <3>5 DEF BroadcastAnswered, TypeOK
  <2>6. Numbering'
    <3>1. \A i \in Id : tasks'[i].state = "unborn" <=> i > spawned'
      BY <2>1, <2>2 DEF Numbering, SpawnedTask, Id, TypeOK
    <3>2. QED
      BY <2>1, <2>4, <3>1 DEF Numbering, Id
  <2>7. TaskHasDialog'
    BY <2>1, <2>2, <2>3, <2>4 DEF TaskHasDialog, SpawnedTask, TypeOK
  <2>8. Ledger' /\ BroadcastCompletedOnce'
    <3>1. \A i \in Id : IF i = id
                        THEN tasks'[i].kind = "broadcast" /\ tasks'[i].call_id = b
                        ELSE tasks'[i] = tasks[i]
      BY <2>1, <2>2 DEF SpawnedTask, TypeOK
    <3>2. pending'.call_id = None /\ placed' = placed
      BY <1>7 DEF BroadcastAnswered, TakenPending, NoPending
    <3>3. None \notin placed
      BY DEF TypeOK
    <3>4. QED
      BY <2>3, <3>1, <3>2, <3>3 DEF Ledger, BroadcastCompletedOnce
  <2>9. QED
    BY <2>5, <2>6, <2>7, <2>8
<1>8. CASE (\E b \in BroadcastId : BroadcastRejected(b)) \/ OtherResponse \/ AnswerWindowPasses
  <2>1. /\ pending' \in [call_id : BroadcastId \cup {None}, expired : BOOLEAN]
        /\ pending'.call_id \in {pending.call_id, None}
        /\ reply' \in {reply, NoReply}
        /\ UNCHANGED <<slot, tasks, spawned, hub, bridges, placed, phase>>
    <3>1. CASE AnswerWindowPasses
      <4>1. /\ pending' = [pending EXCEPT !.expired = TRUE]
            /\ UNCHANGED <<slot, tasks, spawned, hub, bridges, placed, phase, reply>>
        BY <3>1 DEF AnswerWindowPasses
      <4>2. pending \in [call_id : BroadcastId \cup {None}, expired : BOOLEAN]
        BY DEF TypeOK
      <4>3. /\ pending' \in [call_id : BroadcastId \cup {None}, expired : BOOLEAN]
            /\ pending'.call_id = pending.call_id
        BY <4>1, <4>2
      <4> QED
        BY <4>1, <4>3
    <3>2. NoPending \in [call_id : BroadcastId \cup {None}, expired : BOOLEAN]
      BY DEF NoPending
    <3>3. ASSUME NEW b \in BroadcastId, BroadcastRejected(b)
          PROVE  pending' = NoPending /\ reply' = NoReply
                 /\ UNCHANGED <<slot, tasks, spawned, hub, bridges, placed, phase>>
      BY <3>3 DEF BroadcastRejected
    <3>4. CASE OtherResponse
      BY <3>2, <3>4 DEF OtherResponse, NoPending
    <3>5. CASE \E b \in BroadcastId : BroadcastRejected(b)
      BY <3>2, <3>3, <3>5 DEF NoPending
    <3>6. QED
      BY <1>8, <3>1, <3>4, <3>5
  <2>2. TypeOK'
    BY <2>1 DEF TypeOK, NoReply
  <2>3. None \notin placed
    BY DEF TypeOK
  <2>4. Numbering' /\ TaskHasDialog' /\ Ledger' /\ BroadcastCompletedOnce'
    BY <2>1, <2>3 DEF Numbering, TaskHasDialog, Ledger, BroadcastCompletedOnce
  <2>5. QED
    BY <2>2, <2>4
<1>9. ASSUME NEW i \in Id, TaskFinishes(i) \/ TaskAborted(i) PROVE Core'
  <2>1. /\ tasks' = [tasks EXCEPT ![i].state = "ended"]
        /\ tasks[i].state # "unborn"
        /\ UNCHANGED <<slot, spawned, hub, bridges, pending, placed, reply, phase>>
    BY <1>9 DEF TaskFinishes, TaskAborted
  <2>2. TypeOK'
    BY <2>1 DEF TypeOK, TaskState
  <2>3. Numbering' /\ TaskHasDialog' /\ Ledger' /\ BroadcastCompletedOnce'
    BY <2>1 DEF Numbering, TaskHasDialog, Ledger, BroadcastCompletedOnce, TypeOK
  <2>4. QED
    BY <2>2, <2>3
<1>10. ASSUME NEW i \in Id, BridgeUnsubscribed(i) \/ BridgeReceiverGone(i) PROVE Core'
  BY <1>10 DEF BridgeUnsubscribed, BridgeReceiverGone, TypeOK, Numbering, TaskHasDialog,
               Ledger, BroadcastCompletedOnce
<1>11. CASE Shutdown
  <2>1. TypeOK'
    BY <1>11, AbortKeeps DEF Shutdown, TypeOK, EmptySlot, NoDialog, Dialog, NoPending,
                             UnsubscribedHub
  <2>2. None \notin placed
    BY DEF TypeOK
  <2>3. Numbering' /\ TaskHasDialog' /\ Ledger' /\ BroadcastCompletedOnce'
    BY <1>11, <2>2, AbortKeeps DEF Shutdown, Numbering, TaskHasDialog, Ledger,
                                   BroadcastCompletedOnce, EmptySlot, NoPending, TypeOK
  <2>4. QED
    BY <2>1, <2>3
<1>12. CASE UNCHANGED vars
  BY <1>12 DEF vars, TypeOK, Numbering, TaskHasDialog, Ledger, BroadcastCompletedOnce
<1>13. QED
  BY <1>1, <1>2, <1>3, <1>4, <1>5, <1>6, <1>7, <1>8, <1>9, <1>10, <1>11, <1>12
  DEF Next, Handlers, Background

(* The types of all variables, in every deployment.                          *)
THEOREM TypeCorrect == Spec => []TypeOK
<1>1. Core => TypeOK
  BY DEF Core
<1>2. QED
  BY CoreInit, CoreStep, <1>1, PTL DEF Spec

(* With or without broadcasts, the task in the slot serves the dialog in the *)
(* slot (handle_invite's "no dialog tracked" branch is dead code).           *)
THEOREM DialogTracked == Spec => []TaskHasDialog
<1>1. Core => TaskHasDialog
  BY DEF Core
<1>2. QED
  BY CoreInit, CoreStep, <1>1, PTL DEF Spec

(* However often its 200 OK is delivered, a broadcast INVITE gets one        *)
(* receiver.                                                                 *)
THEOREM BroadcastOnce == Spec => []BroadcastCompletedOnce
<1>1. Core => BroadcastCompletedOnce
  BY DEF Core
<1>2. QED
  BY CoreInit, CoreStep, <1>1, PTL DEF Spec

-------------------------------------------------------------------------------
(* Deployments in which the platform sends no Broadcast notification.        *)

LEMMA VideoInit == Init => Video
<1>1. Init => EmptyWithoutTask /\ OneSession /\ SubscriptionsOwned /\ ControlReachesSession
              /\ ByeSilencesDialog /\ (phase = "stopped" => slot.media_task = NoTask)
  BY DEF Init, EmptyWithoutTask, OneSession, SubscriptionsOwned, ControlReachesSession,
         ByeSilencesDialog, EmptySlot, NoReply, Running
<1>2. QED
  BY <1>1, CoreInit DEF Video

(* What the recycling leaves of a session that satisfies Video: nothing.     *)
LEMMA RecycleEmpties ==
    ASSUME Video
    PROVE  /\ Recycled.slot = EmptySlot
           /\ Recycled.hub = {}
           /\ \A i \in Id : Recycled.tasks[i].state # "running"
<1>1. TypeOK /\ NoTask \notin Id
  BY DEF Video, Core, NoTask, Id
<1>2. Recycled.slot = EmptySlot
  BY <1>1, RecycleKeeps DEF Video, EmptyWithoutTask
<1>3. hub \subseteq {slot.subscriber_id}
  BY DEF Video, SubscriptionsOwned
<1>4. slot.media_task = NoTask => hub = {}
  BY <1>1, <1>3 DEF Video, EmptyWithoutTask, EmptySlot, TypeOK
<1>5. Recycled.hub = {}
  BY <1>1, <1>3, <1>4, RecycleKeeps
<1>6. \A i \in Id : Recycled.tasks[i].state # "running"
  BY <1>1, RecycleKeeps DEF Video, OneSession, Running
<1>7. QED
  BY <1>2, <1>5, <1>6

(* Without broadcasts every step keeps Video.                                *)
LEMMA VideoStep ==
    ASSUME BroadcastId = {}
    PROVE  Video /\ [Next]_vars => Video'
<1> SUFFICES ASSUME Video, [Next]_vars PROVE Video'
  OBVIOUS
<1> USE DEF NoTask
<1>1. Core' /\ TypeOK /\ TypeOK'
  BY CoreStep DEF Video, Core
<1> DEFINE Rest == /\ EmptyWithoutTask
                   /\ OneSession
                   /\ SubscriptionsOwned
                   /\ ControlReachesSession
                   /\ ByeSilencesDialog
                   /\ phase = "stopped" => slot.media_task = NoTask
<1> SUFFICES Rest'
  BY <1>1 DEF Video
<1>2. ASSUME NEW c \in CallId, NEW n \in CSeq, InviteRetransmitted(c, n) PROVE Rest'
  BY <1>2 DEF InviteRetransmitted, Answer, Video, EmptyWithoutTask, OneSession, Running,
              SubscriptionsOwned, ControlReachesSession, ByeSilencesDialog
<1>3. ASSUME NEW c \in CallId, NEW n \in CSeq, NEW k \in {"live", "playback", "talkback"},
             InviteAccepted(c, n, k)
      PROVE  Rest'
  <2> DEFINE id == FreshNumber
  <2>1. id \in Id
    BY <1>1, <1>3 DEF InviteAccepted, FreshNumber, Id, TypeOK
  <2>2. /\ slot'.media_task = id
        /\ slot'.subscriber_id = (IF k = "live" THEN id ELSE NoTask)
        /\ slot'.playback_ctl = (IF k = "playback" THEN id ELSE NoTask)
    BY <1>3, RecycleEmpties DEF InviteAccepted, SlotFor, ControlFor, EmptySlot
  <2>3. hub' \subseteq {slot'.subscriber_id}
    BY <1>3, <2>2, RecycleEmpties DEF InviteAccepted
  <2>4. Running' \subseteq {id} /\ tasks'[id].kind = k
    <3>1. tasks' = [Recycled.tasks EXCEPT ![id] = SpawnedTask(k, c)]
      BY <1>3 DEF InviteAccepted
    <3>2. QED
      BY <1>1, <2>1, <3>1, RecycleEmpties, RecycleKeeps DEF Running, SpawnedTask
  <2>5. reply'.method = "INVITE" /\ phase' = "serving"
    BY <1>3 DEF InviteAccepted, Answer
  <2>6. id # NoTask
    BY <2>1 DEF Id
  <2>7. QED
    BY <2>2, <2>3, <2>4, <2>5, <2>6
    DEF EmptyWithoutTask, OneSession, SubscriptionsOwned, ControlReachesSession,
        ByeSilencesDialog
<1>4. ASSUME NEW c \in CallId, NEW n \in CSeq, InviteRefused(c, n) \/ InviteFails(c, n)
      PROVE  Rest'
  <2>1. /\ slot' = EmptySlot /\ hub' = {} /\ tasks' = Recycled.tasks
        /\ reply'.method # "BYE" /\ phase' = phase
    BY <1>4, RecycleEmpties DEF InviteRefused, InviteFails, Answer, NoReply
  <2>2. Running' = {}
    BY <2>1, RecycleEmpties DEF Running
  <2>3. QED
    BY <2>1, <2>2 DEF EmptySlot, EmptyWithoutTask, OneSession, SubscriptionsOwned,
                      ControlReachesSession, ByeSilencesDialog
<1>5. ASSUME NEW c \in AnyCall, Bye(c) PROVE Rest'
  <2>1. CASE ByeUnknown(c)
    <3>1. UNCHANGED <<slot, tasks, hub, phase>> /\ reply'.call_id = c
      BY <2>1 DEF ByeUnknown, Answer
    <3>2. \A i \in Running : tasks[i].call_id # c
      BY <2>1 DEF ByeUnknown, KnowsDialog, Video, Core, TaskHasDialog, OneSession, Running, Id
    <3>3. QED
      BY <3>1, <3>2 DEF Video, EmptyWithoutTask, OneSession, Running, SubscriptionsOwned,
                        ControlReachesSession, ByeSilencesDialog
  <2>2. CASE ByeStopsSession(c)
    <3>1. slot' = EmptySlot /\ hub' = {} /\ tasks' = AbortedTasks /\ phase' = phase
      BY <2>2 DEF ByeStopsSession, UnsubscribedHub, Video, SubscriptionsOwned
    <3>2. Running' = {}
      BY <1>1, <3>1, AbortKeeps DEF Running, Video, OneSession
    <3>3. QED
      BY <3>1, <3>2 DEF EmptySlot, EmptyWithoutTask, OneSession, SubscriptionsOwned,
                        ControlReachesSession, ByeSilencesDialog
  <2>3. QED
    BY <1>5, <2>1, <2>2 DEF Bye
<1>6. CASE AnswerWindowPasses \/ OtherResponse
  BY <1>6 DEF AnswerWindowPasses, OtherResponse, Video, EmptyWithoutTask, OneSession, Running,
              SubscriptionsOwned, ControlReachesSession, ByeSilencesDialog
<1>7. ASSUME NEW i \in Id, TaskFinishes(i) \/ TaskAborted(i) PROVE Rest'
  <2>1. /\ tasks' = [tasks EXCEPT ![i].state = "ended"]
        /\ UNCHANGED <<slot, hub, reply, phase>>
    BY <1>7 DEF TaskFinishes, TaskAborted
  <2>2. /\ Running' \subseteq Running
        /\ \A j \in Id : tasks'[j].call_id = tasks[j].call_id /\ tasks'[j].kind = tasks[j].kind
    BY <1>1, <2>1 DEF Running, TypeOK
  <2>3. QED
    BY <1>1, <2>1, <2>2
    DEF Video, EmptyWithoutTask, OneSession, SubscriptionsOwned, ControlReachesSession,
        ByeSilencesDialog, Running, TypeOK
<1>8. ASSUME NEW i \in Id, BridgeUnsubscribed(i) \/ BridgeReceiverGone(i) PROVE Rest'
  BY <1>8 DEF BridgeUnsubscribed, BridgeReceiverGone, Video, EmptyWithoutTask, OneSession,
              Running, SubscriptionsOwned, ControlReachesSession, ByeSilencesDialog
<1>9. CASE Shutdown
  <2>1. /\ slot' = EmptySlot /\ hub' = {} /\ tasks' = AbortedTasks
        /\ reply' = reply
    BY <1>9 DEF Shutdown, UnsubscribedHub, Video, SubscriptionsOwned
  <2>2. Running' = {}
    BY <1>1, <2>1, AbortKeeps DEF Running, Video, OneSession
  <2>3. QED
    BY <2>1, <2>2 DEF EmptySlot, EmptyWithoutTask, OneSession, SubscriptionsOwned,
                      ControlReachesSession, ByeSilencesDialog
<1>10. CASE UNCHANGED vars
  BY <1>10 DEF vars, Video, EmptyWithoutTask, OneSession, Running, SubscriptionsOwned,
               ControlReachesSession, ByeSilencesDialog
<1>11. ~BroadcastFails /\ \A b \in BroadcastId : FALSE
  BY DEF BroadcastFails
<1>12. QED
  BY <1>2, <1>3, <1>4, <1>5, <1>6, <1>7, <1>8, <1>9, <1>10, <1>11
  DEF Next, Handlers, Background

(* At most one media task runs, and it is the one the slot can abort.        *)
THEOREM SingleSessionHolds ==
    ASSUME BroadcastId = {}
    PROVE  Spec => []OneSession
<1>1. Video => OneSession
  BY DEF Video
<1>2. QED
  BY VideoInit, VideoStep, <1>1, PTL DEF Spec

(* No subscription is ever left behind in the frame source.                  *)
THEOREM NoSubscriptionLeaks ==
    ASSUME BroadcastId = {}
    PROVE  Spec => []SubscriptionsOwned
<1>1. Video => SubscriptionsOwned
  BY DEF Video
<1>2. QED
  BY VideoInit, VideoStep, <1>1, PTL DEF Spec

(* Playback control reaches the current recorded session or nobody.          *)
THEOREM ControlIsCurrent ==
    ASSUME BroadcastId = {}
    PROVE  Spec => []ControlReachesSession
<1>1. Video => ControlReachesSession
  BY DEF Video
<1>2. QED
  BY VideoInit, VideoStep, <1>1, PTL DEF Spec

(* An answered BYE leaves no task serving its dialog.                        *)
THEOREM ByeIsFinal ==
    ASSUME BroadcastId = {}
    PROVE  Spec => []ByeSilencesDialog
<1>1. Video => ByeSilencesDialog
  BY DEF Video
<1>2. QED
  BY VideoInit, VideoStep, <1>1, PTL DEF Spec

(* Graceful shutdown leaves no subscription registered and no task running.  *)
THEOREM ShutdownIsClean ==
    ASSUME BroadcastId = {}
    PROVE  Spec => []ShutdownReleases
<1>1. Video => ShutdownReleases
  <2> SUFFICES ASSUME Video, phase = "stopped" PROVE hub = {} /\ Running = {}
    BY DEF ShutdownReleases
  <2>1. slot = EmptySlot /\ NoTask \notin Id
    BY DEF Video, EmptyWithoutTask, NoTask, Id
  <2>2. QED
    BY <2>1 DEF Video, Core, TypeOK, OneSession, SubscriptionsOwned, EmptySlot, Running
<1>2. QED
  BY VideoInit, VideoStep, <1>1, PTL DEF Spec

-------------------------------------------------------------------------------
(* Refinement: an INVITE that is accepted establishes a session, everything  *)
(* that empties an occupied slot releases it, and the rest stutters.         *)

LEMMA MapsInit == Init => Slot!Init
BY DEF Init, Slot!Init, Session, Running, EmptySlot

LEMMA MapsStep ==
    ASSUME BroadcastId = {}
    PROVE  Video /\ [Next]_vars => [Slot!Next]_(Slot!vars)
<1> SUFFICES ASSUME Video, [Next]_vars PROVE [Slot!Next]_(Slot!vars)
  OBVIOUS
<1> USE DEF NoTask
<1>1. TypeOK /\ NoTask \notin Id /\ Running \subseteq Id
  BY DEF Video, Core, Id, Running
<1> DEFINE Emptied == slot' = EmptySlot /\ tasks' = Recycled.tasks /\ phase' = phase
<1>2. ASSUME Emptied PROVE [Slot!Next]_(Slot!vars)
  <2>1. Session' = NoDialog /\ Running' = {}
    BY <1>2, RecycleEmpties DEF Session, EmptySlot, Running
  <2>2. CASE slot.media_task = NoTask
    <3>1. Session = NoDialog /\ Running = {}
      BY <1>1, <2>2 DEF Session, Video, OneSession
    <3>2. QED
      BY <1>2, <2>1, <3>1 DEF Slot!vars
  <2>3. CASE slot.media_task # NoTask
    <3>1. Session # NoDialog
      BY <2>3 DEF Session, NoDialog
    <3>2. Slot!Release
      BY <1>2, <2>1, <3>1 DEF Slot!Release
    <3>3. QED
      BY <3>2 DEF Slot!Next
  <2>4. QED
    BY <2>2, <2>3
<1>3. ASSUME UNCHANGED <<slot, tasks, phase>> PROVE [Slot!Next]_(Slot!vars)
  BY <1>3 DEF Slot!vars, Session, Running
<1>4. ASSUME NEW c \in CallId, NEW n \in CSeq, NEW k \in {"live", "playback", "talkback"},
             InviteAccepted(c, n, k)
      PROVE  [Slot!Next]_(Slot!vars)
  <2> DEFINE id == FreshNumber
  <2>1. id \in Id /\ id = spawned + 1 /\ spawned \in Nat
    BY <1>1, <1>4, MediaSessionAssumption DEF InviteAccepted, FreshNumber, Id, TypeOK
  <2>2. slot'.media_task = id /\ slot'.invite_info.call_id = c /\ slot'.invite_info.cseq = n
    BY <1>4 DEF InviteAccepted, SlotFor
  <2>3. Session' = [invite |-> <<c, n>>, id |-> id]
    BY <2>1, <2>2, <1>1 DEF Session
  <2>4. Running' = {id}
    <3>1. tasks' = [Recycled.tasks EXCEPT ![id] = SpawnedTask(k, c)]
      BY <1>4 DEF InviteAccepted
    <3>2. QED
      BY <1>1, <2>1, <3>1, RecycleEmpties, RecycleKeeps DEF Running, SpawnedTask
  <2>5. Session # NoDialog => Session.invite # <<c, n>> /\ Session.id # id
    <3>1. CASE slot.media_task = NoTask
      BY <3>1 DEF Session
    <3>2. CASE slot.media_task # NoTask
      <4>1. slot.media_task # id
        BY <1>1, <2>1 DEF Video, Core, Numbering, Id, TypeOK
      <4>2. ~(slot.invite_info.call_id = c /\ slot.invite_info.cseq = n)
        BY <1>4, <3>2 DEF InviteAccepted, IsRetransmission
      <4>3. QED
        BY <3>2, <4>1, <4>2 DEF Session
    <3>3. QED
      BY <3>1, <3>2
  <2>6. phase = "serving" /\ phase' = phase
    BY <1>4 DEF InviteAccepted
  <2>7. Slot!Establish(<<c, n>>, id)
    BY <2>3, <2>4, <2>5, <2>6 DEF Slot!Establish
  <2>8. <<c, n>> \in CallId \X CSeq
    OBVIOUS
  <2>9. QED
    BY <2>1, <2>7, <2>8 DEF Slot!Next
<1>5. ASSUME NEW c \in AnyCall, ByeStopsSession(c) PROVE [Slot!Next]_(Slot!vars)
  <2>1. Emptied
    BY <1>5 DEF ByeStopsSession, KnowsDialog, Recycled
  <2>2. QED
    BY <1>2, <2>1
<1>6. ASSUME NEW c \in CallId, NEW n \in CSeq, InviteRefused(c, n) \/ InviteFails(c, n)
      PROVE  [Slot!Next]_(Slot!vars)
  <2>1. Emptied
    BY <1>6, RecycleEmpties DEF InviteRefused, InviteFails
  <2>2. QED
    BY <1>2, <2>1
<1>7. ASSUME NEW i \in Id, TaskFinishes(i) PROVE [Slot!Next]_(Slot!vars)
  <2>1. tasks' = [tasks EXCEPT ![i].state = "ended"] /\ UNCHANGED <<slot, phase>>
    BY <1>7 DEF TaskFinishes
  <2>2. Running = {i}
    BY <1>7 DEF TaskFinishes, Running, Video, OneSession
  <2>3. Running' = {} /\ Session' = Session
    BY <1>1, <2>1, <2>2 DEF Running, TypeOK, Session
  <2>4. Slot!Exhaust
    BY <2>1, <2>2, <2>3 DEF Slot!Exhaust
  <2>5. QED
    BY <2>4 DEF Slot!Next
<1>8. ASSUME NEW i \in Id, TaskAborted(i) PROVE [Slot!Next]_(Slot!vars)
  <2>1. tasks' = [tasks EXCEPT ![i].state = "ended"] /\ UNCHANGED <<slot, phase>>
        /\ tasks[i].state = "aborting"
    BY <1>8 DEF TaskAborted
  <2>2. Running' = Running /\ Session' = Session
    BY <1>1, <2>1 DEF Running, TypeOK, Session
  <2>3. QED
    BY <2>1, <2>2 DEF Slot!vars
<1>9. CASE Shutdown
  <2>1. slot' = EmptySlot /\ tasks' = AbortedTasks /\ phase = "serving" /\ phase' = "stopped"
    BY <1>9 DEF Shutdown
  <2>2. Running' = {} /\ Session' = NoDialog
    BY <1>1, <2>1, AbortKeeps DEF Running, Video, OneSession, Session, EmptySlot
  <2>3. Slot!Close
    BY <2>1, <2>2 DEF Slot!Close
  <2>4. QED
    BY <2>3 DEF Slot!Next
<1>10. ASSUME \/ \E c \in CallId, n \in CSeq : InviteRetransmitted(c, n)
              \/ \E c \in AnyCall : ByeUnknown(c)
              \/ AnswerWindowPasses \/ OtherResponse
              \/ \E i \in Id : BridgeUnsubscribed(i) \/ BridgeReceiverGone(i)
              \/ UNCHANGED vars
       PROVE  [Slot!Next]_(Slot!vars)
  BY <1>3, <1>10 DEF InviteRetransmitted, ByeUnknown, AnswerWindowPasses, OtherResponse,
                     BridgeUnsubscribed, BridgeReceiverGone, vars
<1>11. ~BroadcastFails /\ \A b \in BroadcastId : FALSE
  BY DEF BroadcastFails
<1>12. QED
  BY <1>4, <1>5, <1>6, <1>7, <1>8, <1>9, <1>10, <1>11 DEF Next, Handlers, Background, Bye

(* The server implements the abstract single-session slot.                   *)
THEOREM MediaSessionRefines ==
    ASSUME BroadcastId = {}
    PROVE  Spec => ImplementsSingleSession
<1>1. Spec => []Video
  BY VideoInit, VideoStep, PTL DEF Spec
<1>2. QED
  BY <1>1, MapsInit, MapsStep, PTL DEF Spec, ImplementsSingleSession, Slot!Spec
-------------------------------------------------------------------------------
(* Talkback: the session an audio INVITE puts into the slot.               *)

Packets ==
    [id : 1 .. MaxInvites, offer : DOMAIN Offers, type : {Laws[c] : c \in DOMAIN Laws},
     seq : 0 .. Numbers - 1, ts : 0 .. ClockSpace - 1, frame : Frame]

TalkbackTyped ==
    /\ TalkbackTypeOK
    /\ sent \in Seq(Packets)
    /\ polled # NoFrame => pushed < MaxPushed

(* Frames leave in the order they were pushed, whichever session takes them. *)
InOrder ==
    /\ \A i \in 1 .. Len(queue) : queue[i].n <= pushed
    /\ \A i, j \in 1 .. Len(queue) : i < j => queue[i].n < queue[j].n
    /\ \A k \in 1 .. Len(sent) :
          /\ sent[k].frame.n <= pushed
          /\ \A i \in 1 .. Len(queue) : sent[k].frame.n < queue[i].n
    /\ \A k, m \in 1 .. Len(sent) : k < m => sent[k].frame.n < sent[m].frame.n

(* The sessions that may still send: the slot's and those aborted in a poll. *)
Holders == leaving \cup (IF task = NoTalkback THEN {} ELSE {task})

(* No two of them are of one INVITE.                                         *)
OwnInvite ==
    /\ \A t \in Holders : t.id <= invites
    /\ \A t, u \in leaving : t.id = u.id => t = u
    /\ task # NoTalkback => \A t \in leaving : t.id # task.id
    /\ \A k \in 1 .. Len(sent) : sent[k].id <= invites

LastOf(k, id) == sent[k].id = id /\ \A m \in k + 1 .. Len(sent) : sent[m].id # id

(* A session's number and clock are those that follow its last packet.       *)
Counted(t) ==
    \A k \in 1 .. Len(sent) :
        LastOf(k, t.id) =>
            /\ t.seq = (sent[k].seq + 1) % Numbers
            /\ t.ts = (sent[k].ts + sent[k].frame.length) % ClockSpace

Counting == \A t \in Holders : Counted(t)

(* A frame encoded in the time of a session that sends is in its law, in     *)
(* the queue and in the encoder's hands.                                     *)
FramesFit(t) ==
    t.upstream =>
        /\ \A i \in 1 .. Len(queue) : queue[i].under = t.id => queue[i].law = t.codec
        /\ polled.under = t.id => polled.law = t.codec

(* The law announced is that of the session in the slot, and a frame is of   *)
(* the time of a session that was.                                           *)
Labelled ==
    /\ task # NoTalkback /\ task.upstream => law = task.codec
    /\ \A i \in 1 .. Len(queue) : queue[i].under <= invites
    /\ polled.under <= invites
    /\ \A t \in Holders : FramesFit(t)
    /\ OwnFramesLabelled

(* The inductive invariant.                                                  *)
TalkbackInv ==
    /\ TalkbackTyped
    /\ InOrder
    /\ OwnInvite
    /\ Counting
    /\ StreamFollowsFrames
    /\ Labelled

(* A session in the slot is a task, and only numbers of INVITEs name one.    *)
LEMMA InSlot ==
    ASSUME TalkbackTyped
    PROVE  /\ task # NoTalkback => task \in Task /\ task \in Holders
           /\ Holders \subseteq Task
           /\ leaving \subseteq Holders
BY DEF TalkbackTyped, TalkbackTypeOK, Holders

(* The frame at the head of the queue and the queue behind it.               *)
LEMMA QueueHead ==
    ASSUME TalkbackTyped, queue # <<>>
    PROVE  /\ Head(queue) = queue[1] /\ Head(queue) \in Frame
           /\ Tail(queue) \in Seq(Frame)
           /\ Len(queue) \in Nat \ {0}
           /\ Len(Tail(queue)) = Len(queue) - 1
           /\ \A i \in 1 .. Len(queue) - 1 : Tail(queue)[i] = queue[i + 1]
BY DEF TalkbackTyped, TalkbackTypeOK

LEMMA FrameNumber ==
    ASSUME NEW f \in Frame
    PROVE  f.n \in 1 .. MaxPushed /\ f.n \in Nat
BY TalkbackAssumption DEF Frame

LEMMA WirePacket ==
    ASSUME TalkbackTyped, NEW k \in 1 .. Len(sent)
    PROVE  /\ sent[k].id \in Nat /\ sent[k].seq \in Nat /\ sent[k].ts \in Nat
           /\ sent[k].frame \in Frame
           /\ sent[k].offer \in DOMAIN Offers
<1>1. sent[k] \in Packets
  BY DEF TalkbackTyped
<1>2. QED
  BY <1>1 DEF Packets

(* A packet carries what it was made of.                                     *)
LEMMA PacketTyped ==
    ASSUME NEW t \in Task, NEW f \in Frame
    PROVE  /\ Packet(t, f) \in Packets
           /\ Packet(t, f).id = t.id /\ Packet(t, f).offer = t.offer
           /\ Packet(t, f).seq = t.seq /\ Packet(t, f).ts = t.ts
           /\ Packet(t, f).frame = f /\ Packet(t, f).type = Laws[t.codec]
BY DEF Packet, Packets, Task

(* What sending leaves of a session.                                         *)
LEMMA SentTyped ==
    ASSUME NEW t \in Task, NEW f \in Frame
    PROVE  /\ Sent(t, f) \in Task
           /\ Sent(t, f).id = t.id /\ Sent(t, f).offer = t.offer
           /\ Sent(t, f).upstream = t.upstream /\ Sent(t, f).codec = t.codec
           /\ Sent(t, f).seq = (t.seq + 1) % Numbers
           /\ Sent(t, f).ts = (t.ts + f.length) % ClockSpace
<1>0. f.length \in FrameLength
  BY DEF Frame
<1>1. f.length \in Nat
  <2>1. FrameLength \subseteq Nat
    BY TalkbackAssumption
  <2>2. QED
    BY <1>0, <2>1
<1>5. /\ Numbers \in Nat /\ Numbers > 0
      /\ ClockSpace \in Nat /\ ClockSpace > 0
  BY TalkbackAssumption
<1>2. (t.seq + 1) % Numbers \in 0 .. Numbers - 1
  BY <1>5 DEF Task
<1>3. (t.ts + f.length) % ClockSpace \in 0 .. ClockSpace - 1
  BY <1>1, <1>5 DEF Task
<1>4. QED
  BY <1>2, <1>3 DEF Sent, NextTs, Task

LEMMA TalkbackTypeInit == TalkbackInit => TalkbackTyped
BY TalkbackAssumption DEF TalkbackInit, TalkbackTyped, TalkbackTypeOK, Laws

(* A session's task has the types of its record.                             *)
LEMMA SessionTaskTyped ==
    ASSUME TalkbackTyped, NEW name \in DOMAIN Offers, invites < MaxInvites,
           NEW invite, ~Refused(invite)
    PROVE  /\ SessionTask(name, invite) \in Task
           /\ Negotiated(invite) \in DOMAIN Laws
           /\ SessionTask(name, invite) # NoTalkback
<1>1. invites + 1 \in 1 .. MaxInvites
  BY TalkbackAssumption DEF TalkbackTyped, TalkbackTypeOK
<1>2. invite.codec \in DOMAIN Laws
  BY DEF Refused
<1>3. Upstream(invite) \in BOOLEAN
  BY DEF Upstream
<1>4. 0 \in 0 .. Numbers - 1 /\ 0 \in 0 .. ClockSpace - 1
  BY TalkbackAssumption
<1>5. SessionTask(name, invite) \in Task
  BY <1>1, <1>2, <1>3, <1>4 DEF SessionTask, Task
<1>6. Negotiated(invite) \in DOMAIN Laws
  BY <1>2 DEF Negotiated, TalkbackTyped, TalkbackTypeOK
<1>7. SessionTask(name, invite).id # 0
  BY <1>1 DEF SessionTask
<1>8. QED
  BY <1>5, <1>6, <1>7 DEF NoTalkback
(* Aborting hands the slot's task to those whose poll is under way.          *)
LEMMA AbortedTyped ==
    ASSUME TalkbackTyped
    PROVE  Aborted \in SUBSET Task
BY InSlot DEF Aborted, TalkbackTyped, TalkbackTypeOK

LEMMA TalkbackTypeStep == TalkbackTyped /\ [TalkbackNext]_talkbackVars => TalkbackTyped'
<1> SUFFICES ASSUME TalkbackTyped, [TalkbackNext]_talkbackVars
             PROVE  TalkbackTyped'
  OBVIOUS
<1> USE DEF TalkbackTyped, TalkbackTypeOK
<1>0. MaxPushed \in Nat /\ MaxInvites \in Nat
  BY TalkbackAssumption
<1>1. CASE HostPolls
  <2>1. task.id \in 0 .. MaxInvites
    BY <1>0 DEF Task, NoTalkback
  <2>2. polled' \in Encoding
    BY <1>1, <2>1 DEF HostPolls, Encoding
  <2>3. QED
    BY <1>1, <2>2 DEF HostPolls
<1>2. ASSUME NEW length \in FrameLength, HostPushes(length)
      PROVE  TalkbackTyped'
  <2>1. pushed + 1 \in 1 .. MaxPushed
    BY <1>0, <1>2 DEF HostPushes
  <2>2. polled.law \in DOMAIN Laws /\ polled.under \in 0 .. MaxInvites
    BY <1>2 DEF HostPushes, Encoding
  <2>3. [n |-> pushed + 1, law |-> polled.law, under |-> polled.under, length |-> length]
           \in Frame
    BY <2>1, <2>2 DEF Frame
  <2>4. queue' \in Seq(Frame)
    BY <1>2, <2>3 DEF HostPushes
  <2>5. QED
    BY <1>0, <1>2, <2>1, <2>4 DEF HostPushes
<1>3. ASSUME NEW name \in DOMAIN Offers, HandleInvite(name)
      PROVE  TalkbackTyped'
  <2>1. invites' \in 0 .. MaxInvites /\ invites < MaxInvites
    BY <1>0, <1>3 DEF HandleInvite
  <2>2. UNCHANGED <<sink, source, queue, polled, pushed, sent>>
    BY <1>3 DEF HandleInvite, host
  <2>3. CASE UnreadableInvite(name)
    BY <2>1, <2>2, <2>3 DEF UnreadableInvite
  <2>4. CASE PanickingInvite(name)
    BY <2>1, <2>2, <2>4 DEF PanickingInvite
  <2>5. CASE ReadInvite(name)
    <3> DEFINE invite == Invite(Read(Offers[name]))
    <3>1. /\ leaving' = Aborted
          /\ server' = server
          /\ \/ task' = NoTalkback /\ law' = law
             \/ /\ ~Refused(invite)
                /\ task' = SessionTask(name, invite)
                /\ law' = Negotiated(invite)
      BY <2>5 DEF ReadInvite
    <3>2. leaving' \in SUBSET Task
      BY <3>1, AbortedTyped
    <3> HIDE DEF invite
    <3>3. task' \in Task \cup {NoTalkback} /\ law' \in DOMAIN Laws
      BY <2>1, <3>1, SessionTaskTyped
    <3>4. QED
      BY <2>1, <2>2, <3>1, <3>2, <3>3
  <2>6. QED
    BY <1>3, <2>3, <2>4, <2>5 DEF HandleInvite
<1>4. CASE HandleBye
  <2>1. leaving' \in SUBSET Task /\ task' = NoTalkback
    BY <1>4, AbortedTyped DEF HandleBye
  <2>2. QED
    BY <1>4, <2>1 DEF HandleBye, host
<1>5. CASE Tick
  <2>1. queue # <<>> /\ task \in Task /\ queue' = Tail(queue)
    BY <1>5, InSlot DEF Tick, QueueAfter
  <2>2. queue' \in Seq(Frame) /\ Head(queue) \in Frame
    BY <2>1, QueueHead
  <2>5. /\ Append(sent, Packet(task, Head(queue))) \in Seq(Packets)
        /\ Sent(task, Head(queue)) \in Task
    BY <2>1, <2>2, PacketTyped, SentTyped
  <2>3. sent' \in Seq(Packets) /\ task' \in Task
    BY <1>5, <2>1, <2>5 DEF Tick
  <2>4. QED
    BY <1>5, <2>2, <2>3 DEF Tick
<1>6. CASE TickFails
  <2>1. queue # <<>> /\ task \in Task /\ queue' = Tail(queue)
    BY <1>6, InSlot DEF TickFails, QueueAfter
  <2>2. queue' \in Seq(Frame)
    BY <2>1, QueueHead
  <2>3. task' \in Task
    BY <1>6, <2>1 DEF TickFails, Task
  <2>4. QED
    BY <1>6, <2>2, <2>3 DEF TickFails
<1>7. CASE ReceiveFails
  <2>1. task' \in Task
    BY <1>7, InSlot DEF ReceiveFails, Task
  <2>2. QED
    BY <1>7, <2>1 DEF ReceiveFails, host
<1>8. ASSUME NEW ssrc \in {0, 7}, Hear(ssrc)
      PROVE  TalkbackTyped'
  BY <1>8 DEF Hear, host
<1>9. ASSUME NEW t \in leaving, LastPoll(t)
      PROVE  TalkbackTyped'
  <2>1. t \in Task /\ leaving' \in SUBSET Task
    BY <1>9 DEF LastPoll
  <2>2. queue # <<>> => Head(queue) \in Frame /\ Tail(queue) \in Seq(Frame)
    BY QueueHead
  <2>4. queue # <<>> => Append(sent, Packet(t, Head(queue))) \in Seq(Packets)
    BY <2>1, <2>2, PacketTyped
  <2>5. queue' \in Seq(Frame) /\ sent' \in Seq(Packets)
    BY <1>9, <2>2, <2>4 DEF LastPoll, QueueAfter
  <2>3. QED
    BY <1>9, <2>1, <2>5 DEF LastPoll
<1>10. CASE UNCHANGED talkbackVars
  BY <1>10 DEF talkbackVars
<1>11. QED
  BY <1>1, <1>2, <1>3, <1>4, <1>5, <1>6, <1>7, <1>8, <1>9, <1>10 DEF TalkbackNext

LEMMA InOrderInit == TalkbackInit => InOrder
BY DEF TalkbackInit, InOrder

(* A frame that is taken, and not sent, leaves the rest in order.            *)
LEMMA FrameTaken ==
    ASSUME TalkbackTyped, InOrder, queue # <<>>,
           queue' = Tail(queue), pushed' = pushed, sent' = sent
    PROVE  InOrder'
BY QueueHead DEF InOrder

(* A frame that is sent comes after all that were, and before the rest.      *)
LEMMA FrameSent ==
    ASSUME TalkbackTyped, InOrder, queue # <<>>, NEW p, p.frame = Head(queue),
           queue' = Tail(queue), pushed' = pushed, sent' = Append(sent, p)
    PROVE  InOrder'
<1>1. /\ Len(sent') = Len(sent) + 1 /\ Len(sent) \in Nat
      /\ \A k \in 1 .. Len(sent) : sent'[k] = sent[k]
      /\ sent'[Len(sent) + 1] = p
  BY DEF TalkbackTyped
<1>2. /\ Len(queue') = Len(queue) - 1 /\ Len(queue) \in Nat \ {0}
      /\ \A i \in 1 .. Len(queue) - 1 : queue'[i] = queue[i + 1]
      /\ p.frame.n = queue[1].n
  BY QueueHead
<1>3. \A i \in 1 .. Len(queue') : queue'[i].n <= pushed'
  BY <1>2 DEF InOrder
<1>4. \A i, j \in 1 .. Len(queue') : i < j => queue'[i].n < queue'[j].n
  BY <1>2 DEF InOrder
<1>5. p.frame.n <= pushed /\ \A i \in 1 .. Len(queue') : p.frame.n < queue'[i].n
  BY <1>2 DEF InOrder
<1>6. \A k \in 1 .. Len(sent) : sent[k].frame.n < p.frame.n
  BY <1>2 DEF InOrder
<1>7. \A k \in 1 .. Len(sent) :
        sent[k].frame.n <= pushed
        /\ \A i \in 1 .. Len(queue') : sent[k].frame.n < queue'[i].n
  BY <1>2 DEF InOrder
<1>8. \A k \in 1 .. Len(sent') :
        sent'[k].frame.n <= pushed'
        /\ \A i \in 1 .. Len(queue') : sent'[k].frame.n < queue'[i].n
  BY <1>1, <1>5, <1>7
<1>9. \A k, m \in 1 .. Len(sent') : k < m => sent'[k].frame.n < sent'[m].frame.n
  <2>1. SUFFICES ASSUME NEW k \in 1 .. Len(sent'), NEW m \in 1 .. Len(sent'), k < m
                 PROVE  sent'[k].frame.n < sent'[m].frame.n
    OBVIOUS
  <2>2. k \in 1 .. Len(sent) /\ sent'[k] = sent[k]
    BY <1>1, <2>1
  <2>3. CASE m \in 1 .. Len(sent)
    BY <1>1, <2>1, <2>2, <2>3 DEF InOrder
  <2>4. CASE m = Len(sent) + 1
    BY <1>1, <1>6, <2>2, <2>4
  <2>5. QED
    BY <1>1, <2>3, <2>4
<1>10. QED
  BY <1>3, <1>4, <1>8, <1>9 DEF InOrder

LEMMA FramePushed ==
    ASSUME TalkbackTyped, InOrder, NEW f, f.n = pushed + 1,
           queue' = Append(queue, f), pushed' = pushed + 1, sent' = sent
    PROVE  InOrder'
<1>1. /\ Len(queue') = Len(queue) + 1 /\ Len(queue) \in Nat
      /\ \A i \in 1 .. Len(queue) : queue'[i] = queue[i]
      /\ queue'[Len(queue) + 1] = f
      /\ pushed \in Nat
  BY DEF TalkbackTyped, TalkbackTypeOK
<1>2. /\ \A i \in 1 .. Len(queue) : queue[i].n \in Nat
      /\ \A k \in 1 .. Len(sent) : sent[k].frame.n \in Nat
  BY WirePacket, FrameNumber DEF TalkbackTyped, TalkbackTypeOK
<1>3. QED
  BY <1>1, <1>2 DEF InOrder

LEMMA InOrderStep ==
    ASSUME TalkbackTyped, InOrder, [TalkbackNext]_talkbackVars
    PROVE  InOrder'
<1>1. CASE UNCHANGED <<queue, pushed, sent>>
  BY <1>1 DEF InOrder
<1>2. ASSUME NEW length \in FrameLength, HostPushes(length)
      PROVE  InOrder'
  <2>1. PICK f : f = [n |-> pushed + 1, law |-> polled.law, under |-> polled.under,
                      length |-> length]
    OBVIOUS
  <2>2. QED
    BY <1>2, <2>1, FramePushed DEF HostPushes
<1>3. CASE Tick
  <2>1. queue # <<>> /\ queue' = Tail(queue) /\ pushed' = pushed /\ task \in Task
    BY <1>3, InSlot DEF Tick, QueueAfter
  <2>2. CASE Sendable(Head(queue))
    <3>1. PICK p : p = Packet(task, Head(queue))
      OBVIOUS
    <3>2. p.frame = Head(queue)
      BY <2>1, <3>1, QueueHead, PacketTyped
    <3>3. sent' = Append(sent, p)
      BY <1>3, <2>2, <3>1 DEF Tick
    <3>4. QED
      BY <2>1, <3>2, <3>3, FrameSent
  <2>3. CASE ~Sendable(Head(queue))
    BY <1>3, <2>1, <2>3, FrameTaken DEF Tick
  <2>4. QED
    BY <2>2, <2>3
<1>4. CASE TickFails
  BY <1>4, FrameTaken DEF TickFails, QueueAfter
<1>5. ASSUME NEW t \in leaving, LastPoll(t)
      PROVE  InOrder'
  <2>1. pushed' = pushed /\ t \in Task
    BY <1>5, InSlot DEF LastPoll
  <2>2. CASE UNCHANGED <<queue, sent>>
    BY <1>1, <2>1, <2>2
  <2>3. CASE queue # <<>> /\ queue' = Tail(queue) /\ sent' = sent
    BY <2>1, <2>3, FrameTaken
  <2>4. CASE queue # <<>> /\ queue' = Tail(queue) /\ sent' = Append(sent, Packet(t, Head(queue)))
    <3>1. PICK p : p = Packet(t, Head(queue))
      OBVIOUS
    <3>2. p.frame = Head(queue)
      BY <2>1, <2>4, <3>1, QueueHead, PacketTyped
    <3>3. QED
      BY <2>1, <2>4, <3>1, <3>2, FrameSent
  <2>5. QED
    BY <1>5, <2>2, <2>3, <2>4 DEF LastPoll, QueueAfter
<1>6. QED
  BY <1>1, <1>2, <1>3, <1>4, <1>5
  DEF TalkbackNext, HostPolls, HandleInvite, HandleBye, ReceiveFails, Hear, host,
      talkbackVars

(* A packet added to the wire, and what was there.                           *)
LEMMA WireLonger ==
    ASSUME TalkbackTyped, NEW p, sent' = Append(sent, p)
    PROVE  /\ Len(sent) \in Nat /\ Len(sent') = Len(sent) + 1
           /\ \A k \in 1 .. Len(sent) : sent'[k] = sent[k]
           /\ sent'[Len(sent) + 1] = p
BY DEF TalkbackTyped

(* A session that sends: its packet follows its last one, and it is counted  *)
(* on from there.                                                            *)
LEMMA SessionSends ==
    ASSUME TalkbackTyped, Counting, StreamFollowsFrames, InOrder',
           NEW t \in Holders, NEW p, sent' = Append(sent, p),
           p.id = t.id, p.seq = t.seq, p.ts = t.ts, p.frame \in Frame
    PROVE  /\ StreamFollowsFrames'
           /\ \A u : u.id # t.id /\ Counted(u) => Counted(u)'
           /\ \A u : /\ u.id = t.id
                     /\ u.seq = (t.seq + 1) % Numbers
                     /\ u.ts = (t.ts + p.frame.length) % ClockSpace
                     => Counted(u)'
<1> DEFINE n == Len(sent)
<1>1. /\ n \in Nat /\ Len(sent') = n + 1
      /\ \A k \in 1 .. n : sent'[k] = sent[k]
      /\ sent'[n + 1] = p
  BY WireLonger
<1>2. ASSUME NEW i \in 1 .. Len(sent'), NEW j \in 1 .. Len(sent'), Successive(i, j)'
      PROVE  /\ sent'[j].seq = (sent'[i].seq + 1) % Numbers
             /\ sent'[j].ts = (sent'[i].ts + sent'[i].frame.length) % ClockSpace
  <2>1. i < j /\ i \in 1 .. n /\ sent'[i] = sent[i]
    BY <1>1, <1>2 DEF Successive
  <2>2. \A k \in i + 1 .. j - 1 : k \in 1 .. n /\ sent'[k] = sent[k] /\ sent[k].id # sent[i].id
    BY <1>1, <1>2, <2>1 DEF Successive
  <2>3. CASE j \in 1 .. n
    <3>1. sent'[j] = sent[j]
      BY <1>1, <2>3
    <3>2. Successive(i, j)
      BY <1>2, <2>1, <2>2, <3>1 DEF Successive
    <3>3. QED
      BY <2>1, <2>3, <3>1, <3>2 DEF StreamFollowsFrames
  <2>4. CASE j = n + 1
    <3>1. sent'[j] = p /\ sent[i].id = t.id
      BY <1>1, <1>2, <2>1, <2>4 DEF Successive
    <3>2. LastOf(i, t.id)
      BY <2>2, <2>4, <3>1 DEF LastOf
    <3>3. Counted(t)
      BY DEF Counting
    <3>4. QED
      BY <2>1, <3>1, <3>2, <3>3 DEF Counted
  <2>5. QED
    BY <1>1, <2>3, <2>4
<1>3. \A i, j \in 1 .. Len(sent') : Successive(i, j)' => sent'[i].frame.n < sent'[j].frame.n
  BY DEF InOrder, Successive
<1>4. ASSUME NEW i \in 1 .. Len(sent'), NEW j \in 1 .. Len(sent'), i # j
      PROVE  sent'[i].frame.n # sent'[j].frame.n
  <2>1. i < j \/ j < i
    BY <1>1, <1>4
  <2>2. sent'[i].frame.n < sent'[j].frame.n \/ sent'[j].frame.n < sent'[i].frame.n
    BY <2>1 DEF InOrder
  <2>3. \A k \in 1 .. Len(sent') : sent'[k].frame.n \in Nat
    <3>1. \A k \in 1 .. n : sent'[k].frame.n \in Nat
      BY <1>1, WirePacket, FrameNumber
    <3>2. QED
      BY <1>1, <3>1, FrameNumber
  <2>4. QED
    BY <2>2, <2>3
<1>5. ASSUME NEW u, u.id # t.id, Counted(u)
      PROVE  Counted(u)'
  <2>1. SUFFICES ASSUME NEW k \in 1 .. Len(sent'), LastOf(k, u.id)'
                 PROVE  /\ u.seq = (sent'[k].seq + 1) % Numbers
                        /\ u.ts = (sent'[k].ts + sent'[k].frame.length) % ClockSpace
    BY DEF Counted, LastOf
  <2>2. k \in 1 .. n /\ sent'[k] = sent[k]
    BY <1>1, <1>5, <2>1 DEF LastOf
  <2>3. LastOf(k, u.id)
    BY <1>1, <2>1, <2>2 DEF LastOf
  <2>4. QED
    BY <1>5, <2>2, <2>3 DEF Counted
<1>6. ASSUME NEW u, u.id = t.id, u.seq = (t.seq + 1) % Numbers,
             u.ts = (t.ts + p.frame.length) % ClockSpace
      PROVE  Counted(u)'
  <2>1. SUFFICES ASSUME NEW k \in 1 .. Len(sent'), LastOf(k, u.id)'
                 PROVE  /\ u.seq = (sent'[k].seq + 1) % Numbers
                        /\ u.ts = (sent'[k].ts + sent'[k].frame.length) % ClockSpace
    BY DEF Counted, LastOf
  <2>2. k = n + 1
    BY <1>1, <1>6, <2>1 DEF LastOf
  <2>3. QED
    BY <1>1, <1>6, <2>2
<1>7. StreamFollowsFrames'
  BY <1>2, <1>3, <1>4 DEF StreamFollowsFrames
<1>8. QED
  BY <1>5, <1>6, <1>7

(* Who may send next: the same sessions, perhaps finished or fewer, or one   *)
(* of a new INVITE.                                                          *)
LEMMA CountingKept ==
    ASSUME TalkbackTyped, OwnInvite, Counting, sent' = sent,
           \A t \in Holders' :
               \/ t.id > invites
               \/ \E u \in Holders : u.id = t.id /\ u.seq = t.seq /\ u.ts = t.ts
    PROVE  Counting'
<1> SUFFICES ASSUME NEW t \in Holders'
             PROVE  Counted(t)'
  BY DEF Counting
<1>1. CASE t.id > invites
  <2>1. \A k \in 1 .. Len(sent) : sent[k].id # t.id
    BY <1>1, WirePacket DEF OwnInvite, TalkbackTyped, TalkbackTypeOK
  <2>2. QED
    BY <2>1 DEF Counted, LastOf
<1>2. ASSUME NEW u \in Holders, u.id = t.id, u.seq = t.seq, u.ts = t.ts
      PROVE  Counted(t)'
  <2>1. Counted(u)
    BY DEF Counting
  <2>2. QED
    BY <1>2, <2>1 DEF Counted, LastOf
<1>3. QED
  BY <1>1, <1>2

(* An INVITE that is read leaves the old sessions, aborted, and at most a    *)
(* new one of its own in the slot.                                           *)
LEMMA InviteHolders ==
    ASSUME TalkbackTyped, NEW name \in DOMAIN Offers, HandleInvite(name)
    PROVE  \/ UNCHANGED <<task, leaving, law>>
           \/ /\ leaving' = Aborted
              /\ task' = NoTalkback
           \/ /\ leaving' = Aborted
              /\ task' = SessionTask(name, Invite(Read(Offers[name])))
              /\ law' = Negotiated(Invite(Read(Offers[name])))
              /\ ~Refused(Invite(Read(Offers[name])))
<1>1. CASE UnreadableInvite(name)
  BY <1>1 DEF UnreadableInvite
<1>2. CASE PanickingInvite(name)
  BY <1>2 DEF PanickingInvite
<1>3. CASE ReadInvite(name)
  <2> DEFINE invite == Invite(Read(Offers[name]))
  <2>1. /\ leaving' = Aborted
        /\ \/ task' = NoTalkback
           \/ /\ ~Refused(invite)
              /\ task' = SessionTask(name, invite)
              /\ law' = Negotiated(invite)
    BY <1>3 DEF ReadInvite
  <2>2. QED
    BY <2>1
<1>4. QED
  BY <1>1, <1>2, <1>3 DEF HandleInvite

(* How the sessions that may send change.                                    *)
LEMMA HoldersStep ==
    ASSUME TalkbackTyped, [TalkbackNext]_talkbackVars
    PROVE  \/ UNCHANGED <<task, leaving, law, invites, sent>>
           \/ /\ UNCHANGED <<task, leaving, law, sent>>
              /\ invites' = invites + 1
           \/ /\ leaving' = Aborted /\ task' = NoTalkback
              /\ invites' \in {invites, invites + 1} /\ sent' = sent
           \/ \E name \in DOMAIN Offers :
                 LET invite == Invite(Read(Offers[name]))
                 IN /\ leaving' = Aborted
                    /\ task' = SessionTask(name, invite)
                    /\ law' = Negotiated(invite)
                    /\ ~Refused(invite)
                    /\ invites < MaxInvites
                    /\ invites' = invites + 1
                    /\ sent' = sent
           \/ /\ task # NoTalkback
              /\ task' = [task EXCEPT !.running = FALSE]
              /\ UNCHANGED <<leaving, law, invites, sent>>
           \/ /\ task # NoTalkback /\ task.upstream /\ queue # <<>>
              /\ sent' = Append(sent, Packet(task, Head(queue)))
              /\ task' = Sent(task, Head(queue))
              /\ UNCHANGED <<leaving, law, invites>>
           \/ \E t \in leaving :
                 /\ leaving' = leaving \ {t}
                 /\ \/ sent' = sent
                    \/ /\ t.upstream /\ queue # <<>>
                       /\ sent' = Append(sent, Packet(t, Head(queue)))
                 /\ UNCHANGED <<task, law, invites>>
<1>1. CASE \E name \in DOMAIN Offers : HandleInvite(name)
  <2>1. PICK name \in DOMAIN Offers : HandleInvite(name)
    BY <1>1
  <2>2. invites < MaxInvites /\ invites' = invites + 1 /\ sent' = sent
    BY <2>1 DEF HandleInvite
  <2>3. CASE UNCHANGED <<task, leaving, law>>
    BY <2>2, <2>3
  <2>4. CASE leaving' = Aborted /\ task' = NoTalkback
    BY <2>2, <2>4
  <2>5. CASE /\ leaving' = Aborted
             /\ task' = SessionTask(name, Invite(Read(Offers[name])))
             /\ law' = Negotiated(Invite(Read(Offers[name])))
             /\ ~Refused(Invite(Read(Offers[name])))
    BY <2>2, <2>5
  <2>6. QED
    BY <2>1, <2>3, <2>4, <2>5, InviteHolders
<1>2. CASE HandleBye
  BY <1>2 DEF HandleBye
<1>3. CASE Tick
  BY <1>3 DEF Tick
<1>4. CASE TickFails \/ ReceiveFails
  BY <1>4 DEF TickFails, ReceiveFails
<1>5. CASE \E t \in leaving : LastPoll(t)
  <2>1. PICK t \in leaving : LastPoll(t)
    BY <1>5
  <2>2. /\ leaving' = leaving \ {t}
        /\ \/ sent' = sent
           \/ /\ t.upstream /\ queue # <<>>
              /\ sent' = Append(sent, Packet(t, Head(queue)))
        /\ UNCHANGED <<task, law, invites>>
    BY <2>1 DEF LastPoll
  <2>3. QED
    BY <2>2
<1>6. CASE \/ HostPolls
           \/ \E length \in FrameLength : HostPushes(length)
           \/ \E ssrc \in {0, 7} : Hear(ssrc)
           \/ UNCHANGED talkbackVars
  BY <1>6 DEF HostPolls, HostPushes, Hear, host, talkbackVars
<1>7. QED
  BY <1>1, <1>2, <1>3, <1>4, <1>5, <1>6 DEF TalkbackNext

(* Sessions among the old ones by their INVITE, or of a new one: what is     *)
(* true of each session stays true.                                          *)
LEMMA SessionsKept ==
    ASSUME TalkbackInv, sent' = sent, invites' \in {invites, invites + 1},
           UNCHANGED <<task, leaving, law>>
    PROVE  OwnInvite' /\ Counting' /\ StreamFollowsFrames'
<1> USE DEF TalkbackInv
<1>1. Holders' = Holders
  BY DEF Holders
<1>2. invites \in Nat /\ \A t \in Holders : t.id \in Nat
  BY InSlot DEF TalkbackTyped, TalkbackTypeOK, Task
<1>3. OwnInvite'
  BY <1>1, <1>2, WirePacket DEF OwnInvite
<1>4. Counting'
  BY <1>1 DEF Counting, Counted, LastOf
<1>5. StreamFollowsFrames'
  BY DEF StreamFollowsFrames, Successive
<1>6. QED
  BY <1>3, <1>4, <1>5

LEMMA SlotEmptied ==
    ASSUME TalkbackInv, sent' = sent, invites' \in {invites, invites + 1},
           leaving' = Aborted, task' = NoTalkback
    PROVE  OwnInvite' /\ Counting' /\ StreamFollowsFrames'
<1> USE DEF TalkbackInv
<1>1. Holders' \subseteq Holders /\ leaving' \subseteq Holders
  BY DEF Holders, Aborted
<1>2. invites \in Nat /\ \A t \in Holders : t.id \in Nat
  BY InSlot DEF TalkbackTyped, TalkbackTypeOK, Task
<1>3. \A t, u \in Aborted : t.id = u.id => t = u
  BY DEF Aborted, OwnInvite
<1>4. OwnInvite'
  BY <1>1, <1>2, <1>3, WirePacket DEF OwnInvite
<1>5. Counting'
  BY <1>1, CountingKept
<1>6. StreamFollowsFrames'
  <2>1. StreamFollowsFrames
    OBVIOUS
  <2> HIDE DEF TalkbackInv
  <2> QED
    BY <2>1 DEF StreamFollowsFrames, Successive
<1>7. QED
  BY <1>4, <1>5, <1>6

LEMMA SessionBegins ==
    ASSUME TalkbackInv, sent' = sent, NEW name \in DOMAIN Offers, invites < MaxInvites,
           invites' = invites + 1, leaving' = Aborted,
           ~Refused(Invite(Read(Offers[name]))),
           task' = SessionTask(name, Invite(Read(Offers[name]))),
           law' = Negotiated(Invite(Read(Offers[name])))
    PROVE  OwnInvite' /\ Counting' /\ StreamFollowsFrames'
<1> DEFINE invite == Invite(Read(Offers[name]))
<1> USE DEF TalkbackInv
<1>1. /\ task' # NoTalkback /\ task'.id = invites + 1 /\ task'.offer = name
      /\ task'.upstream = Upstream(invite) /\ task'.codec = invite.codec
  BY SessionTaskTyped DEF SessionTask
<1>2. Holders' = Aborted \cup {task'} /\ Aborted \subseteq Holders
  BY <1>1 DEF Holders, Aborted
<1>3. invites \in Nat /\ \A t \in Holders : t.id \in Nat /\ t.id <= invites
  BY InSlot DEF TalkbackTyped, TalkbackTypeOK, Task, OwnInvite
<1>4. \A t, u \in Aborted : t.id = u.id => t = u
  BY DEF Aborted, OwnInvite
<1>5. \A t \in Holders' : t.id <= invites'
  BY <1>1, <1>2, <1>3
<1>6. \A t \in leaving' : t.id # task'.id
  BY <1>1, <1>2, <1>3
<1>7. \A k \in 1 .. Len(sent') : sent'[k].id <= invites'
  BY <1>3, WirePacket DEF OwnInvite
<1>8. OwnInvite'
  BY <1>1, <1>4, <1>5, <1>6, <1>7 DEF OwnInvite
<1>9. \A t \in Holders' :
         t.id > invites \/ \E u \in Holders : u.id = t.id /\ u.seq = t.seq /\ u.ts = t.ts
  BY <1>1, <1>2, <1>3
<1>10. Counting'
  BY <1>9, CountingKept
<1>11. StreamFollowsFrames'
  BY DEF StreamFollowsFrames, Successive
<1>12. QED
  BY <1>8, <1>10, <1>11

LEMMA SessionFinishes ==
    ASSUME TalkbackInv, task # NoTalkback, task' = [task EXCEPT !.running = FALSE],
           UNCHANGED <<leaving, law, invites, sent>>
    PROVE  OwnInvite' /\ Counting' /\ StreamFollowsFrames'
<1> USE DEF TalkbackInv
<1>1. /\ task'.id = task.id /\ task'.offer = task.offer /\ task'.seq = task.seq
      /\ task'.ts = task.ts /\ task'.codec = task.codec
      /\ task'.upstream = task.upstream
      /\ task' # NoTalkback
  BY InSlot DEF Task, NoTalkback
<1>2. Holders' = leaving \cup {task'} /\ Holders = leaving \cup {task}
  BY <1>1 DEF Holders
<1>3. OwnInvite'
  BY <1>1, <1>2 DEF OwnInvite
<1>4. \A t \in Holders' : \E u \in Holders : u.id = t.id /\ u.seq = t.seq /\ u.ts = t.ts
  BY <1>1, <1>2
<1>5. Counting'
  BY <1>4, CountingKept
<1>6. StreamFollowsFrames'
  BY DEF StreamFollowsFrames, Successive
<1>7. QED
  BY <1>3, <1>5, <1>6

LEMMA SlotSends ==
    ASSUME TalkbackInv, InOrder', task # NoTalkback, task.upstream, queue # <<>>,
           sent' = Append(sent, Packet(task, Head(queue))),
           task' = Sent(task, Head(queue)),
           UNCHANGED <<leaving, law, invites>>
    PROVE  OwnInvite' /\ Counting' /\ StreamFollowsFrames'
<1> USE DEF TalkbackInv
<1>1. PICK t, f, p : t = task /\ f = Head(queue) /\ p = Packet(task, Head(queue))
  OBVIOUS
<1>2. t \in Task /\ t \in Holders /\ f \in Frame
  BY <1>1, InSlot, QueueHead
<1>3. p.id = t.id /\ p.offer = t.offer /\ p.seq = t.seq /\ p.ts = t.ts /\ p.frame = f
  BY <1>1, <1>2, PacketTyped
<1>4. /\ task'.id = t.id /\ task'.offer = t.offer /\ task'.upstream = t.upstream
      /\ task'.codec = t.codec /\ task'.seq = (t.seq + 1) % Numbers
      /\ task'.ts = (t.ts + f.length) % ClockSpace
      /\ task' # NoTalkback
  <2>1. task' = Sent(t, f) /\ Sent(t, f) \in Task
    BY <1>1, <1>2, SentTyped
  <2>2. Sent(t, f) # NoTalkback
    BY <2>1 DEF Task, NoTalkback
  <2>3. QED
    BY <1>2, <2>1, <2>2, SentTyped
<1>5. Holders' = leaving \cup {task'} /\ Holders = leaving \cup {task}
  BY <1>4 DEF Holders
<1>6. sent' = Append(sent, p)
  BY <1>1
<1>7. /\ StreamFollowsFrames'
      /\ \A u : u.id # t.id /\ Counted(u) => Counted(u)'
      /\ \A u : /\ u.id = t.id
                /\ u.seq = (t.seq + 1) % Numbers
                /\ u.ts = (t.ts + p.frame.length) % ClockSpace
                => Counted(u)'
  BY <1>2, <1>3, <1>6, SessionSends
<1>8. \A u \in leaving : u.id # t.id
  BY <1>1 DEF OwnInvite
<1>9. Counting'
  <2>1. ASSUME NEW u \in Holders', u = task'
        PROVE  Counted(u)'
    BY <1>3, <1>4, <1>7, <2>1
  <2>2. ASSUME NEW u \in leaving
        PROVE  Counted(u)'
    BY <1>5, <1>7, <1>8 DEF Counting
  <2>3. QED
    BY <1>5, <2>1, <2>2 DEF Counting
<1>10. OwnInvite'
  <2>1. \A u \in Holders' : u.id <= invites'
    BY <1>1, <1>4, <1>5 DEF OwnInvite
  <2>2. \A k \in 1 .. Len(sent') : sent'[k].id <= invites'
    BY <1>2, <1>3, <1>6, WireLonger DEF OwnInvite
  <2>3. QED
    BY <1>1, <1>4, <2>1, <2>2 DEF OwnInvite
<1>11. QED
  BY <1>7, <1>9, <1>10

LEMMA AbortedSends ==
    ASSUME TalkbackInv, InOrder', NEW t \in leaving, leaving' = leaving \ {t},
           \/ sent' = sent
           \/ /\ t.upstream /\ queue # <<>>
              /\ sent' = Append(sent, Packet(t, Head(queue))),
           UNCHANGED <<task, law, invites>>
    PROVE  OwnInvite' /\ Counting' /\ StreamFollowsFrames'
<1> USE DEF TalkbackInv
<1>1. t \in Task /\ t \in Holders
  BY InSlot
<1>2. Holders' \subseteq Holders /\ \A u \in Holders' : u.id # t.id
  BY DEF Holders, OwnInvite
<1>3. CASE sent' = sent
  <2>1. OwnInvite'
    BY <1>2, <1>3 DEF OwnInvite
  <2>2. Counting'
    BY <1>2, <1>3, CountingKept
  <2>3. StreamFollowsFrames'
    BY <1>3 DEF StreamFollowsFrames, Successive
  <2>4. QED
    BY <2>1, <2>2, <2>3
<1>4. CASE /\ t.upstream /\ queue # <<>>
           /\ sent' = Append(sent, Packet(t, Head(queue)))
  <2>1. PICK f, p : f = Head(queue) /\ p = Packet(t, Head(queue))
    OBVIOUS
  <2>2. p.id = t.id /\ p.offer = t.offer /\ p.seq = t.seq /\ p.ts = t.ts /\ p.frame \in Frame
    BY <1>1, <1>4, <2>1, QueueHead, PacketTyped
  <2>3. sent' = Append(sent, p)
    BY <1>4, <2>1
  <2>4. /\ StreamFollowsFrames'
        /\ \A u : u.id # t.id /\ Counted(u) => Counted(u)'
    BY <1>1, <2>2, <2>3, SessionSends
  <2>5. Counting'
    BY <1>2, <2>4 DEF Counting
  <2>6. \A k \in 1 .. Len(sent') : sent'[k].id <= invites'
    BY <1>1, <2>2, <2>3, WireLonger DEF OwnInvite
  <2>7. OwnInvite'
    BY <1>2, <2>6 DEF OwnInvite
  <2>8. QED
    BY <2>4, <2>5, <2>7
<1>5. QED
  BY <1>3, <1>4

(* Frames stay in the law of their session when some are taken and sessions  *)
(* end or begin.                                                             *)
LEMMA FramesKept ==
    ASSUME TalkbackTyped, Labelled, polled' = polled,
           queue' = queue \/ (queue # <<>> /\ queue' = Tail(queue)),
           invites' \in {invites, invites + 1},
           \A t \in Holders' :
               \/ t.id \in Nat /\ t.id > invites
               \/ \E u \in Holders : /\ u.id = t.id /\ u.codec = t.codec
                                     /\ u.upstream = t.upstream
    PROVE  /\ \A i \in 1 .. Len(queue') : queue'[i].under <= invites'
           /\ polled'.under <= invites'
           /\ \A t \in Holders' : FramesFit(t)'
<1>1. \A i \in 1 .. Len(queue') : \E j \in 1 .. Len(queue) : queue'[i] = queue[j]
  <2>1. CASE queue' = queue
    BY <2>1
  <2>2. CASE queue # <<>> /\ queue' = Tail(queue)
    <3>1. ASSUME NEW i \in 1 .. Len(queue')
          PROVE  i + 1 \in 1 .. Len(queue) /\ queue'[i] = queue[i + 1]
      <4>1. /\ Len(queue) \in Nat /\ Len(queue') = Len(queue) - 1
            /\ \A j \in 1 .. Len(queue) - 1 : queue'[j] = queue[j + 1]
        BY <2>2, QueueHead
      <4>2. QED
        BY <4>1
    <3>2. QED
      BY <3>1
  <2>3. QED
    BY <2>1, <2>2
<1>2. /\ invites \in Nat /\ polled.under \in Nat
      /\ \A j \in 1 .. Len(queue) : queue[j].under \in Nat
  <2>1. MaxInvites \in Nat
    BY TalkbackAssumption
  <2>2. invites \in 0 .. MaxInvites /\ queue \in Seq(Frame)
        /\ polled \in Encoding \cup {NoFrame}
    BY DEF TalkbackTyped, TalkbackTypeOK
  <2>3. polled.under \in Nat
    BY <2>1, <2>2 DEF Encoding, NoFrame
  <2>4. ASSUME NEW j \in 1 .. Len(queue)
        PROVE  queue[j].under \in Nat
    <3>1. queue[j] \in Frame
      BY <2>2
    <3>2. QED
      BY <2>1, <3>1 DEF Frame
  <2>5. QED
    BY <2>1, <2>2, <2>3, <2>4
<1>3. /\ \A j \in 1 .. Len(queue) : queue[j].under <= invites
      /\ polled.under <= invites
  BY DEF Labelled
<1>4. ASSUME NEW i \in 1 .. Len(queue')
      PROVE  queue'[i].under <= invites' /\ queue'[i].under <= invites
             /\ queue'[i].under \in Nat
  BY <1>1, <1>2, <1>3
<1>5. ASSUME NEW t \in Holders'
      PROVE  FramesFit(t)'
  <2>1. CASE t.id \in Nat /\ t.id > invites
    BY <1>2, <1>3, <1>4, <2>1 DEF FramesFit
  <2>2. ASSUME NEW u \in Holders, u.id = t.id, u.codec = t.codec, u.upstream = t.upstream
        PROVE  FramesFit(t)'
    <3>1. FramesFit(u)
      BY DEF Labelled
    <3>2. QED
      BY <1>1, <2>2, <3>1 DEF FramesFit
  <2>3. QED
    BY <1>5, <2>1, <2>2
<1>6. QED
  BY <1>2, <1>3, <1>4, <1>5

(* A session sends the head of the queue: in its law, if it is of its time.  *)
LEMMA PacketLabelled ==
    ASSUME TalkbackTyped, Labelled, NEW t \in Holders, t.upstream, queue # <<>>,
           sent' = Append(sent, Packet(t, Head(queue)))
    PROVE  OwnFramesLabelled'
<1>1. PICK p : p = Packet(t, Head(queue))
  OBVIOUS
<1>2. /\ p.id = t.id /\ p.frame = queue[1] /\ p.type = Laws[t.codec]
      /\ 1 \in 1 .. Len(queue)
  BY <1>1, InSlot, QueueHead, PacketTyped
<1>3. FramesFit(t) /\ OwnFramesLabelled
  BY DEF Labelled
<1>4. p.frame.under = p.id => p.type = Laws[p.frame.law]
  BY <1>2, <1>3 DEF FramesFit
<1>5. QED
  BY <1>1, <1>3, <1>4, WireLonger DEF OwnFramesLabelled

(* The host's encoder takes up the law of the session in the slot.           *)
LEMMA EncoderFits ==
    ASSUME TalkbackTyped, OwnInvite, Labelled, HostPolls
    PROVE  Labelled'
<1>1. /\ polled'.law = law /\ polled'.under = task.id
      /\ UNCHANGED <<queue, task, leaving, law, invites, sent>>
  BY DEF HostPolls
<1>2. Holders' = Holders
  BY <1>1 DEF Holders
<1>3. invites \in Nat /\ \A t \in Holders : t.id \in Nat \ {0} /\ t.id <= invites
  BY InSlot DEF TalkbackTyped, TalkbackTypeOK, Task, OwnInvite
<1>4. task.id <= invites
  BY <1>3, InSlot DEF NoTalkback
<1>5. ASSUME NEW t \in Holders, t.upstream, task.id = t.id
      PROVE  law = t.codec
  <2>1. task # NoTalkback
    BY <1>3, <1>5 DEF NoTalkback
  <2>2. t = task
    BY <1>5, <2>1 DEF Holders, OwnInvite
  <2>3. QED
    BY <1>5, <2>1, <2>2 DEF Labelled
<1>6. ASSUME NEW t \in Holders
      PROVE  FramesFit(t)'
  <2>1. FramesFit(t)
    BY DEF Labelled
  <2>2. QED
    BY <1>1, <1>5, <2>1 DEF FramesFit
<1>7. QED
  BY <1>1, <1>2, <1>4, <1>6 DEF Labelled, OwnFramesLabelled

(* A frame that is pushed is of the law and the time it was begun in.        *)
LEMMA PushFits ==
    ASSUME TalkbackTyped, OwnInvite, Labelled, NEW length \in FrameLength,
           HostPushes(length)
    PROVE  Labelled'
<1>1. PICK f : f = [n |-> pushed + 1, law |-> polled.law, under |-> polled.under,
                    length |-> length]
  OBVIOUS
<1>2. /\ f.law = polled.law /\ f.under = polled.under
      /\ queue' = Append(queue, f) /\ polled' = NoFrame
      /\ UNCHANGED <<task, leaving, law, invites, sent>>
  BY <1>1 DEF HostPushes
<1>3. /\ Len(queue') = Len(queue) + 1 /\ Len(queue) \in Nat
      /\ \A i \in 1 .. Len(queue) : queue'[i] = queue[i]
      /\ queue'[Len(queue) + 1] = f
  BY <1>2 DEF TalkbackTyped, TalkbackTypeOK
<1>4. Holders' = Holders
  BY <1>2 DEF Holders
<1>5. invites \in Nat /\ \A t \in Holders : t.id \in Nat \ {0}
  BY InSlot DEF TalkbackTyped, TalkbackTypeOK, Task
<1>6. ASSUME NEW t \in Holders
      PROVE  FramesFit(t)'
  <2>1. FramesFit(t)
    BY DEF Labelled
  <2>2. NoFrame.under # t.id
    BY <1>5 DEF NoFrame
  <2>3. ASSUME t.upstream, NEW i \in 1 .. Len(queue'), queue'[i].under = t.id
        PROVE  queue'[i].law = t.codec
    <3>1. CASE i \in 1 .. Len(queue)
      BY <1>3, <2>1, <2>3, <3>1 DEF FramesFit
    <3>2. CASE i = Len(queue) + 1
      BY <1>2, <1>3, <2>1, <2>3, <3>2 DEF FramesFit
    <3>3. QED
      BY <1>3, <3>1, <3>2
  <2>4. QED
    BY <1>2, <2>2, <2>3 DEF FramesFit
<1>7. \A i \in 1 .. Len(queue') : queue'[i].under <= invites
  BY <1>2, <1>3 DEF Labelled
<1>8. polled'.under <= invites
  BY <1>2, <1>5 DEF NoFrame
<1>9. QED
  BY <1>2, <1>4, <1>6, <1>7, <1>8 DEF Labelled, OwnFramesLabelled

(* An INVITE announces the law of a session that sends before any frame of   *)
(* its time is begun.                                                        *)
LEMMA InviteFits ==
    ASSUME TalkbackTyped, OwnInvite, Labelled, NEW name \in DOMAIN Offers,
           HandleInvite(name)
    PROVE  Labelled'
<1> DEFINE invite == Invite(Read(Offers[name]))
<1>1. /\ invites < MaxInvites /\ invites' = invites + 1
      /\ UNCHANGED <<queue, polled, sent>>
  BY DEF HandleInvite, host
<1>2. invites \in Nat /\ Aborted \subseteq Holders
  BY DEF TalkbackTyped, TalkbackTypeOK, Aborted, Holders
<1>3. OwnFramesLabelled'
  BY <1>1 DEF Labelled, OwnFramesLabelled
<1>4. CASE UNCHANGED <<task, leaving, law>>
  <2>1. Holders' = Holders
    BY <1>4 DEF Holders
  <2>2. QED
    BY <1>1, <1>3, <1>4, <2>1, FramesKept DEF Labelled
<1>5. CASE leaving' = Aborted /\ task' = NoTalkback
  <2>1. Holders' \subseteq Holders
    BY <1>2, <1>5 DEF Holders
  <2>2. QED
    BY <1>1, <1>3, <1>5, <2>1, FramesKept DEF Labelled
<1>6. CASE /\ leaving' = Aborted
           /\ task' = SessionTask(name, invite)
           /\ law' = Negotiated(invite)
           /\ ~Refused(invite)
  <2>1. /\ task'.id = invites + 1 /\ task'.codec = invite.codec
        /\ task'.upstream = Upstream(invite)
    BY <1>6 DEF SessionTask
  <2>2. task'.upstream => law' = task'.codec
    BY <1>6, <2>1 DEF Negotiated
  <2>3. Holders' \subseteq Aborted \cup {task'}
    BY <1>6 DEF Holders
  <2>4. \A t \in Holders' : (t.id \in Nat /\ t.id > invites) \/ t \in Holders
    BY <1>2, <2>1, <2>3
  <2>5. /\ \A i \in 1 .. Len(queue') : queue'[i].under <= invites'
        /\ polled'.under <= invites'
        /\ \A t \in Holders' : FramesFit(t)'
    BY <1>1, <2>4, FramesKept
  <2>6. QED
    BY <1>3, <2>2, <2>5 DEF Labelled
<1>7. QED
  BY <1>4, <1>5, <1>6, InviteHolders

(* The task takes the head of the queue, and sends it or not.                *)
LEMMA TickFits ==
    ASSUME TalkbackTyped, Labelled, Tick
    PROVE  Labelled'
<1>1. /\ task # NoTalkback /\ task.upstream /\ queue # <<>> /\ queue' = Tail(queue)
      /\ UNCHANGED <<law, polled, leaving, invites>>
      /\ \/ UNCHANGED <<sent, task>>
         \/ /\ sent' = Append(sent, Packet(task, Head(queue)))
            /\ task' = Sent(task, Head(queue))
  BY DEF Tick, QueueAfter
<1>2. task \in Task /\ task \in Holders /\ Head(queue) \in Frame
  BY <1>1, InSlot, QueueHead
<1>3. task'.id = task.id /\ task'.codec = task.codec /\ task'.upstream = task.upstream
  <2>1. PICK u, f : u = Sent(task, f) /\ f = Head(queue)
    OBVIOUS
  <2>2. u.id = task.id /\ u.codec = task.codec /\ u.upstream = task.upstream
    BY <1>2, <2>1, SentTyped
  <2>3. task' = task \/ task' = u
    BY <1>1, <2>1
  <2>4. QED
    BY <2>2, <2>3
<1>4. Holders' \subseteq leaving \cup {task'} /\ leaving \subseteq Holders
  BY <1>1, <1>3 DEF Holders
<1>5. \A t \in Holders' : \E u \in Holders : /\ u.id = t.id /\ u.codec = t.codec
                                             /\ u.upstream = t.upstream
  BY <1>2, <1>3, <1>4
<1>6. /\ \A i \in 1 .. Len(queue') : queue'[i].under <= invites'
      /\ polled'.under <= invites'
      /\ \A t \in Holders' : FramesFit(t)'
  BY <1>1, <1>5, FramesKept
<1>7. OwnFramesLabelled'
  <2>1. CASE sent' = sent
    BY <2>1 DEF Labelled, OwnFramesLabelled
  <2>2. CASE sent' = Append(sent, Packet(task, Head(queue)))
    BY <1>1, <1>2, <2>2, PacketLabelled
  <2>3. QED
    BY <1>1, <2>1, <2>2
<1>8. task'.upstream => law' = task'.codec
  BY <1>1, <1>3 DEF Labelled
<1>9. QED
  BY <1>6, <1>7, <1>8 DEF Labelled

(* The session's task ends, with a frame that failed or without.             *)
LEMMA FinishFits ==
    ASSUME TalkbackTyped, Labelled, TickFails \/ ReceiveFails
    PROVE  Labelled'
<1>1. /\ task # NoTalkback /\ task' = [task EXCEPT !.running = FALSE]
      /\ queue' = queue \/ (queue # <<>> /\ queue' = Tail(queue))
      /\ UNCHANGED <<law, polled, leaving, invites, sent>>
  BY DEF TickFails, ReceiveFails, QueueAfter, host
<1>2. /\ task'.id = task.id /\ task'.codec = task.codec
      /\ task'.upstream = task.upstream /\ task \in Holders
  BY <1>1, InSlot DEF Task
<1>3. Holders' \subseteq leaving \cup {task'} /\ leaving \subseteq Holders
  BY <1>1 DEF Holders
<1>4. \A t \in Holders' : \E u \in Holders : /\ u.id = t.id /\ u.codec = t.codec
                                             /\ u.upstream = t.upstream
  BY <1>2, <1>3
<1>5. /\ \A i \in 1 .. Len(queue') : queue'[i].under <= invites'
      /\ polled'.under <= invites'
      /\ \A t \in Holders' : FramesFit(t)'
  BY <1>1, <1>4, FramesKept
<1>6. task'.upstream => law' = task'.codec
  BY <1>1, <1>2 DEF Labelled
<1>7. QED
  BY <1>1, <1>5, <1>6 DEF Labelled, OwnFramesLabelled

(* An aborted task's last poll.                                              *)
LEMMA LastPollFits ==
    ASSUME TalkbackTyped, Labelled, NEW t \in leaving, LastPoll(t)
    PROVE  Labelled'
<1>1. /\ leaving' = leaving \ {t}
      /\ queue' = queue \/ (queue # <<>> /\ queue' = Tail(queue))
      /\ \/ sent' = sent
         \/ /\ t.upstream /\ queue # <<>>
            /\ sent' = Append(sent, Packet(t, Head(queue)))
      /\ UNCHANGED <<law, polled, task, invites>>
  BY DEF LastPoll, QueueAfter
<1>2. Holders' \subseteq Holders /\ t \in Holders
  BY <1>1 DEF Holders
<1>3. /\ \A i \in 1 .. Len(queue') : queue'[i].under <= invites'
      /\ polled'.under <= invites'
      /\ \A u \in Holders' : FramesFit(u)'
  BY <1>1, <1>2, FramesKept
<1>4. OwnFramesLabelled'
  <2>1. CASE sent' = sent
    BY <2>1 DEF Labelled, OwnFramesLabelled
  <2>2. CASE /\ t.upstream /\ queue # <<>>
             /\ sent' = Append(sent, Packet(t, Head(queue)))
    BY <1>2, <2>2, PacketLabelled
  <2>3. QED
    BY <1>1, <2>1, <2>2
<1>5. QED
  BY <1>1, <1>3, <1>4 DEF Labelled

LEMMA LabelledStep ==
    ASSUME TalkbackTyped, OwnInvite, Labelled, [TalkbackNext]_talkbackVars
    PROVE  Labelled'
<1>1. CASE HostPolls
  BY <1>1, EncoderFits
<1>2. CASE \E length \in FrameLength : HostPushes(length)
  BY <1>2, PushFits
<1>3. CASE \E name \in DOMAIN Offers : HandleInvite(name)
  BY <1>3, InviteFits
<1>4. CASE HandleBye
  <2>1. /\ task' = NoTalkback /\ leaving' = Aborted
        /\ UNCHANGED <<law, queue, polled, invites, sent>>
    BY <1>4 DEF HandleBye, host
  <2>2. Holders' \subseteq Holders
    BY <2>1 DEF Holders, Aborted
  <2>3. QED
    BY <2>1, <2>2, FramesKept DEF Labelled, OwnFramesLabelled
<1>5. CASE Tick
  BY <1>5, TickFits
<1>6. CASE TickFails \/ ReceiveFails
  BY <1>6, FinishFits
<1>7. CASE \E t \in leaving : LastPoll(t)
  BY <1>7, LastPollFits
<1>8. CASE (\E ssrc \in {0, 7} : Hear(ssrc)) \/ UNCHANGED talkbackVars
  <2>1. UNCHANGED <<law, queue, polled, task, leaving, invites, sent>>
    BY <1>8 DEF Hear, host, talkbackVars
  <2>2. Holders' = Holders
    BY <2>1 DEF Holders
  <2>3. QED
    BY <2>1, <2>2, FramesKept DEF Labelled, OwnFramesLabelled
<1>9. QED
  BY <1>1, <1>2, <1>3, <1>4, <1>5, <1>6, <1>7, <1>8 DEF TalkbackNext

LEMMA TalkbackInvInit == TalkbackInit => TalkbackInv
<1> SUFFICES ASSUME TalkbackInit
             PROVE  TalkbackInv
  OBVIOUS
<1>1. TalkbackTyped /\ InOrder
  BY TalkbackTypeInit, InOrderInit
<1>2. Holders = {} /\ Len(sent) = 0
  BY DEF TalkbackInit, Holders
<1>3. OwnInvite /\ Counting /\ StreamFollowsFrames
  BY <1>2 DEF TalkbackInit, OwnInvite, Counting, StreamFollowsFrames
<1>4. Labelled
  <2>1. polled.under <= invites /\ Len(queue) = 0 /\ task = NoTalkback
    BY DEF TalkbackInit, NoFrame
  <2>2. QED
    BY <1>2, <2>1 DEF Labelled, OwnFramesLabelled
<1>5. QED
  BY <1>1, <1>3, <1>4 DEF TalkbackInv

LEMMA TalkbackInvStep == TalkbackInv /\ [TalkbackNext]_talkbackVars => TalkbackInv'
<1> SUFFICES ASSUME TalkbackInv, [TalkbackNext]_talkbackVars
             PROVE  TalkbackInv'
  OBVIOUS
<1>1. TalkbackTyped /\ InOrder
  BY DEF TalkbackInv
<1>2. TalkbackTyped' /\ InOrder'
  BY <1>1, TalkbackTypeStep, InOrderStep
<1>3. OwnInvite' /\ Counting' /\ StreamFollowsFrames'
  <2>1. CASE UNCHANGED <<task, leaving, law, sent>> /\ invites' \in {invites, invites + 1}
    BY <2>1, SessionsKept
  <2>2. CASE /\ leaving' = Aborted /\ task' = NoTalkback
             /\ invites' \in {invites, invites + 1} /\ sent' = sent
    BY <2>2, SlotEmptied
  <2>3. ASSUME NEW name \in DOMAIN Offers,
               /\ leaving' = Aborted
               /\ task' = SessionTask(name, Invite(Read(Offers[name])))
               /\ law' = Negotiated(Invite(Read(Offers[name])))
               /\ ~Refused(Invite(Read(Offers[name])))
               /\ invites < MaxInvites
               /\ invites' = invites + 1
               /\ sent' = sent
        PROVE  OwnInvite' /\ Counting' /\ StreamFollowsFrames'
    BY <2>3, SessionBegins
  <2>4. CASE /\ task # NoTalkback
             /\ task' = [task EXCEPT !.running = FALSE]
             /\ UNCHANGED <<leaving, law, invites, sent>>
    BY <2>4, SessionFinishes
  <2>5. CASE /\ task # NoTalkback /\ task.upstream /\ queue # <<>>
             /\ sent' = Append(sent, Packet(task, Head(queue)))
             /\ task' = Sent(task, Head(queue))
             /\ UNCHANGED <<leaving, law, invites>>
    BY <1>2, <2>5, SlotSends
  <2>6. ASSUME NEW t \in leaving,
               /\ leaving' = leaving \ {t}
               /\ \/ sent' = sent
                  \/ /\ t.upstream /\ queue # <<>>
                     /\ sent' = Append(sent, Packet(t, Head(queue)))
               /\ UNCHANGED <<task, law, invites>>
        PROVE  OwnInvite' /\ Counting' /\ StreamFollowsFrames'
    BY <1>2, <2>6, AbortedSends
  <2>7. QED
    BY <1>1, <2>1, <2>2, <2>3, <2>4, <2>5, <2>6, HoldersStep
<1>4. Labelled'
  BY LabelledStep DEF TalkbackInv
<1>5. QED
  BY <1>2, <1>3, <1>4 DEF TalkbackInv

LEMMA TalkbackInvHolds == TalkbackSpec => []TalkbackInv
BY TalkbackInvInit, TalkbackInvStep, PTL DEF TalkbackSpec

(* The talkback source and its sessions are type correct for any offers, any *)
(* frames and any number of INVITEs (TalkbackSource and the task of          *)
(* handle_audio_invite).                                                     *)
THEOREM TalkbackTypeCorrect == TalkbackSpec => []TalkbackTypeOK
<1>1. TalkbackInv => TalkbackTypeOK
  BY DEF TalkbackInv, TalkbackTyped
<1>2. QED
  BY <1>1, TalkbackInvHolds, PTL

(* However many sessions follow each other, and though an aborted one may    *)
(* send once more beside its successor, a session's packets are numbered and *)
(* timed by the frames that left in it, in the order the host pushed them,   *)
(* and no frame leaves twice.                                                *)
THEOREM StreamsFollowFrames == TalkbackSpec => []StreamFollowsFrames
<1>1. TalkbackInv => StreamFollowsFrames
  BY DEF TalkbackInv
<1>2. QED
  BY <1>1, TalkbackInvHolds, PTL

(* However the sessions, the frames and the offers follow each other, a      *)
(* frame that was encoded in the time of the session that sends it leaves    *)
(* under the payload type of its law (TalkbackSource::negotiate and the      *)
(* task's pt).                                                               *)
THEOREM OwnFramesAlwaysLabelled == TalkbackSpec => []OwnFramesLabelled
<1>1. TalkbackInv => OwnFramesLabelled
  BY DEF TalkbackInv, Labelled
<1>2. QED
  BY <1>1, TalkbackInvHolds, PTL
===============================================================================
