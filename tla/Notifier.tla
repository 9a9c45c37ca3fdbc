------------------------------- MODULE Notifier -------------------------------
(***************************************************************************)
(* The device side of SUBSCRIBE/NOTIFY on the UDP transport: the           *)
(* subscription book and the notifier shared with the host (src/src/       *)
(* subscribe.rs), the SUBSCRIBE handler and the periodic position task     *)
(* (src/src/server.rs).                                                    *)
(*                                                                         *)
(* The server's loop books; host threads and position tasks send.  A sender *)
(* takes a dialog snapshot and a CSeq number out of the book under its     *)
(* lock, then writes to the socket without it, so senders race between the *)
(* two steps.  A SUBSCRIBE can be a renewal, a new dialog or a             *)
(* retransmission; clocks are not modelled, an entry lapses at any time.   *)
(***************************************************************************)
EXTENDS Naturals

CONSTANTS
    Event,       \* subjects of SubscribeEvent
    Position,    \* the MobilePosition subject
    Dialog,      \* Call-IDs of the platform's SUBSCRIBE dialogs
    CSeq,        \* CSeq numbers of its SUBSCRIBEs
    Host,        \* host threads that call the notifier
    PositionSource, \* whether with_position_source() installed a source
    MaxBookings, \* bound: SUBSCRIBEs booked
    MaxNumber,   \* bound: largest NOTIFY CSeq allocated
    None         \* no dialog

ASSUME NotifierAssumption ==
    /\ Position \in Event
    /\ CSeq \subseteq Nat
    /\ PositionSource \in BOOLEAN
    /\ MaxBookings \in Nat
    /\ MaxNumber \in Nat
    /\ None \notin Dialog
    /\ Host \cap (0 .. MaxBookings) = {}

VARIABLES
    book,       \* the registry: event -> subscription
    bookings,   \* SUBSCRIBEs booked so far
    hand,       \* what each sender took and has not written yet
    wire,       \* NOTIFYs written to the socket
    tasks,      \* position tasks on the runtime
    told,       \* those whose cancel channel was signalled or closed
    position_cancel, \* the server's cancel sender, by task
    phase       \* "serving", or "stopped" once the server is dropped

vars == <<book, bookings, hand, wire, tasks, told, position_cancel, phase>>

NoTask  == 0
Task    == 1 .. MaxBookings
Sender  == Host \cup Task
Booking == 1 .. MaxBookings

NoEntry == [dialog |-> None, booking |-> 0, next_cseq |-> 0, lapsed |-> FALSE]
Entry   == [dialog : Dialog, booking : Booking, next_cseq : Nat, lapsed : BOOLEAN]

Nothing == [event |-> None, dialog |-> None, booking |-> 0, number |-> 0]
Notify  == [event : Event, dialog : Dialog, booking : Booking, number : Nat]

TypeOK ==
    /\ book \in [Event -> Entry \cup {NoEntry}]
    /\ bookings \in 0 .. MaxBookings
    /\ hand \in [Sender -> Notify \cup {Nothing}]
    /\ wire \subseteq Notify
    /\ tasks \in [Task -> {"unborn", "running", "ended"}]
    /\ told \subseteq Task
    /\ position_cancel \in Task \cup {NoTask}
    /\ phase \in {"serving", "stopped"}

Init ==
    /\ book = [e \in Event |-> NoEntry]
    /\ bookings = 0
    /\ hand = [s \in Sender |-> Nothing]
    /\ wire = {}
    /\ tasks = [i \in Task |-> "unborn"]
    /\ told = {}
    /\ position_cancel = NoTask
    /\ phase = "serving"

-------------------------------------------------------------------------------
(* SUBSCRIBE.                                                              *)

ForgottenTask == told

CancelledNew == told \cup ({bookings + 1} \cap Task)

(* position_cancel.take(), then a signal and the drop of the sender. *)
CancelledTask == told \cup ({position_cancel} \ {NoTask})

(* upsert: the new entry replaces the old one whatever it held, its number   *)
(* starts behind the SUBSCRIBE's own CSeq.                                   *)
Upserted(d, n) ==
    [dialog |-> d, booking |-> bookings + 1, next_cseq |-> n + 1, lapsed |-> FALSE]

(* A booked subject.  Expires: 0 books too, for one second.  A position      *)
(* subscription starts a report task and cancels the one before it.          *)
Subscribe(e, d, n) ==
    /\ phase = "serving"
    /\ bookings < MaxBookings
    /\ bookings' = bookings + 1
    /\ book' = [book EXCEPT ![e] = Upserted(d, n)]
    /\ \/ /\ e = Position /\ PositionSource
          /\ tasks' = [tasks EXCEPT ![bookings + 1] = "running"]
          /\ told' = CancelledTask
          /\ position_cancel' = bookings + 1
       \/ /\ ~(e = Position /\ PositionSource)
          /\ UNCHANGED <<tasks, told, position_cancel>>
    /\ UNCHANGED <<hand, wire, phase>>

(* The deadline of an entry passes. *)
Lapse(e) ==
    /\ book[e] # NoEntry
    /\ ~book[e].lapsed
    /\ book' = [book EXCEPT ![e].lapsed = TRUE]
    /\ UNCHANGED <<bookings, hand, wire, tasks, told, position_cancel, phase>>

-------------------------------------------------------------------------------
(* Sending.                                                                *)

Live(e) == book[e] # NoEntry /\ ~book[e].lapsed

UnbumpedBook(e) == book

BumpedBook(e) == [book EXCEPT ![e].next_cseq = @ + 1]

(* active(): the snapshot and its number, in one critical section. *)
Take(s, e) ==
    /\ hand[s] = Nothing
    /\ Live(e)
    /\ book[e].next_cseq <= MaxNumber
    /\ hand' = [hand EXCEPT ![s] =
                  [event |-> e, dialog |-> book[e].dialog,
                   booking |-> book[e].booking, number |-> book[e].next_cseq]]
    /\ book' = BumpedBook(e)
    /\ UNCHANGED <<bookings, wire, tasks, told, position_cancel, phase>>

(* active() and is_active() drop a lapsed entry they meet. *)
DropLapsed(s, e) ==
    /\ hand[s] = Nothing
    /\ book[e] # NoEntry
    /\ book[e].lapsed
    /\ book' = [book EXCEPT ![e] = NoEntry]
    /\ UNCHANGED <<bookings, hand, wire, tasks, told, position_cancel, phase>>

(* The host holds the notifier beyond the server's life. *)
HostNotifies(h, e) == Take(h, e) \/ DropLapsed(h, e)

(* A position task that wakes up by its interval; one told to stop may still *)
(* do so, select! picks either branch.                                       *)
PositionTick(i) ==
    /\ tasks[i] = "running"
    /\ Take(i, Position) \/ DropLapsed(i, Position)

(* The blocking send, outside the lock; it may fail. *)
Transmit(s) ==
    /\ hand[s] # Nothing
    /\ hand' = [hand EXCEPT ![s] = Nothing]
    /\ wire' = wire \cup {hand[s]}
    /\ UNCHANGED <<book, bookings, tasks, told, position_cancel, phase>>

TransmitFails(s) ==
    /\ hand[s] # Nothing
    /\ hand' = [hand EXCEPT ![s] = Nothing]
    /\ UNCHANGED <<book, bookings, wire, tasks, told, position_cancel, phase>>

-------------------------------------------------------------------------------
(* The end of a position task.                                             *)

LeavesUnsubscribed(i) == i \in told /\ book[Position] = NoEntry

(* It leaves at its select, never between taking and sending. *)
Leaves(i) == i \in told /\ hand[i] = Nothing

PositionTaskEnds(i) ==
    /\ tasks[i] = "running"
    /\ Leaves(i)
    /\ tasks' = [tasks EXCEPT ![i] = "ended"]
    /\ UNCHANGED <<book, bookings, hand, wire, told, position_cancel, phase>>

(* The run loop returns and the server value is dropped, its cancel sender   *)
(* with it.  The book and the socket stay with the host's notifier.          *)
ServerDropped ==
    /\ phase = "serving"
    /\ phase' = "stopped"
    /\ told' = CancelledTask
    /\ position_cancel' = NoTask
    /\ UNCHANGED <<book, bookings, hand, wire, tasks>>

-------------------------------------------------------------------------------
Next ==
    \/ \E e \in Event, d \in Dialog, n \in CSeq : Subscribe(e, d, n)
    \/ \E e \in Event : Lapse(e)
    \/ \E h \in Host, e \in Event : HostNotifies(h, e)
    \/ \E i \in Task : PositionTick(i) \/ PositionTaskEnds(i)
    \/ \E s \in Sender : Transmit(s) \/ TransmitFails(s)
    \/ ServerDropped

Spec == Init /\ [][Next]_vars

(* The runtime: a position task's interval expires and its sends return, and *)
(* a select! whose cancel branch stays ready takes it in the end.  The       *)
(* position source is assumed to have a position to report.                  *)
Fairness ==
    \A i \in Task :
        /\ SF_vars(PositionTaskEnds(i))
        /\ WF_vars(PositionTick(i))
        /\ WF_vars(Transmit(i) \/ TransmitFails(i))

FairSpec == Spec /\ Fairness

-------------------------------------------------------------------------------
(* Properties.                                                             *)

Sent == wire \cup ({hand[s] : s \in Sender} \ {Nothing})

(* Senders race for numbers, but no two of them ever hold or have written    *)
(* the same number of one booking, and no two bookings ever share an entry.  *)
NumbersNotShared ==
    /\ \A s, t \in Sender : s # t /\ hand[s] # Nothing => hand[s] # hand[t]
    /\ \A s \in Sender : hand[s] \notin wire
    /\ \A m \in Sent, e \in Event :
          m.booking = book[e].booking =>
              /\ m.event = e
              /\ m.dialog = book[e].dialog
              /\ m.number < book[e].next_cseq

(* "One task at a time": the only position task nobody told to stop is the   *)
(* one the server can still cancel, so a burst of SUBSCRIBEs never leaves    *)
(* two reporting for good and none survives the server.                      *)
OnePositionTask ==
    \A i \in Task :
        tasks[i] = "running" /\ i \notin told =>
            i = position_cancel /\ phase = "serving"

(* A task told to stop ends, so the platform receives one stream of position *)
(* reports per subscription, and none after the server is gone.              *)
ReplacedTasksEnd == \A i \in Task : i \in told ~> tasks[i] = "ended"

(* A position subscription that lasts is served: as long as the server runs  *)
(* and the subscription does not lapse, a report is taken up for it, renewed *)
(* or not.                                                                   *)
PositionServed ==
    Live(Position) /\ PositionSource ~>
        \/ ~Live(Position)
        \/ phase = "stopped"
        \/ \E m \in Sent : m.event = Position /\ m.booking = book[Position].booking
        \/ book[Position].next_cseq > MaxNumber

(* The test cseq_advances_per_notify: the CSeq numbers of the NOTIFYs sent   *)
(* on one dialog advance.                                                    *)
NumbersAdvance ==
    [][ \A m \in wire' \ wire : \A p \in wire :
          p.dialog = m.dialog /\ p.event = m.event => p.number < m.number ]_vars
===============================================================================
