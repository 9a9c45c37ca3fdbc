---------------------------- MODULE Notifier_proofs ----------------------------
(***************************************************************************)
(* Proofs of the safety invariants of Notifier, for any number of events,  *)
(* dialogs, host threads and bookings.  The numbers of one booking go out  *)
(* of one entry, so the argument is about entries: a booking is in at most *)
(* one, and every number taken from it is behind the entry's next one.     *)
(***************************************************************************)
EXTENDS Notifier, TLAPS

-------------------------------------------------------------------------------
(* The inductive invariants.                                               *)

(* Bookings are numbered as they come, each has one entry. *)
Bookings ==
    /\ \A e \in Event : book[e].booking <= bookings
    /\ \A s \in Sender : hand[s].booking <= bookings
    /\ \A m \in wire : m.booking <= bookings
    /\ \A e, f \in Event :
          book[e] # NoEntry /\ book[f] # NoEntry /\ book[e].booking = book[f].booking
              => e = f

(* What was taken from an entry is behind it. *)
Behind(entries, m) ==
    \A e \in Event :
        m.booking = entries[e].booking =>
            /\ m.event = e
            /\ m.dialog = entries[e].dialog
            /\ m.number < entries[e].next_cseq

Numbers ==
    /\ \A s, t \in Sender : s # t /\ hand[s] # Nothing => hand[s] # hand[t]
    /\ \A s \in Sender : hand[s] \notin wire
    /\ \A s \in Sender : hand[s] # Nothing => Behind(book, hand[s])
    /\ \A m \in wire : Behind(book, m)

NumbersInv == TypeOK /\ Bookings /\ Numbers

TasksInv == TypeOK /\ OnePositionTask

-------------------------------------------------------------------------------
LEMMA NothingIsNoNotify ==
    Nothing \notin Notify /\ NoEntry \notin Entry
BY NotifierAssumption DEF Nothing, Notify, NoEntry, Entry, Booking

(* An entry that is not empty has a booking of its own. *)
LEMMA EntryTyped ==
    ASSUME TypeOK, NEW e \in Event, book[e] # NoEntry
    PROVE  /\ book[e] \in Entry
           /\ book[e].dialog \in Dialog
           /\ book[e].booking \in Booking
           /\ book[e].next_cseq \in Nat
           /\ book[e].lapsed \in BOOLEAN
BY DEF TypeOK, Entry

LEMMA TypeInit == Init => TypeOK
BY NotifierAssumption DEF Init, TypeOK, NoTask, Task, Sender

(* What Take does to the types. *)
LEMMA TakeTyped ==
    ASSUME TypeOK, NEW s \in Sender, NEW e \in Event, Take(s, e)
    PROVE  /\ hand'[s] = [event |-> e, dialog |-> book[e].dialog,
                          booking |-> book[e].booking, number |-> book[e].next_cseq]
           /\ hand'[s] \in Notify
           /\ \A t \in Sender \ {s} : hand'[t] = hand[t]
           /\ book'[e] = [book[e] EXCEPT !.next_cseq = @ + 1]
           /\ book'[e] \in Entry
           /\ \A f \in Event \ {e} : book'[f] = book[f]
           /\ TypeOK'
<1>1. book[e] \in Entry /\ book[e] # NoEntry
  BY EntryTyped DEF Take, Live
<1>2. /\ book[e].dialog \in Dialog
      /\ book[e].booking \in Booking
      /\ book[e].next_cseq \in Nat
      /\ book[e].lapsed \in BOOLEAN
  BY <1>1 DEF Entry
<1>. DEFINE m == [event |-> e, dialog |-> book[e].dialog,
                  booking |-> book[e].booking, number |-> book[e].next_cseq]
<1>3. m \in Notify
  BY <1>2 DEF Notify
<1>4. /\ hand' = [hand EXCEPT ![s] = m]
      /\ hand' \in [Sender -> Notify \cup {Nothing}]
      /\ hand'[s] = m
      /\ \A t \in Sender \ {s} : hand'[t] = hand[t]
  BY <1>3 DEF Take, TypeOK
<1>. DEFINE b == [book[e] EXCEPT !.next_cseq = @ + 1]
<1>5. b \in Entry
  BY <1>1, <1>2 DEF Entry
<1>6. book' = [book EXCEPT ![e] = b]
  BY DEF Take, BumpedBook
<1>7. /\ book' \in [Event -> Entry \cup {NoEntry}]
      /\ book'[e] = b
      /\ \A f \in Event \ {e} : book'[f] = book[f]
  BY <1>5, <1>6 DEF TypeOK
<1>8. TypeOK'
  BY <1>4, <1>7 DEF Take, TypeOK
<1> QED
  BY <1>3, <1>4, <1>5, <1>7, <1>8

(* TypeOK is inductive by itself. *)
LEMMA TypeStep == TypeOK /\ [Next]_vars => TypeOK'
<1> SUFFICES ASSUME TypeOK, [Next]_vars
             PROVE  TypeOK'
  OBVIOUS
<1>1. ASSUME NEW e \in Event, NEW d \in Dialog, NEW n \in CSeq, Subscribe(e, d, n)
      PROVE  TypeOK'
  <2>1. /\ bookings + 1 \in Booking
        /\ bookings' = bookings + 1
        /\ bookings' \in 0 .. MaxBookings
    BY <1>1, NotifierAssumption DEF Subscribe, TypeOK, Booking
  <2>2. Upserted(d, n) \in Entry
    BY <2>1, NotifierAssumption DEF Upserted, Entry
  <2>3. book' \in [Event -> Entry \cup {NoEntry}]
    BY <1>1, <2>2 DEF Subscribe, TypeOK
  <2>4. /\ tasks' \in [Task -> {"unborn", "running", "ended"}]
        /\ told' \subseteq Task
        /\ position_cancel' \in Task \cup {NoTask}
    BY <1>1, <2>1 DEF Subscribe, CancelledTask, TypeOK, Task, Booking
  <2> QED
    BY <1>1, <2>1, <2>3, <2>4 DEF Subscribe, TypeOK
<1>2. ASSUME NEW e \in Event, Lapse(e)
      PROVE  TypeOK'
  <2>1. [book[e] EXCEPT !.lapsed = TRUE] \in Entry
    BY <1>2, EntryTyped DEF Lapse, Entry
  <2>2. book' = [book EXCEPT ![e] = [book[e] EXCEPT !.lapsed = TRUE]]
    BY <1>2 DEF Lapse
  <2> QED
    BY <1>2, <2>1, <2>2 DEF Lapse, TypeOK
<1>3. ASSUME NEW s \in Sender, NEW e \in Event, DropLapsed(s, e)
      PROVE  TypeOK'
  BY <1>3 DEF DropLapsed, TypeOK
<1>4. ASSUME NEW h \in Host, NEW e \in Event, HostNotifies(h, e)
      PROVE  TypeOK'
  BY <1>4, <1>3, TakeTyped DEF HostNotifies, Sender
<1>5. ASSUME NEW i \in Task, PositionTick(i)
      PROVE  TypeOK'
  BY <1>5, <1>3, TakeTyped, NotifierAssumption DEF PositionTick, Sender
<1>6. ASSUME NEW i \in Task, PositionTaskEnds(i)
      PROVE  TypeOK'
  BY <1>6 DEF PositionTaskEnds, TypeOK
<1>7. ASSUME NEW s \in Sender, Transmit(s) \/ TransmitFails(s)
      PROVE  TypeOK'
  BY <1>7 DEF Transmit, TransmitFails, TypeOK
<1>8. CASE ServerDropped
  BY <1>8 DEF ServerDropped, CancelledTask, TypeOK
<1>9. CASE UNCHANGED vars
  BY <1>9 DEF vars, TypeOK
<1> QED
  BY <1>1, <1>2, <1>4, <1>5, <1>6, <1>7, <1>8, <1>9, NotifierAssumption DEF Next

(* Type correctness: the registry, the senders' hands and the tasks keep the *)
(* shapes the code's types give them.                                        *)
THEOREM NotifierTypeCorrect == Spec => []TypeOK
BY TypeInit, TypeStep, PTL DEF Spec

-------------------------------------------------------------------------------
(* NumbersNotShared.                                                       *)

LEMMA NumbersInit == Init => Bookings /\ Numbers
<1> SUFFICES ASSUME Init
             PROVE  Bookings /\ Numbers
  OBVIOUS
<1>1. /\ \A e \in Event : book[e] = NoEntry
      /\ \A s \in Sender : hand[s] = Nothing
      /\ wire = {}
      /\ bookings = 0
  BY DEF Init
<1>2. NoEntry.booking = 0 /\ Nothing.booking = 0
  BY DEF NoEntry, Nothing
<1>3. Bookings
  BY <1>1, <1>2 DEF Bookings
<1>4. Numbers
  BY <1>1 DEF Numbers
<1> QED
  BY <1>3, <1>4

(* A step that writes nothing new and leaves the entries' numbers alone.     *)
LEMMA EntriesKept ==
    ASSUME NumbersInv, TypeOK',
           bookings' = bookings,
           hand' = hand,
           wire' = wire,
           \A e \in Event :
              \/ book'[e] = NoEntry
              \/ /\ book[e] # NoEntry
                 /\ book'[e].booking = book[e].booking
                 /\ book'[e].dialog = book[e].dialog
                 /\ book'[e].next_cseq = book[e].next_cseq
    PROVE  Bookings' /\ Numbers'
<1>1. \A m \in Notify : m.booking # 0
  BY DEF Notify, Booking
<1>2. \A m \in Notify : Behind(book, m) => Behind(book', m)
  BY <1>1 DEF Behind, NoEntry
<1>3. (\A s \in Sender : hand[s] # Nothing => hand[s] \in Notify) /\ wire \subseteq Notify
  BY DEF NumbersInv, TypeOK
<1>4. Numbers'
  BY <1>2, <1>3 DEF NumbersInv, Numbers
<1>5. Bookings'
  BY DEF NumbersInv, Bookings, TypeOK, NoEntry
<1> QED
  BY <1>4, <1>5

(* Taking a number: it is the entry's next one, so nobody has it. *)
LEMMA TakeKeepsNumbers ==
    ASSUME NumbersInv, TypeOK', NEW s \in Sender, NEW e \in Event, Take(s, e)
    PROVE  Bookings' /\ Numbers'
<1>. DEFINE m == hand'[s]
<1>1. /\ m = [event |-> e, dialog |-> book[e].dialog,
              booking |-> book[e].booking, number |-> book[e].next_cseq]
      /\ m \in Notify
      /\ \A t \in Sender \ {s} : hand'[t] = hand[t]
      /\ book'[e] = [book[e] EXCEPT !.next_cseq = @ + 1]
      /\ \A f \in Event \ {e} : book'[f] = book[f]
      /\ bookings' = bookings
      /\ wire' = wire
  BY TakeTyped DEF NumbersInv, Take
<1>2. /\ book[e] # NoEntry
      /\ book[e] \in Entry
      /\ book[e].booking \in Booking
      /\ book[e].next_cseq \in Nat
  BY EntryTyped DEF NumbersInv, Take, Live
<1>3. /\ book'[e].booking = book[e].booking
      /\ book'[e].dialog = book[e].dialog
      /\ book'[e].next_cseq = book[e].next_cseq + 1
      /\ book'[e] # NoEntry
  BY <1>1, <1>2, NotifierAssumption DEF Entry, NoEntry, Booking
<1>4. \A x \in Notify : Behind(book, x) => Behind(book', x) /\ x # m
  <2> SUFFICES ASSUME NEW x \in Notify, Behind(book, x)
               PROVE  Behind(book', x) /\ x # m
    OBVIOUS
  <2>1. x.number \in Nat
    BY DEF Notify
  <2>2. x # m
    BY <1>1, <1>2, <2>1 DEF Behind
  <2>3. Behind(book', x)
    <3> SUFFICES ASSUME NEW f \in Event, x.booking = book'[f].booking
                 PROVE  /\ x.event = f
                        /\ x.dialog = book'[f].dialog
                        /\ x.number < book'[f].next_cseq
      BY DEF Behind
    <3>1. CASE f = e
      BY <1>2, <1>3, <2>1, <3>1 DEF Behind
    <3>2. CASE f # e
      BY <1>1, <3>2 DEF Behind
    <3> QED
      BY <3>1, <3>2
  <2> QED
    BY <2>2, <2>3
<1>5. Behind(book', m)
  <2> SUFFICES ASSUME NEW f \in Event, m.booking = book'[f].booking
               PROVE  /\ m.event = f
                      /\ m.dialog = book'[f].dialog
                      /\ m.number < book'[f].next_cseq
    BY DEF Behind
  <2>1. f = e
    BY <1>1, <1>2, <1>3 DEF NumbersInv, Bookings, NoEntry, Booking
  <2>2. /\ m.event = e
        /\ m.dialog = book[e].dialog
        /\ m.number = book[e].next_cseq
    BY <1>1
  <2>3. m.number < book'[e].next_cseq
    BY <1>2, <1>3, <2>2
  <2> QED
    BY <1>3, <2>1, <2>2, <2>3
<1>6. /\ \A t \in Sender : hand[t] # Nothing => hand[t] \in Notify /\ Behind(book, hand[t])
      /\ \A x \in wire : x \in Notify /\ Behind(book, x)
  BY DEF NumbersInv, Numbers, TypeOK
<1>7. m # Nothing
  BY <1>1, NothingIsNoNotify
<1>8. Numbers'
  <2>1. \A t \in Sender \ {s} : hand[t] # m
    BY <1>4, <1>6, <1>7
  <2>2. m \notin wire
    BY <1>4, <1>6
  <2>3. \A t, u \in Sender : t # u /\ hand'[t] # Nothing => hand'[t] # hand'[u]
    BY <1>1, <1>7, <2>1 DEF NumbersInv, Numbers
  <2>4. \A t \in Sender : hand'[t] \notin wire'
    BY <1>1, <2>2 DEF NumbersInv, Numbers
  <2>5. \A t \in Sender : hand'[t] # Nothing => Behind(book', hand'[t])
    BY <1>1, <1>4, <1>5, <1>6
  <2>6. \A x \in wire' : Behind(book', x)
    BY <1>1, <1>4, <1>6
  <2> QED
    BY <2>3, <2>4, <2>5, <2>6 DEF Numbers
<1>9. Bookings'
  <2>1. m.booking <= bookings
    BY <1>1 DEF NumbersInv, Bookings
  <2>2. \A f \in Event : book'[f].booking = book[f].booking /\ (book'[f] = NoEntry <=> book[f] = NoEntry)
    BY <1>1, <1>2, <1>3
  <2> QED
    BY <1>1, <2>1, <2>2 DEF NumbersInv, Bookings
<1> QED
  BY <1>8, <1>9

(* Booking: a number of its own for the entry, so nothing taken before is    *)
(* of it.                                                                    *)
LEMMA SubscribeKeepsNumbers ==
    ASSUME NumbersInv, TypeOK', NEW e \in Event, NEW d \in Dialog, NEW n \in CSeq,
           Subscribe(e, d, n)
    PROVE  Bookings' /\ Numbers'
<1>1. /\ book'[e] = Upserted(d, n)
      /\ \A f \in Event \ {e} : book'[f] = book[f]
      /\ bookings' = bookings + 1
      /\ hand' = hand
      /\ wire' = wire
      /\ bookings \in Nat
  BY DEF Subscribe, NumbersInv, TypeOK
<1>2. book'[e].booking = bookings + 1
  BY <1>1 DEF Upserted
<1>3. /\ \A f \in Event : book[f].booking \in Nat
      /\ \A s \in Sender : hand[s].booking \in Nat
      /\ \A m \in wire : m.booking \in Nat
  BY DEF NumbersInv, TypeOK, Entry, NoEntry, Notify, Nothing, Booking
<1>4. Bookings'
  BY <1>1, <1>2, <1>3 DEF NumbersInv, Bookings
<1>5. \A m : m.booking \in Nat /\ m.booking <= bookings /\ Behind(book, m) => Behind(book', m)
  BY <1>1, <1>2 DEF Behind
<1>6. \A s \in Sender : hand[s] # Nothing => Behind(book', hand'[s])
  BY <1>1, <1>3, <1>5 DEF NumbersInv, Bookings, Numbers
<1>7. \A m \in wire : Behind(book', m)
  BY <1>3, <1>5 DEF NumbersInv, Bookings, Numbers
<1>8. Numbers'
  BY <1>1, <1>6, <1>7 DEF NumbersInv, Numbers
<1> QED
  BY <1>4, <1>8

LEMMA NumbersStep == NumbersInv /\ [Next]_vars => NumbersInv'
<1> SUFFICES ASSUME NumbersInv, [Next]_vars
             PROVE  Bookings' /\ Numbers'
  BY TypeStep DEF NumbersInv
<1>0. TypeOK /\ TypeOK'
  BY TypeStep DEF NumbersInv
<1>1. ASSUME NEW e \in Event, NEW d \in Dialog, NEW n \in CSeq, Subscribe(e, d, n)
      PROVE  Bookings' /\ Numbers'
  BY <1>0, <1>1, SubscribeKeepsNumbers
<1>2. ASSUME NEW e \in Event, Lapse(e)
      PROVE  Bookings' /\ Numbers'
  <2>1. \A f \in Event :
           \/ book'[f] = NoEntry
           \/ /\ book[f] # NoEntry
              /\ book'[f].booking = book[f].booking
              /\ book'[f].dialog = book[f].dialog
              /\ book'[f].next_cseq = book[f].next_cseq
    <3>1. book[e] \in Entry /\ book[e] # NoEntry
      BY <1>0, <1>2, EntryTyped DEF Lapse
    <3>2. book'[e] = [book[e] EXCEPT !.lapsed = TRUE]
      BY <1>0, <1>2 DEF Lapse, TypeOK
    <3>3. \A f \in Event \ {e} : book'[f] = book[f]
      BY <1>0, <1>2 DEF Lapse, TypeOK
    <3> QED
      BY <3>1, <3>2, <3>3 DEF Entry
  <2> QED
    BY <1>0, <1>2, <2>1, EntriesKept DEF Lapse
<1>3. ASSUME NEW s \in Sender, NEW e \in Event, DropLapsed(s, e)
      PROVE  Bookings' /\ Numbers'
  <2>1. \A f \in Event : book'[f] = NoEntry \/ (book'[f] = book[f] /\ book[f] # NoEntry)
    BY <1>0, <1>3 DEF DropLapsed, TypeOK
  <2> QED
    BY <1>0, <1>3, <2>1, EntriesKept DEF DropLapsed
<1>4. ASSUME NEW h \in Host, NEW e \in Event, HostNotifies(h, e)
      PROVE  Bookings' /\ Numbers'
  BY <1>0, <1>3, <1>4, TakeKeepsNumbers DEF HostNotifies, Sender
<1>5. ASSUME NEW i \in Task, PositionTick(i)
      PROVE  Bookings' /\ Numbers'
  BY <1>0, <1>3, <1>5, TakeKeepsNumbers, NotifierAssumption DEF PositionTick, Sender
<1>6. ASSUME book' = book, bookings' = bookings, hand' = hand, wire' = wire
      PROVE  Bookings' /\ Numbers'
  BY <1>6 DEF NumbersInv, Bookings, Numbers, Behind
<1>7. ASSUME NEW s \in Sender, Transmit(s)
      PROVE  Bookings' /\ Numbers'
  <2>1. /\ book' = book /\ bookings' = bookings
        /\ hand'[s] = Nothing
        /\ \A t \in Sender \ {s} : hand'[t] = hand[t]
        /\ wire' = wire \cup {hand[s]}
        /\ hand[s] # Nothing
    BY <1>0, <1>7 DEF Transmit, TypeOK
  <2>2. Nothing \notin wire'
    BY <1>0, <2>1, NothingIsNoNotify DEF TypeOK
  <2>3. \A m : Behind(book', m) <=> Behind(book, m)
    BY <2>1 DEF Behind
  <2>4. Numbers'
    BY <2>1, <2>2, <2>3 DEF NumbersInv, Numbers
  <2>5. Nothing.booking <= bookings
    BY <1>0 DEF Nothing, TypeOK
  <2>6. Bookings'
    BY <2>1, <2>5 DEF NumbersInv, Bookings
  <2> QED
    BY <2>4, <2>6
<1>8. ASSUME NEW s \in Sender, TransmitFails(s)
      PROVE  Bookings' /\ Numbers'
  <2>1. /\ book' = book /\ bookings' = bookings
        /\ hand'[s] = Nothing
        /\ \A t \in Sender \ {s} : hand'[t] = hand[t]
        /\ wire' = wire
    BY <1>0, <1>8 DEF TransmitFails, TypeOK
  <2>2. Nothing \notin wire
    BY <1>0, NothingIsNoNotify DEF TypeOK
  <2>3. \A m : Behind(book', m) <=> Behind(book, m)
    BY <2>1 DEF Behind
  <2>4. Numbers'
    BY <2>1, <2>2, <2>3 DEF NumbersInv, Numbers
  <2>5. Nothing.booking <= bookings
    BY <1>0 DEF Nothing, TypeOK
  <2>6. Bookings'
    BY <2>1, <2>5 DEF NumbersInv, Bookings
  <2> QED
    BY <2>4, <2>6
<1> QED
  BY <1>1, <1>2, <1>4, <1>5, <1>6, <1>7, <1>8
  DEF Next, PositionTaskEnds, ServerDropped, vars

LEMMA NumbersImplied == NumbersInv => NumbersNotShared
BY NothingIsNoNotify DEF NumbersInv, Numbers, NumbersNotShared, Sent, Behind

(* However senders race between taking a number and writing it, no two hold  *)
(* or have written the same one of a booking.                                *)
THEOREM NumbersNeverShared == Spec => []NumbersNotShared
<1>1. Init => NumbersInv
  BY TypeInit, NumbersInit DEF NumbersInv
<1> QED
  BY <1>1, NumbersStep, NumbersImplied, PTL DEF Spec

-------------------------------------------------------------------------------
(* OnePositionTask.                                                        *)

LEMMA TasksStep == TasksInv /\ [Next]_vars => TasksInv'
<1> SUFFICES ASSUME TasksInv, [Next]_vars
             PROVE  OnePositionTask'
  BY TypeStep DEF TasksInv
<1>0. TypeOK
  BY DEF TasksInv
<1>1. ASSUME NEW e \in Event, NEW d \in Dialog, NEW n \in CSeq, Subscribe(e, d, n)
      PROVE  OnePositionTask'
  <2>1. bookings + 1 \in Task
    BY <1>0, <1>1, NotifierAssumption DEF Subscribe, TypeOK, Task
  <2>2. CASE e = Position /\ PositionSource
    <3>1. /\ tasks' = [tasks EXCEPT ![bookings + 1] = "running"]
          /\ told' = told \cup ({position_cancel} \ {NoTask})
          /\ position_cancel' = bookings + 1
          /\ phase' = "serving"
      BY <1>1, <2>2 DEF Subscribe, CancelledTask
    <3>2. \A i \in Task \ {bookings + 1} : tasks'[i] = tasks[i]
      BY <1>0, <3>1 DEF TypeOK
    <3>3. NoTask \notin Task
      BY DEF NoTask, Task
    <3> QED
      BY <3>1, <3>2, <3>3 DEF TasksInv, OnePositionTask
  <2>3. CASE ~(e = Position /\ PositionSource)
    BY <1>1, <2>3 DEF Subscribe, TasksInv, OnePositionTask
  <2> QED
    BY <2>2, <2>3
<1>2. CASE ServerDropped
  <2>1. NoTask \notin Task
    BY DEF NoTask, Task
  <2> QED
    BY <1>2, <2>1 DEF ServerDropped, CancelledTask, TasksInv, OnePositionTask
<1>3. ASSUME NEW i \in Task, PositionTaskEnds(i)
      PROVE  OnePositionTask'
  BY <1>0, <1>3 DEF PositionTaskEnds, TypeOK, TasksInv, OnePositionTask
<1>4. ASSUME UNCHANGED <<tasks, told, position_cancel, phase>>
      PROVE  OnePositionTask'
  BY <1>4 DEF TasksInv, OnePositionTask
<1> QED
  BY <1>1, <1>2, <1>3, <1>4
  DEF Next, Lapse, HostNotifies, PositionTick, Take, DropLapsed, Transmit,
      TransmitFails, vars

(* Whatever burst of SUBSCRIBEs comes, the server can still cancel the only  *)
(* position task that was not told to stop.                                  *)
THEOREM OnePositionTaskAlways == Spec => []OnePositionTask
<1>1. Init => TasksInv
  BY TypeInit DEF Init, TasksInv, OnePositionTask
<1>2. TasksInv => OnePositionTask
  BY DEF TasksInv
<1> QED
  BY <1>1, <1>2, TasksStep, PTL DEF Spec
===============================================================================
