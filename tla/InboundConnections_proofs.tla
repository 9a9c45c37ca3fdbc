----------------------- MODULE InboundConnections_proofs -----------------------
(***************************************************************************)
(* Proofs about InboundConnections, for any set of connections and any    *)
(* script: only the tasks' own steps move the notifier's binding, and the *)
(* framing of read_loop_body hands over what was sent, message by message.*)
(* Then proofs about Requests, which handles those messages: every command*)
(* has one verdict, the pages of a list add up to it, and the handler     *)
(* keeps its types.                                                       *)
(***************************************************************************)
EXTENDS InboundConnections, Requests, SequenceTheorems, FiniteSetTheorems,
        WellFoundedInduction, TLAPS

-----------------------------------------------------------------------------
(* The binding of the notifier.                                           *)

(* As much of the types as the binding needs.                             *)
BindingTyped ==
    /\ conn \in [Conn -> {"idle", "handshake", "setup", "serving", "gone"}]
    /\ tcp_tx \in Conn \cup {None}

BindingInv == BindingTyped /\ BindingIsServed

(* The steps that leave the tasks and the binding alone.                  *)
Elsewhere == UNCHANGED <<conn, tcp_tx>>

(* Every step is one of five kinds.                                       *)
LEMMA StepKinds ==
    ASSUME [Next]_vars
    PROVE  \/ Elsewhere
           \/ \E c \in Conn : Accept(c)
           \/ \E c \in Conn : HandshakeEnds(c) \/ SetupFails(c)
           \/ \E c \in Conn : Serve(c)
           \/ \E c \in Conn : conn[c] = "serving" /\ Leaves(c)
<1>1. CASE UNCHANGED vars
  BY <1>1 DEF vars, Elsewhere
<1>2. CASE AcceptLoop
  BY <1>2 DEF AcceptLoop, AcceptFails, PauseElapses, StopAccepting, Elsewhere
<1>3. ASSUME NEW c \in Conn, Handler(c)
      PROVE  \/ Elsewhere
             \/ SetupFails(c)
             \/ Serve(c)
             \/ conn[c] = "serving" /\ Leaves(c)
  BY <1>3 DEF Handler, Progress, ReadLine, ReadEof, ReadBody, HandleMessage,
              EofInBody, StopHandler, Reading, Elsewhere
<1>4. CASE Environment
  BY <1>4 DEF Environment, PlatformSends, PlatformCloses, ReadFails, MediaEnds,
              RequestShutdown, Elsewhere
<1> QED
  BY <1>1, <1>2, <1>3, <1>4 DEF Next

LEMMA BindingStep == BindingInv /\ [Next]_vars => BindingInv'
<1> SUFFICES ASSUME BindingInv, [Next]_vars
             PROVE  BindingInv'
  OBVIOUS
<1>1. CASE Elsewhere
  BY <1>1 DEF Elsewhere, BindingInv, BindingTyped, BindingIsServed
<1>2. ASSUME NEW c \in Conn, Accept(c)
      PROVE  BindingInv'
  BY <1>2 DEF Accept, BindingInv, BindingTyped, BindingIsServed
<1>3. ASSUME NEW c \in Conn, HandshakeEnds(c) \/ SetupFails(c)
      PROVE  BindingInv'
  BY <1>3 DEF HandshakeEnds, SetupFails, BindingInv, BindingTyped, BindingIsServed
<1>4. ASSUME NEW c \in Conn, Serve(c)
      PROVE  BindingInv'
  BY <1>4 DEF Serve, Bound, BindingInv, BindingTyped, BindingIsServed
<1>5. ASSUME NEW c \in Conn, Leaves(c)
      PROVE  BindingInv'
  BY <1>5 DEF Leaves, Unbound, BindingInv, BindingTyped, BindingIsServed
<1> QED
  BY <1>1, <1>2, <1>3, <1>4, <1>5, StepKinds

LEMMA BindingInit == Init => BindingInv
BY DEF Init, BindingInv, BindingTyped, BindingIsServed

(* The notifier is never left with the channel of a handler that returned.*)
THEOREM BindingAlwaysServed == Spec => []BindingIsServed
<1>1. BindingInv => BindingIsServed
  BY DEF BindingInv
<1> QED
  BY <1>1, BindingInit, BindingStep, PTL DEF Spec

LEMMA BindingMoves ==
    ASSUME BindingInv, [Next]_vars, NEW c \in Conn, tcp_tx = c, tcp_tx' # c
    PROVE  \/ conn'[c] = "gone" /\ tcp_tx' = None
           \/ tcp_tx' # None /\ conn[tcp_tx'] = "setup"
<1>1. ~Elsewhere
  BY DEF Elsewhere
<1>2. ASSUME NEW d \in Conn, Accept(d) \/ HandshakeEnds(d) \/ SetupFails(d)
      PROVE  FALSE
  BY <1>2 DEF Accept, HandshakeEnds, SetupFails
<1>3. ASSUME NEW d \in Conn, Serve(d)
      PROVE  tcp_tx' # None /\ conn[tcp_tx'] = "setup"
  BY <1>3, InboundAssumption DEF Serve, Bound
<1>4. ASSUME NEW d \in Conn, Leaves(d)
      PROVE  conn'[c] = "gone" /\ tcp_tx' = None
  BY <1>4 DEF Leaves, Unbound, BindingInv, BindingTyped
<1> QED
  BY <1>1, <1>2, <1>3, <1>4, StepKinds

(* A connection keeps the binding until its own handler returns or a newer*)
(* connection starts to be served, whatever the others do.                *)
THEOREM NewestAlwaysKeepsBinding == Spec => NewestKeepsBinding
<1>1. BindingInv /\ [Next]_vars =>
        [\A c \in Conn : tcp_tx = c /\ tcp_tx' # c =>
            \/ conn'[c] = "gone" /\ tcp_tx' = None
            \/ tcp_tx' # None /\ conn[tcp_tx'] = "setup"]_vars
  BY BindingMoves
<1> QED
  BY <1>1, BindingInit, BindingStep, PTL DEF Spec, NewestKeepsBinding

-----------------------------------------------------------------------------
(* Induction and recursion over the naturals, and FlattenSeq.             *)

(* A set of naturals that has 0 and, with a number, the next has all of them:*)
(* what it misses would have a least element.                             *)
LEMMA Induction ==
    ASSUME NEW T, 0 \in T, \A n \in Nat : n \in T => n + 1 \in T
    PROVE  \A n \in Nat : n \in T
<1>. DEFINE Out == {n \in Nat : n \notin T}
            Before == {p \in Nat \X Nat : p[1] < p[2]}
<1>1. IsWellFoundedOn(Before, Nat)
  BY NatLessThanWellFounded DEF OpToRel
<1> SUFFICES ASSUME Out # {}
             PROVE  FALSE
  OBVIOUS
<1>2. PICK x \in Out : \A y \in Out : <<y, x>> \notin Before
  <2> HIDE DEF Before
  <2>1. Out \subseteq Nat
     OBVIOUS
  <2> HIDE DEF Out
  <2> QED BY WFMin, <1>1, <2>1
<1>3. x \in Nat /\ x # 0 /\ x - 1 \in Nat /\ x - 1 < x
  BY <1>2
<1>4. x - 1 \in Out
  BY <1>2, <1>3
<1> QED
  BY <1>2, <1>3, <1>4

(* f starts at a, and step[i] takes it from i - 1 to i, up to N.          *)
Iterates(f, a, N, step) ==
    f[0] = a /\ \A i \in 1 .. N : f[i] = step[i][f[i - 1]]

(* N steps can always be taken one after the other.                       *)
LEMMA Recursion ==
    ASSUME NEW S, NEW a \in S, NEW N \in Nat, NEW step \in [1 .. N -> [S -> S]]
    PROVE  \E f \in [0 .. N -> S] : Iterates(f, a, N, step)
<1>. DEFINE Table(n, f) == f[0] = a /\ \A i \in 1 .. n : f[i] = step[i][f[i - 1]]
            T == {n \in Nat : n <= N => \E f \in [0 .. n -> S] : Table(n, f)}
<1>1. 0 \in T
  <2>1. [i \in 0 .. 0 |-> a] \in [0 .. 0 -> S] /\ Table(0, [i \in 0 .. 0 |-> a])
    OBVIOUS
  <2> QED
    BY <2>1
<1>2. ASSUME NEW n \in Nat, n \in T
      PROVE  n + 1 \in T
  <2> SUFFICES ASSUME n + 1 <= N
               PROVE  \E f \in [0 .. n + 1 -> S] : Table(n + 1, f)
    OBVIOUS
  <2>1. PICK f \in [0 .. n -> S] : Table(n, f)
    BY <1>2
  <2>. DEFINE g == [i \in 0 .. n + 1 |-> IF i = n + 1 THEN step[n + 1][f[n]] ELSE f[i]]
  <2>2. step[n + 1] \in [S -> S] /\ f[n] \in S
    OBVIOUS
  <2>3. g \in [0 .. n + 1 -> S]
    BY <2>2
  <2>4. g[0] = a
    BY <2>1
  <2>5. ASSUME NEW i \in 1 .. n + 1
        PROVE  g[i] = step[i][g[i - 1]]
    <3>1. CASE i = n + 1
      BY <3>1
    <3>2. CASE i # n + 1
      <4>1. i \in 1 .. n /\ i - 1 \in 0 .. n
        BY <3>2
      <4>2. g[i] = f[i] /\ g[i - 1] = f[i - 1]
        BY <4>1, <3>2
      <4> QED
        BY <4>1, <4>2, <2>1
    <3> QED
      BY <3>1, <3>2
  <2> QED
    BY <2>3, <2>4, <2>5
<1>3. \A n \in Nat : n \in T
  <2>. HIDE DEF T
  <2> QED
    BY <1>1, <1>2, Induction
<1> QED
  BY <1>3 DEF Iterates

(* FlattenSeq, on a sequence that has elements: the library writes it as the*)
(* last value of a function defined by recursion on the position.         *)
LEMMA FlattenUnfolds ==
    ASSUME NEW q, Len(q) # 0, NEW h,
           h = [i \in 1 .. Len(q) |-> IF i = 1 THEN q[i] ELSE h[i - 1] \o q[i]],
           \A g : g = [i \in 1 .. Len(q) |-> IF i = 1 THEN q[i] ELSE g[i - 1] \o q[i]]
                      => g[Len(q)] = h[Len(q)]
    PROVE FlattenSeq(q) = h[Len(q)]
BY Zenon DEF FlattenSeq

(* f[n] is what FlattenSeq makes of the first n sequences of s.           *)
Flattens(s, f) ==
    /\ f[0] = <<>>
    /\ \A i \in 1 .. Len(s) : f[i] = f[i - 1] \o s[i]
    /\ \A n \in 0 .. Len(s) : FlattenSeq([k \in 1 .. n |-> s[k]]) = f[n]

(* There is such a table for every sequence of sequences.                 *)
LEMMA FlattenTable ==
    ASSUME NEW S, NEW s \in Seq(Seq(S))
    PROVE  \E f \in [0 .. Len(s) -> Seq(S)] : Flattens(s, f)
<1>. DEFINE step == [i \in 1 .. Len(s) |-> [x \in Seq(S) |-> x \o s[i]]]
<1>1. \A i \in 1 .. Len(s) : s[i] \in Seq(S)
  OBVIOUS
<1>2. step \in [1 .. Len(s) -> [Seq(S) -> Seq(S)]] /\ Len(s) \in Nat /\ <<>> \in Seq(S)
  BY <1>1
<1>3. PICK f \in [0 .. Len(s) -> Seq(S)] :
          f[0] = <<>> /\ \A i \in 1 .. Len(s) : f[i] = step[i][f[i - 1]]
  <2>. DEFINE A == Seq(S)
              a == <<>>
              N == Len(s)
  <2>1. step \in [1 .. N -> [A -> A]] /\ N \in Nat /\ a \in A
    BY <1>2
  <2>. HIDE DEF step, A, a, N
  <2>2. \E f \in [0 .. N -> A] : Iterates(f, a, N, step)
    BY <2>1, Recursion
  <2> QED
    BY <2>2 DEF A, a, N, Iterates
<1>4. \A i \in 1 .. Len(s) : f[i] = f[i - 1] \o s[i]
  <2> SUFFICES ASSUME NEW i \in 1 .. Len(s)
               PROVE  f[i] = f[i - 1] \o s[i]
    OBVIOUS
  <2>1. f[i - 1] \in Seq(S)
    OBVIOUS
  <2> QED
    BY <1>3, <2>1
<1>5. ASSUME NEW n \in 0 .. Len(s)
      PROVE  FlattenSeq([k \in 1 .. n |-> s[k]]) = f[n]
  <2>. DEFINE q == [k \in 1 .. n |-> s[k]]
  <2>1. Len(q) = n /\ \A k \in 1 .. n : q[k] = s[k]
    OBVIOUS
  <2>2. CASE n = 0
    <3>1. q = <<>>
      BY <2>2
    <3> QED
      BY <1>3, <2>1, <2>2, <3>1 DEF FlattenSeq
  <2>3. CASE n # 0
    <3>. DEFINE Flat(g) == [i \in 1 .. Len(q) |-> IF i = 1 THEN q[i] ELSE g[i - 1] \o q[i]]
                h == [i \in 1 .. n |-> f[i]]
    <3>0. \A i \in 1 .. n : h[i] = f[i]
      OBVIOUS
    <3>1. \A i \in 1 .. n : h[i] = IF i = 1 THEN q[i] ELSE h[i - 1] \o q[i]
      <4> SUFFICES ASSUME NEW i \in 1 .. n
                   PROVE  h[i] = IF i = 1 THEN q[i] ELSE h[i - 1] \o q[i]
        OBVIOUS
      <4>1. f[i] = f[i - 1] \o s[i] /\ q[i] = s[i] /\ s[i] \in Seq(S) /\ h[i] = f[i]
        <5>0. i \in 1 .. Len(s)
          OBVIOUS
        <5>1. f[i] = f[i - 1] \o s[i] /\ s[i] \in Seq(S)
          BY <1>1, <1>4, <5>0, Zenon
        <5>2. q[i] = s[i] /\ h[i] = f[i]
          BY <2>1, <3>0
        <5> QED
          BY <5>1, <5>2
      <4>2. CASE i = 1
        <5>1. <<>> \o s[i] = s[i]
          BY <4>1
        <5>2. f[i - 1] = <<>>
          BY <1>3, <4>2
        <5>3. f[i] = s[i]
          BY <4>1, <5>1, <5>2
        <5>. HIDE DEF h, q
        <5> QED
          BY <4>1, <4>2, <5>3
      <4>3. CASE i # 1
        <5>1. h[i - 1] = f[i - 1]
          BY <3>0, <4>3
        <5>. HIDE DEF h, q
        <5> QED
          BY <4>1, <4>3, <5>1
      <4> QED
        BY <4>2, <4>3
    <3>2. h = Flat(h)
      BY <2>1, <3>1
    <3>3. ASSUME NEW g, g = Flat(g)
          PROVE  g[Len(q)] = h[Len(q)]
      <4>. DEFINE Same == {i \in Nat : i + 1 <= n => g[i + 1] = h[i + 1]}
      <4>. HIDE DEF q, h
      <4>1. \A i \in 1 .. n : g[i] = IF i = 1 THEN q[i] ELSE g[i - 1] \o q[i]
        BY <3>3, <2>1
      <4>2. 0 \in Same
        <5>1. 1 \in 1 .. n
          BY <2>3
        <5>2. g[1] = q[1] /\ h[1] = q[1]
          BY <3>1, <4>1, <5>1
        <5> QED
          BY <5>2
      <4>3. ASSUME NEW i \in Nat, i \in Same
            PROVE  i + 1 \in Same
        <5> SUFFICES ASSUME i + 1 + 1 <= n
                     PROVE  g[i + 1 + 1] = h[i + 1 + 1]
          OBVIOUS
        <5>1. g[i + 1] = h[i + 1]
          BY <4>3
        <5>2. i + 1 + 1 \in 1 .. n /\ i + 1 + 1 # 1 /\ i + 1 + 1 - 1 = i + 1
          OBVIOUS
        <5> QED
          BY <3>1, <4>1, <5>1, <5>2
      <4>4. \A i \in Nat : i \in Same
        <5>. HIDE DEF Same
        <5> QED
          BY <4>2, <4>3, Induction
      <4>5. n - 1 \in Nat /\ n - 1 + 1 = n
        BY <2>3
      <4>6. g[n - 1 + 1] = h[n - 1 + 1]
        <5>1. n - 1 \in Same
          BY <4>4, <4>5
        <5> QED
          BY <4>5, <5>1
      <4> QED
        BY <2>1, <4>5, <4>6
    <3>4. Len(q) # 0
      BY <2>1, <2>3
    <3>5. FlattenSeq(q) = h[Len(q)]
      <4>. HIDE DEF h, q
      <4> QED
        BY <3>2, <3>3, <3>4, FlattenUnfolds
    <3>6. h[Len(q)] = f[n]
      <4>1. n \in 1 .. n
        BY <2>3
      <4> QED
        BY <2>1, <3>0, <4>1
    <3> QED
      BY <3>5, <3>6
  <2> QED
    BY <2>2, <2>3
<1> QED
  BY <1>3, <1>4, <1>5 DEF Flattens

(* The elements of a sequence over S are in S.                            *)
LEMMA ElementOf ==
    ASSUME NEW S, NEW s \in Seq(S), NEW i \in 1 .. Len(s)
    PROVE  s[i] \in S
OBVIOUS

(* Where the elements of two sequences lie in their concatenation.        *)
LEMMA ConcatShape ==
    ASSUME NEW S, NEW p \in Seq(S), NEW q \in Seq(S)
    PROVE  /\ p \o q \in Seq(S)
           /\ Len(p \o q) = Len(p) + Len(q)
           /\ \A j \in 1 .. Len(p) : (p \o q)[j] = p[j]
           /\ \A j \in 1 .. Len(q) : (p \o q)[Len(p) + j] = q[j]
OBVIOUS

-----------------------------------------------------------------------------
(* The wire: where each message lies and what its units are.              *)

Unit == [message : 1 .. Len(Script), part : {"start", "length", "blank", "body"}]

(* The lines of message i up to its blank one.                            *)
Lines(i) == (IF Script[i].kind = "CRLF" THEN 1 ELSE 2) + (IF Script[i].body > 0 THEN 1 ELSE 0)

(* The units of a message: its lines up to the blank one, then its body.  *)
LEMMA UnitsShape ==
    ASSUME NEW i \in 1 .. Len(Script)
    PROVE  /\ Units(i) \in Seq(Unit)
           /\ Lines(i) \in Nat /\ Lines(i) >= 1 /\ Script[i].body \in Nat
           /\ Len(Units(i)) = Lines(i) + Script[i].body
           /\ \A j \in 1 .. Len(Units(i)) : Units(i)[j].message = i
           /\ \A j \in 1 .. Lines(i) - 1 : Units(i)[j].part # "blank"
           /\ Units(i)[Lines(i)].part = "blank"
           /\ Script[i].body > 0 => \E j \in 1 .. Lines(i) - 1 : Units(i)[j].part = "length"
           /\ IF Script[i].kind = "CRLF"
              THEN Lines(i) = 1 /\ \A j \in 1 .. Len(Units(i)) : Units(i)[j].part # "start"
              ELSE Units(i)[1].part = "start"
<1>. DEFINE unit(part) == [message |-> i, part |-> part]
            n == Script[i].body
            start == IF Script[i].kind = "CRLF" THEN <<>> ELSE <<unit("start")>>
            length == IF n > 0 THEN <<unit("length")>> ELSE <<>>
            blank == <<unit("blank")>>
            body == [b \in 1 .. n |-> unit("body")]
            first == start \o length
            lines == first \o blank
<1>1. /\ n \in Nat
      /\ Script[i].kind = "CRLF" => n = 0
  <2>1. Script[i] \in [kind : {"INVITE", "BYE", "QUERY", "CRLF"}, body : Nat]
    <3>1. Script \in Seq([kind : {"INVITE", "BYE", "QUERY", "CRLF"}, body : Nat])
      BY InboundAssumption
    <3> QED
      BY <3>1, ElementOf
  <2>2. Script[i].body \in Nat
    BY <2>1
  <2>3. Script[i].kind = "CRLF" => Script[i].body = 0
    BY InboundAssumption
  <2> QED
    BY <2>2, <2>3
<1>2. /\ unit("start") \in Unit /\ unit("length") \in Unit /\ unit("blank") \in Unit
      /\ unit("body") \in Unit
      /\ unit("start").part = "start" /\ unit("length").part = "length"
      /\ unit("blank").part = "blank" /\ unit("body").part = "body"
      /\ \A part : unit(part).message = i
  BY DEF Unit
<1>3. Units(i) = start \o length \o blank \o body
  BY DEF Units
<1>. HIDE DEF unit
<1>4. /\ start \in Seq(Unit) /\ length \in Seq(Unit) /\ blank \in Seq(Unit)
      /\ body \in Seq(Unit)
  BY <1>1, <1>2
<1>5. /\ Len(start) = IF Script[i].kind = "CRLF" THEN 0 ELSE 1
      /\ \A j \in 1 .. Len(start) : j = 1 /\ start[j] = unit("start")
      /\ Len(length) = IF n > 0 THEN 1 ELSE 0
      /\ \A j \in 1 .. Len(length) : j = 1 /\ length[j] = unit("length")
      /\ Len(blank) = 1 /\ blank[1] = unit("blank")
      /\ Len(body) = n /\ \A j \in 1 .. n : body[j] = unit("body")
  BY <1>1, <1>2
<1>6. Lines(i) = Len(start) + Len(length) + 1
  BY <1>5 DEF Lines
<1>. HIDE DEF n, start, length, blank, body
<1>7. Units(i) = lines \o body
  BY <1>3
<1>8. /\ first \in Seq(Unit)
      /\ Len(first) = Len(start) + Len(length)
      /\ \A j \in 1 .. Len(start) : first[j] = start[j]
      /\ \A j \in 1 .. Len(length) : first[Len(start) + j] = length[j]
  BY <1>4, ConcatShape
<1>. HIDE DEF first
<1>9. /\ lines \in Seq(Unit)
      /\ Len(lines) = Lines(i)
      /\ \A j \in 1 .. Lines(i) - 1 : lines[j] = first[j]
      /\ lines[Lines(i)] = unit("blank")
  <2>1. /\ lines \in Seq(Unit)
        /\ Len(lines) = Len(first) + Len(blank)
        /\ \A j \in 1 .. Len(first) : lines[j] = first[j]
        /\ \A j \in 1 .. Len(blank) : lines[Len(first) + j] = blank[j]
    <3>1. first \in Seq(Unit) /\ blank \in Seq(Unit)
      BY <1>4, <1>8
    <3> QED
      BY <3>1, ConcatShape
  <2>2. Len(first) + 1 = Lines(i) /\ Lines(i) - 1 = Len(first)
    BY <1>4, <1>5, <1>6, <1>8
  <2> QED
    BY <1>5, <2>1, <2>2
<1>. HIDE DEF lines
<1>10. /\ Units(i) \in Seq(Unit)
       /\ Len(Units(i)) = Lines(i) + n
       /\ \A j \in 1 .. Lines(i) : Units(i)[j] = lines[j]
       /\ \A j \in 1 .. n : Units(i)[Lines(i) + j] = unit("body")
  <2>1. /\ lines \o body \in Seq(Unit)
        /\ Len(lines \o body) = Len(lines) + Len(body)
        /\ \A j \in 1 .. Len(lines) : (lines \o body)[j] = lines[j]
        /\ \A j \in 1 .. Len(body) : (lines \o body)[Len(lines) + j] = body[j]
    <3>1. lines \in Seq(Unit) /\ body \in Seq(Unit)
      BY <1>4, <1>9
    <3> QED
      BY <3>1, ConcatShape
  <2> QED
    BY <1>5, <1>9, <1>7, <2>1
<1>11. /\ \A j \in 1 .. Len(start) : Units(i)[j] = unit("start")
       /\ \A j \in 1 .. Len(length) : Units(i)[Len(start) + j] = unit("length")
       /\ Units(i)[Lines(i)] = unit("blank")
  BY <1>1, <1>5, <1>6, <1>8, <1>9, <1>10
<1>12. ASSUME NEW j \in 1 .. Len(Units(i))
       PROVE  \/ j \in 1 .. Len(start) /\ Units(i)[j] = unit("start")
              \/ j \in Len(start) + 1 .. Lines(i) - 1 /\ Units(i)[j] = unit("length")
              \/ j = Lines(i) /\ Units(i)[j] = unit("blank")
              \/ j > Lines(i) /\ Units(i)[j] = unit("body")
  <2>1. CASE j \in 1 .. Len(start)
    BY <1>11, <2>1
  <2>2. CASE j \in Len(start) + 1 .. Lines(i) - 1
    <3>1. j - Len(start) \in 1 .. Len(length) /\ Len(start) + (j - Len(start)) = j
      BY <1>5, <1>6, <2>2
    <3>2. Units(i)[Len(start) + (j - Len(start))] = unit("length")
      BY <1>11, <3>1, Zenon
    <3> QED
      BY <2>2, <3>1, <3>2
  <2>3. CASE j = Lines(i)
    BY <1>11, <2>3
  <2>4. CASE j > Lines(i)
    <3>1. j - Lines(i) \in 1 .. n /\ Lines(i) + (j - Lines(i)) = j
      <4>1. Lines(i) \in Nat
        BY <1>4, <1>6
      <4>2. Len(Units(i)) = Lines(i) + n
        BY <1>10
      <4> QED
        BY <1>1, <2>4, <4>1, <4>2
    <3>2. Units(i)[Lines(i) + (j - Lines(i))] = unit("body")
      BY <1>10, <3>1, Zenon
    <3> QED
      BY <2>4, <3>1, <3>2
  <2> QED
    BY <1>1, <1>5, <1>6, <1>10, <2>1, <2>2, <2>3, <2>4
<1>13. \A j \in 1 .. Len(Units(i)) : Units(i)[j].message = i
  BY <1>2, <1>12
<1>14. Lines(i) \in Nat /\ Lines(i) >= 1 /\ \A j \in 1 .. Lines(i) - 1 : j \in 1 .. Len(Units(i))
  BY <1>1, <1>5, <1>6, <1>10
<1>15. \A j \in 1 .. Lines(i) - 1 : Units(i)[j].part # "blank"
  BY <1>2, <1>12, <1>14
<1>16. n > 0 => \E j \in 1 .. Lines(i) - 1 : Units(i)[j].part = "length"
  <2> SUFFICES ASSUME n > 0
               PROVE  Units(i)[Len(start) + 1].part = "length" /\ Len(start) + 1 \in 1 .. Lines(i) - 1
    OBVIOUS
  <2> QED
    BY <1>2, <1>5, <1>6, <1>11
<1>17. CASE Script[i].kind = "CRLF"
  <2>1. n = 0 /\ Len(start) = 0 /\ Len(length) = 0 /\ Lines(i) = 1
    BY <1>1, <1>5, <1>6, <1>17
  <2>2. \A j \in 1 .. Len(Units(i)) : Units(i)[j].part # "start"
    BY <1>2, <1>12, <2>1
  <2> QED
    BY <1>1, <1>2, <1>10, <1>11, <1>13, <1>14, <1>15, <1>16, <1>17, <2>1, <2>2 DEF n
<1>18. CASE Script[i].kind # "CRLF"
  <2>1. Units(i)[1].part = "start"
    BY <1>2, <1>5, <1>11, <1>18
  <2> QED
    BY <1>1, <1>2, <1>10, <1>11, <1>13, <1>14, <1>15, <1>16, <1>18, <2>1 DEF n
<1> QED
  BY <1>17, <1>18

(* The first n messages, one after the other.                             *)
Sent(n) == FlattenSeq([k \in 1 .. n |-> Units(k)])

(* A message more adds its units at the end.                              *)
LEMMA SentGrows ==
    /\ Sent(0) = <<>>
    /\ \A n \in 0 .. Len(Script) : Sent(n) \in Seq(Unit)
    /\ \A n \in 1 .. Len(Script) : Sent(n) = Sent(n - 1) \o Units(n)
<1>. DEFINE s == [i \in 1 .. Len(Script) |-> Units(i)]
<1>1. Len(Script) \in Nat
  BY InboundAssumption
<1>2. s \in Seq(Seq(Unit)) /\ Len(s) = Len(Script) /\ \A i \in 1 .. Len(Script) : s[i] = Units(i)
  BY <1>1, UnitsShape
<1>3. \A n \in 0 .. Len(Script) : [k \in 1 .. n |-> s[k]] = [k \in 1 .. n |-> Units(k)]
  BY <1>1, <1>2
<1>. HIDE DEF s
<1>4. PICK f \in [0 .. Len(s) -> Seq(Unit)] : Flattens(s, f)
  BY <1>2, FlattenTable
<1>5. \A n \in 0 .. Len(Script) : Sent(n) = f[n]
  BY <1>2, <1>3, <1>4 DEF Sent, Flattens
<1>6. Sent(0) = <<>>
  BY <1>1, <1>4, <1>5 DEF Flattens
<1>7. \A n \in 0 .. Len(Script) : Sent(n) \in Seq(Unit)
  BY <1>2, <1>4, <1>5
<1>8. ASSUME NEW n \in 1 .. Len(Script)
      PROVE  Sent(n) = Sent(n - 1) \o Units(n)
  <2>1. n \in 0 .. Len(Script) /\ n - 1 \in 0 .. Len(Script)
    BY <1>1
  <2>2. f[n] = f[n - 1] \o Units(n)
    BY <1>2, <1>4 DEF Flattens
  <2> QED
    BY <1>5, <2>1, <2>2
<1> QED
  BY <1>6, <1>7, <1>8

(* The units sent first stay where they are.                              *)
LEMMA SentPrefix ==
    ASSUME NEW n \in 0 .. Len(Script), NEW m \in 0 .. Len(Script), n <= m
    PROVE  /\ Len(Sent(n)) <= Len(Sent(m))
           /\ \A k \in 1 .. Len(Sent(n)) : Sent(m)[k] = Sent(n)[k]
<1>. DEFINE Begins(x) == /\ Len(Sent(n)) <= Len(Sent(x))
                         /\ \A k \in 1 .. Len(Sent(n)) : Sent(x)[k] = Sent(n)[k]
            T == {d \in Nat : n + d <= Len(Script) => Begins(n + d)}
<1>1. Len(Script) \in Nat /\ Sent(n) \in Seq(Unit)
  BY InboundAssumption, SentGrows
<1>2. 0 \in T
  BY <1>1
<1>3. ASSUME NEW d \in Nat, d \in T
      PROVE  d + 1 \in T
  <2> SUFFICES ASSUME n + (d + 1) <= Len(Script)
               PROVE  Begins(n + (d + 1))
    OBVIOUS
  <2>. DEFINE x == n + (d + 1)
  <2>1. x \in 1 .. Len(Script) /\ x - 1 = n + d /\ x - 1 \in 0 .. Len(Script)
    BY <1>1
  <2>2. Begins(x - 1)
    BY <1>1, <1>3, <2>1
  <2>. HIDE DEF x
  <2>3. Sent(x) = Sent(x - 1) \o Units(x) /\ Sent(x - 1) \in Seq(Unit) /\ Units(x) \in Seq(Unit)
    BY <2>1, SentGrows, UnitsShape
  <2>4. /\ Len(Sent(x - 1)) <= Len(Sent(x))
        /\ \A k \in 1 .. Len(Sent(x - 1)) : Sent(x)[k] = Sent(x - 1)[k]
    BY <2>3, ConcatShape
  <2>5. Len(Sent(x - 1)) \in Nat /\ Len(Sent(x)) \in Nat
    BY <2>1, SentGrows
  <2> QED
    BY <1>1, <2>2, <2>4, <2>5 DEF x
<1>4. \A d \in Nat : d \in T
  <2>. HIDE DEF T
  <2> QED
    BY <1>2, <1>3, Induction
<1>5. m - n \in Nat /\ n + (m - n) = m /\ m <= Len(Script)
  BY <1>1
<1>6. m - n \in T
  BY <1>4, <1>5
<1> QED
  BY <1>5, <1>6

(* Where message n + 1 lies.                                              *)
LEMMA WireShape ==
    /\ Len(Script) \in Nat /\ Wire \in Seq(Unit)
    /\ EndOf(0) = 0 /\ EndOf(Len(Script)) = Len(Wire)
    /\ \A n \in 0 .. Len(Script) : EndOf(n) \in 0 .. Len(Wire)
    /\ \A n \in 0 .. Len(Script) : n < Len(Script) =>
          /\ EndOf(n + 1) = EndOf(n) + Len(Units(n + 1))
          /\ \A j \in 1 .. Len(Units(n + 1)) : Wire[EndOf(n) + j] = Units(n + 1)[j]
<1>1. Len(Script) \in Nat /\ Len(Script) \in 0 .. Len(Script) /\ 0 \in 0 .. Len(Script)
  BY InboundAssumption
<1>2. Wire = Sent(Len(Script)) /\ \A n : EndOf(n) = Len(Sent(n))
  BY DEF Wire, Sent, EndOf
<1>3. Wire \in Seq(Unit) /\ EndOf(0) = 0 /\ EndOf(Len(Script)) = Len(Wire)
  BY <1>1, <1>2, SentGrows
<1>4. \A n \in 0 .. Len(Script) : EndOf(n) \in 0 .. Len(Wire)
  <2> SUFFICES ASSUME NEW n \in 0 .. Len(Script)
               PROVE  EndOf(n) \in 0 .. Len(Wire)
    OBVIOUS
  <2>1. Len(Sent(n)) \in Nat /\ Len(Wire) \in Nat
    BY <1>3, SentGrows
  <2>2. Len(Sent(n)) <= Len(Sent(Len(Script)))
    <3>1. n <= Len(Script)
      BY <1>1
    <3> QED
      BY <1>1, <3>1, SentPrefix
  <2> QED
    BY <1>2, <2>1, <2>2
<1>5. ASSUME NEW n \in 0 .. Len(Script), n < Len(Script)
      PROVE  /\ EndOf(n + 1) = EndOf(n) + Len(Units(n + 1))
             /\ \A j \in 1 .. Len(Units(n + 1)) : Wire[EndOf(n) + j] = Units(n + 1)[j]
  <2>1. n + 1 \in 1 .. Len(Script) /\ n + 1 \in 0 .. Len(Script) /\ n + 1 - 1 = n
        /\ n + 1 <= Len(Script)
    BY <1>1, <1>5
  <2>2. Sent(n + 1) = Sent(n) \o Units(n + 1) /\ Sent(n) \in Seq(Unit) /\ Units(n + 1) \in Seq(Unit)
    <3>1. Sent(n + 1) = Sent(n) \o Units(n + 1)
      BY <2>1, SentGrows
    <3>2. Sent(n) \in Seq(Unit)
      BY SentGrows
    <3> QED
      BY <2>1, <3>1, <3>2, UnitsShape
  <2>3. /\ Len(Sent(n + 1)) = Len(Sent(n)) + Len(Units(n + 1))
        /\ \A j \in 1 .. Len(Units(n + 1)) : Sent(n + 1)[Len(Sent(n)) + j] = Units(n + 1)[j]
    BY <2>2, ConcatShape
  <2>4. \A k \in 1 .. Len(Sent(n + 1)) : Wire[k] = Sent(n + 1)[k]
    BY <1>1, <1>2, <2>1, SentPrefix
  <2>5. \A j \in 1 .. Len(Units(n + 1)) : Len(Sent(n)) + j \in 1 .. Len(Sent(n + 1))
    BY <2>2, <2>3
  <2> QED
    BY <1>2, <2>3, <2>4, <2>5
<1> QED
  BY <1>1, <1>3, <1>4, <1>5

-----------------------------------------------------------------------------
(* The messages a connection may have handled.                            *)

LEMMA MessagesGrow ==
    /\ Messages[0] = <<>>
    /\ \A n \in 1 .. Len(Script) :
          Messages[n] = IF Script[n].kind = "CRLF" THEN Messages[n - 1]
                        ELSE Append(Messages[n - 1], <<EndOf(n - 1), EndOf(n)>>)
<1>. DEFINE after(n, x) == IF Script[n].kind = "CRLF" THEN x
                           ELSE Append(x, <<EndOf(n - 1), EndOf(n)>>)
            S == Seq(Span)
            N == Len(Script)
            step == [n \in 1 .. N |-> [x \in S |-> after(n, x)]]
            Recurs(f) == f = [n \in 0 .. N |-> IF n = 0 THEN <<>> ELSE after(n, f[n - 1])]
<1>1. N \in Nat
  BY WireShape
<1>2. <<>> \in S
  OBVIOUS
<1>3. step \in [1 .. N -> [S -> S]]
  <2>1. ASSUME NEW n \in 1 .. N, NEW x \in S
        PROVE  after(n, x) \in S
    <3>1. n \in 0 .. N /\ n - 1 \in 0 .. N
      BY <1>1
    <3>2. <<EndOf(n - 1), EndOf(n)>> \in Span
      BY <3>1, WireShape DEF Span
    <3> QED
      BY <3>2
  <2>. HIDE DEF after, S, N
  <2> QED
    BY <2>1
<1>4. PICK f \in [0 .. N -> S] : f[0] = <<>> /\ \A n \in 1 .. N : f[n] = step[n][f[n - 1]]
  <2>. DEFINE a == <<>>
  <2>1. a \in S
    OBVIOUS
  <2>. HIDE DEF step, S, N, a
  <2>2. \E f \in [0 .. N -> S] : Iterates(f, a, N, step)
    BY <1>1, <1>3, <2>1, Recursion
  <2> QED
    BY <2>2 DEF a, Iterates
<1>5. \A n \in 1 .. N : f[n] = after(n, f[n - 1])
  <2>1. \A n \in 1 .. N : n - 1 \in 0 .. N
    BY <1>1
  <2>. HIDE DEF after, S, N
  <2> QED
    BY <1>4, <2>1 DEF step
<1>6. Recurs(f)
  <2>1. \A n \in 0 .. N : f[n] = IF n = 0 THEN <<>> ELSE after(n, f[n - 1])
    <3>1. \A n \in 0 .. N : n = 0 \/ n \in 1 .. N
      BY <1>1
    <3> QED
      BY <1>4, <1>5, <3>1
  <2>. HIDE DEF after, S, N
  <2> QED
    BY <2>1
<1>7. Messages = CHOOSE g : Recurs(g)
  BY DEF Messages
<1>8. Recurs(Messages)
  <2>. HIDE DEF Recurs
  <2> QED
    BY <1>6, <1>7
<1>9. \A n \in 0 .. N : Messages[n] = IF n = 0 THEN <<>> ELSE after(n, Messages[n - 1])
  <2>. HIDE DEF after, N
  <2> QED
    BY <1>8
<1>10. Messages[0] = <<>>
  <2>1. 0 \in 0 .. N
    BY <1>1
  <2> QED
    BY <1>9, <2>1
<1>11. ASSUME NEW n \in 1 .. Len(Script)
       PROVE  Messages[n] = after(n, Messages[n - 1])
  <2>1. n \in 0 .. N /\ n # 0
    BY <1>1
  <2>. HIDE DEF after, N
  <2> QED
    BY <1>9, <2>1
<1> QED
  BY <1>10, <1>11

-----------------------------------------------------------------------------
(* The inductive invariant.                                               *)

(* After n messages connection c reads the next one: its lines, its body, or*)
(* what there is of it when the platform closed in the middle.            *)
Framed(c, n) ==
    /\ frame[c] = EndOf(n) /\ handled[c] = Messages[n]
    /\ frame[c] <= taken[c] /\ taken[c] <= arrived[c]
    /\ n = Len(Script) => taken[c] = EndOf(n)
    /\ \/ /\ reader[c] = "headers"
          /\ n < Len(Script) => taken[c] < EndOf(n) + Lines(n + 1)
          /\ need[c] = 0
       \/ /\ reader[c] = "body" /\ n < Len(Script)
          /\ EndOf(n) + Lines(n + 1) <= taken[c]
          /\ taken[c] + need[c] = EndOf(n + 1)
       \/ /\ reader[c] = "body" /\ closed[c] /\ taken[c] = arrived[c]
          /\ n < Len(Script) => taken[c] < EndOf(n) + Lines(n + 1)

(* What was cut off after n messages has been handled, and nothing follows.*)
CutOff(c, n) ==
    /\ closed[c]
    /\ frame[c] = arrived[c] /\ taken[c] = arrived[c]
    /\ handled[c] = Append(Messages[n], <<EndOf(n), arrived[c]>>)
    /\ need[c] = 0

Framing(c) == \E n \in 0 .. Len(Script) : Framed(c, n) \/ CutOff(c, n)

(* Only a connection that is served has read anything.                    *)
Fresh(c) ==
    conn[c] # "serving" =>
        /\ taken[c] = 0 /\ frame[c] = 0 /\ handled[c] = <<>>
        /\ reader[c] = "headers" /\ need[c] = 0

FramingInv == TypeOK /\ \A c \in Conn : Fresh(c) /\ Framing(c)

(* The places read and received are numbers.                              *)
LEMMA Counters ==
    ASSUME NEW c \in Conn, TypeOK
    PROVE  /\ Len(Wire) \in Nat /\ Len(Script) \in Nat
           /\ taken[c] \in 0 .. Len(Wire) /\ taken[c] \in Nat
           /\ arrived[c] \in 0 .. Len(Wire) /\ arrived[c] \in Nat
           /\ frame[c] \in 0 .. Len(Wire) /\ frame[c] \in Nat
           /\ need[c] \in Nat
<1>1. Len(Wire) \in Nat /\ Len(Script) \in Nat
  BY WireShape
<1>2. /\ taken[c] \in 0 .. Len(Wire) /\ arrived[c] \in 0 .. Len(Wire)
      /\ frame[c] \in 0 .. Len(Wire) /\ need[c] \in Nat
  BY DEF TypeOK
<1> QED
  BY <1>1, <1>2

(* MessagesFramed is a part of it.                                        *)
LEMMA FramingImplies == FramingInv => MessagesFramed
BY DEF FramingInv, Framing, Framed, CutOff, MessagesFramed

(* A first message has lines before it ends.                              *)
LEMMA FirstLines == 0 < Len(Script) => 0 < EndOf(0) + Lines(0 + 1)
<1> SUFFICES ASSUME 0 < Len(Script)
             PROVE  0 < EndOf(0) + Lines(1)
  OBVIOUS
<1>1. 1 \in 1 .. Len(Script)
  BY WireShape
<1>2. Lines(1) >= 1 /\ Lines(1) \in Nat
  BY <1>1, UnitsShape
<1> QED
  BY <1>2, WireShape

(* A connection that has read nothing is before its first message.        *)
LEMMA FreshFrames ==
    ASSUME NEW c \in Conn, TypeOK, conn[c] # "serving", Fresh(c)
    PROVE  Framing(c)
<1>1. arrived[c] \in Nat
  BY WireShape DEF TypeOK
<1>2. 0 \in 0 .. Len(Script)
  BY WireShape
<1>3. Framed(c, 0)
  BY <1>1, FirstLines, WireShape, MessagesGrow DEF Framed, Fresh
<1> QED
  BY <1>2, <1>3 DEF Framing

(* The lines and the body of message n + 1 fill its place.                *)
LEMMA NextMessage ==
    ASSUME NEW n \in 0 .. Len(Script), n < Len(Script)
    PROVE  /\ n + 1 \in 1 .. Len(Script)
           /\ EndOf(n) \in Nat /\ EndOf(n + 1) \in Nat
           /\ Lines(n + 1) \in Nat /\ Lines(n + 1) >= 1 /\ Script[n + 1].body \in Nat
           /\ Units(n + 1) \in Seq(Unit) /\ Len(Units(n + 1)) \in Nat
           /\ Len(Units(n + 1)) = Lines(n + 1) + Script[n + 1].body
           /\ EndOf(n + 1) = EndOf(n) + Len(Units(n + 1))
           /\ EndOf(n + 1) = EndOf(n) + Lines(n + 1) + Script[n + 1].body
           /\ Script[n + 1].kind = "CRLF" => Lines(n + 1) = 1
<1>1. n + 1 \in 1 .. Len(Script) /\ n + 1 \in 0 .. Len(Script)
  BY WireShape
<1>2. EndOf(n) \in Nat /\ EndOf(n + 1) \in Nat /\ EndOf(n + 1) = EndOf(n) + Len(Units(n + 1))
  BY <1>1, WireShape
<1>3. /\ Lines(n + 1) \in Nat /\ Lines(n + 1) >= 1 /\ Script[n + 1].body \in Nat
      /\ Units(n + 1) \in Seq(Unit)
      /\ Len(Units(n + 1)) = Lines(n + 1) + Script[n + 1].body
      /\ Script[n + 1].kind = "CRLF" => Lines(n + 1) = 1
  BY <1>1, UnitsShape
<1> QED
  BY <1>1, <1>2, <1>3

-----------------------------------------------------------------------------
(* What a reader finds in the message it frames.                          *)

LEMMA FrameUnits ==
    ASSUME NEW c \in Conn, NEW n \in 0 .. Len(Script), n < Len(Script), TypeOK,
           frame[c] = EndOf(n), taken[c] <= EndOf(n + 1), frame[c] <= taken[c],
           NEW m, m = taken[c] - EndOf(n)
    PROVE  Frame(c) = {Units(n + 1)[j] : j \in 1 .. m}
<1>1. /\ EndOf(n) \in Nat /\ taken[c] \in Nat /\ Len(Units(n + 1)) \in Nat
      /\ EndOf(n + 1) = EndOf(n) + Len(Units(n + 1))
  BY NextMessage, Counters
<1>2. m \in Nat /\ m <= Len(Units(n + 1)) /\ taken[c] = EndOf(n) + m
  BY <1>1
<1>3. \A j \in 1 .. m : Wire[EndOf(n) + j] = Units(n + 1)[j]
  <2>1. \A j \in 1 .. Len(Units(n + 1)) : Wire[EndOf(n) + j] = Units(n + 1)[j]
    BY WireShape
  <2>2. \A j \in 1 .. m : j \in 1 .. Len(Units(n + 1))
    BY <1>1, <1>2
  <2> QED
    BY <2>1, <2>2
<1>4. ASSUME NEW k \in frame[c] + 1 .. taken[c]
      PROVE  \E j \in 1 .. m : Wire[k] = Units(n + 1)[j]
  <2>. DEFINE j == k - EndOf(n)
  <2>1. k \in Nat /\ EndOf(n) < k /\ k <= EndOf(n) + m
    BY <1>1, <1>2
  <2>2. j \in 1 .. m /\ EndOf(n) + j = k
    <3>1. EndOf(n) \in Nat /\ m \in Nat /\ j = k - EndOf(n)
      BY <1>1, <1>2
    <3>. HIDE DEF j
    <3> QED
      BY <2>1, <3>1
  <2>. HIDE DEF j
  <2>3. Wire[EndOf(n) + j] = Units(n + 1)[j]
    BY <1>3, <2>2
  <2> QED
    BY <2>2, <2>3
<1>5. ASSUME NEW j \in 1 .. m
      PROVE  \E k \in frame[c] + 1 .. taken[c] : Wire[k] = Units(n + 1)[j]
  <2>1. EndOf(n) + j \in frame[c] + 1 .. taken[c]
    BY <1>1, <1>2
  <2> QED
    BY <1>3, <2>1
<1>6. Frame(c) \subseteq {Units(n + 1)[j] : j \in 1 .. m}
  BY <1>4 DEF Frame
<1>7. {Units(n + 1)[j] : j \in 1 .. m} \subseteq Frame(c)
  BY <1>5 DEF Frame
<1> QED
  BY <1>6, <1>7

(* The units read are units of the wire, so a length found there is one.  *)
LEMMA ContentLengthTyped ==
    ASSUME NEW c \in Conn, TypeOK
    PROVE  ContentLength(Frame(c)) \in Nat
<1>1. ASSUME NEW u \in Frame(c)
      PROVE  u \in Unit
  <2>1. PICK k \in frame[c] + 1 .. taken[c] : u = Wire[k]
    BY DEF Frame
  <2>2. k \in 1 .. Len(Wire)
    BY WireShape DEF TypeOK
  <2> QED
    BY <2>1, <2>2, WireShape
<1>2. CASE \E u \in Frame(c) : u.part = "length"
  <2>. DEFINE v == CHOOSE u \in Frame(c) : u.part = "length"
  <2>1. v \in Frame(c)
    BY <1>2
  <2>2. v.message \in 1 .. Len(Script)
    BY <1>1, <2>1 DEF Unit
  <2>3. Script[v.message].body \in Nat
    BY <2>2, UnitsShape
  <2> QED
    BY <1>2, <2>3 DEF ContentLength
<1>3. CASE ~ \E u \in Frame(c) : u.part = "length"
  BY <1>3 DEF ContentLength
<1> QED
  BY <1>2, <1>3

(* Once all lines of a message are read their length is its body's.       *)
LEMMA LengthFound ==
    ASSUME NEW c \in Conn, NEW n \in 0 .. Len(Script), n < Len(Script), TypeOK,
           frame[c] = EndOf(n), taken[c] = EndOf(n) + Lines(n + 1) - 1
    PROVE  ContentLength(Frame(c)) = Script[n + 1].body
<1>1. n + 1 \in 1 .. Len(Script)
  BY NextMessage
<1>2. /\ \A j \in 1 .. Lines(n + 1) - 1 : Units(n + 1)[j].message = n + 1
      /\ Script[n + 1].body > 0 => \E j \in 1 .. Lines(n + 1) - 1 : Units(n + 1)[j].part = "length"
      /\ Script[n + 1].body \in Nat
  <2>1. \A j \in 1 .. Lines(n + 1) - 1 : j \in 1 .. Len(Units(n + 1))
    <3>1. /\ Lines(n + 1) \in Nat /\ Script[n + 1].body \in Nat
          /\ Len(Units(n + 1)) = Lines(n + 1) + Script[n + 1].body
      BY NextMessage
    <3> QED
      BY <3>1
  <2> QED
    BY <1>1, <2>1, UnitsShape
<1>3. /\ EndOf(n) \in Nat /\ Lines(n + 1) \in Nat /\ Lines(n + 1) >= 1
      /\ Script[n + 1].body \in Nat
      /\ EndOf(n + 1) = EndOf(n) + Lines(n + 1) + Script[n + 1].body
  BY NextMessage
<1>. DEFINE m == Lines(n + 1) - 1
<1>4. m = taken[c] - EndOf(n) /\ taken[c] <= EndOf(n + 1) /\ frame[c] <= taken[c]
  BY <1>3
<1>5. Frame(c) = {Units(n + 1)[j] : j \in 1 .. m}
  <2>. HIDE DEF m
  <2> QED
    BY <1>4, FrameUnits
<1>6. \A u \in Frame(c) : u.message = n + 1
  BY <1>2, <1>5
<1>7. CASE \E u \in Frame(c) : u.part = "length"
  <2>. DEFINE v == CHOOSE u \in Frame(c) : u.part = "length"
  <2>1. v \in Frame(c)
    BY <1>7
  <2>2. v.message = n + 1
    BY <1>6, <2>1
  <2> QED
    BY <1>7, <2>2 DEF ContentLength
<1>8. CASE ~ \E u \in Frame(c) : u.part = "length"
  <2>1. ~ (Script[n + 1].body > 0)
    BY <1>2, <1>5, <1>8
  <2>2. Script[n + 1].body = 0
    BY <1>3, <2>1
  <2> QED
    BY <1>8, <2>2 DEF ContentLength
<1> QED
  BY <1>7, <1>8

(* Any part of a message that is no keepalive parses.                     *)
LEMMA PartParses ==
    ASSUME NEW c \in Conn, NEW n \in 0 .. Len(Script), n < Len(Script), TypeOK,
           frame[c] = EndOf(n), frame[c] < taken[c], taken[c] <= EndOf(n + 1)
    PROVE  Parses(c) <=> Script[n + 1].kind # "CRLF"
<1>1. n + 1 \in 1 .. Len(Script)
  BY NextMessage
<1>2. IF Script[n + 1].kind = "CRLF"
      THEN \A j \in 1 .. Len(Units(n + 1)) : Units(n + 1)[j].part # "start"
      ELSE Units(n + 1)[1].part = "start"
  BY <1>1, UnitsShape
<1>3. /\ EndOf(n) \in Nat /\ taken[c] \in Nat /\ Len(Units(n + 1)) \in Nat
      /\ EndOf(n + 1) = EndOf(n) + Len(Units(n + 1))
  BY NextMessage, Counters
<1>. DEFINE m == taken[c] - EndOf(n)
<1>4. Frame(c) = {Units(n + 1)[j] : j \in 1 .. m}
  <2>1. frame[c] <= taken[c]
    BY <1>3
  <2>2. m = taken[c] - EndOf(n)
    OBVIOUS
  <2>. HIDE DEF m
  <2> QED
    BY <2>1, <2>2, FrameUnits
<1>5. 1 \in 1 .. m /\ \A j \in 1 .. m : j \in 1 .. Len(Units(n + 1))
  BY <1>3
<1>. HIDE DEF m
<1> QED
  BY <1>2, <1>4, <1>5 DEF Parses

-----------------------------------------------------------------------------
(* Every step keeps the types.                                            *)

LEMMA TypeInit == Init => TypeOK
<1> SUFFICES ASSUME Init
             PROVE  TypeOK
  OBVIOUS
<1>1. 0 \in 0 .. Len(Wire)
  BY WireShape
<1> QED
  BY <1>1 DEF Init, TypeOK

(* A handler that leaves.                                                 *)
LEMMA LeavesTyped ==
    ASSUME TypeOK, NEW c \in Conn, Leaves(c)
    PROVE  TypeOK'
<1>1. 0 \in 0 .. Len(Wire)
  BY WireShape
<1>2. /\ mode' \in {"running", "shutdown"}
      /\ accepting' \in {"up", "pausing", "ended"}
      /\ conn' \in [Conn -> {"idle", "handshake", "setup", "serving", "gone"}]
      /\ media' \in [Conn -> BOOLEAN]
      /\ tcp_tx' \in Conn \cup {None}
  BY DEF Leaves, Unbound, TypeOK
<1>3. /\ arrived' \in [Conn -> 0 .. Len(Wire)] /\ closed' \in [Conn -> BOOLEAN]
      /\ taken' \in [Conn -> 0 .. Len(Wire)] /\ frame' \in [Conn -> 0 .. Len(Wire)]
  BY <1>1 DEF Leaves, TypeOK
<1>4. /\ reader' \in [Conn -> {"headers", "body"}]
      /\ need' \in [Conn -> Nat]
      /\ handled' \in [Conn -> Seq(Span)]
  BY DEF Leaves, TypeOK
<1> QED
  BY <1>2, <1>3, <1>4 DEF TypeOK

(* A step of the reader.                                                  *)
LEMMA ReaderTyped ==
    ASSUME TypeOK, NEW c \in Conn, ReadLine(c) \/ ReadEof(c) \/ ReadBody(c)
    PROVE  TypeOK'
<1>1. /\ UNCHANGED <<mode, accepting, conn, net, frame, handled, media, tcp_tx>>
      /\ taken' = taken \/ (taken[c] < arrived[c] /\ taken' = [taken EXCEPT ![c] = @ + 1])
      /\ reader' = reader \/ reader' = [reader EXCEPT ![c] = "body"]
      /\ \/ need' = need
         \/ need' = [need EXCEPT ![c] = ContentLength(Frame(c))]
         \/ need[c] > 0 /\ need' = [need EXCEPT ![c] = @ - 1]
  BY DEF ReadLine, ReadEof, ReadBody
<1>2. taken' \in [Conn -> 0 .. Len(Wire)]
  <2>1. taken[c] \in 0 .. Len(Wire) /\ arrived[c] \in 0 .. Len(Wire) /\ Len(Wire) \in Nat
    BY WireShape DEF TypeOK
  <2>2. taken[c] < arrived[c] => taken[c] + 1 \in 0 .. Len(Wire)
    BY <2>1
  <2> QED
    BY <1>1, <2>2 DEF TypeOK
<1>3. need' \in [Conn -> Nat]
  <2>1. need[c] \in Nat /\ (need[c] > 0 => need[c] - 1 \in Nat)
    BY DEF TypeOK
  <2>2. ContentLength(Frame(c)) \in Nat
    BY ContentLengthTyped
  <2> QED
    BY <1>1, <2>1, <2>2 DEF TypeOK
<1>4. reader' \in [Conn -> {"headers", "body"}]
  BY <1>1 DEF TypeOK
<1> QED
  BY <1>1, <1>2, <1>3, <1>4 DEF TypeOK, net

(* A message handed over.                                                 *)
LEMMA HandleTyped ==
    ASSUME TypeOK, NEW c \in Conn, HandleMessage(c)
    PROVE  TypeOK'
<1>1. handled' \in [Conn -> Seq(Span)]
  <2>1. <<frame[c], taken[c]>> \in Span
    BY DEF TypeOK, Span
  <2>2. Append(handled[c], <<frame[c], taken[c]>>) \in Seq(Span)
    BY <2>1 DEF TypeOK
  <2> QED
    BY <2>2 DEF HandleMessage, TypeOK
<1>2. media' \in [Conn -> BOOLEAN]
  <2>1. MediaAfter(c) \in BOOLEAN
    BY DEF MediaAfter, TypeOK
  <2> QED
    BY <2>1 DEF HandleMessage, TypeOK
<1>3. frame' \in [Conn -> 0 .. Len(Wire)] /\ reader' \in [Conn -> {"headers", "body"}]
  BY DEF HandleMessage, TypeOK
<1> QED
  BY <1>1, <1>2, <1>3 DEF HandleMessage, TypeOK, net

LEMMA TypeStep == TypeOK /\ [Next]_vars => TypeOK'
<1> SUFFICES ASSUME TypeOK, [Next]_vars
             PROVE  TypeOK'
  OBVIOUS
<1>1. CASE UNCHANGED vars
  BY <1>1 DEF vars, net, framing, TypeOK
<1>2. CASE AcceptLoop
  BY <1>2 DEF AcceptLoop, AcceptFails, PauseElapses, StopAccepting, net, framing, TypeOK
<1>3. ASSUME NEW c \in Conn, Accept(c) \/ HandshakeEnds(c) \/ Serve(c)
      PROVE  TypeOK'
  <2>1. conn' \in [Conn -> {"idle", "handshake", "setup", "serving", "gone"}]
    BY <1>3 DEF Accept, HandshakeEnds, Serve, TypeOK
  <2>2. tcp_tx' \in Conn \cup {None}
    BY <1>3 DEF Accept, HandshakeEnds, Serve, Bound, TypeOK
  <2> QED
    BY <1>3, <2>1, <2>2 DEF Accept, HandshakeEnds, Serve, net, framing, TypeOK
<1>4. ASSUME NEW c \in Conn, SetupFails(c)
      PROVE  TypeOK'
  <2>1. 0 \in 0 .. Len(Wire)
    BY WireShape
  <2> QED
    BY <1>4, <2>1 DEF SetupFails, framing, TypeOK
<1>5. ASSUME NEW c \in Conn, PlatformSends(c)
      PROVE  TypeOK'
  <2>1. arrived[c] + 1 \in 0 .. Len(Wire)
    BY <1>5, WireShape DEF PlatformSends, TypeOK
  <2> QED
    BY <1>5, <2>1 DEF PlatformSends, framing, TypeOK
<1>6. ASSUME NEW c \in Conn, PlatformCloses(c) \/ MediaEnds(c)
      PROVE  TypeOK'
  BY <1>6 DEF PlatformCloses, MediaEnds, net, framing, TypeOK
<1>7. CASE RequestShutdown
  BY <1>7 DEF RequestShutdown, net, framing, TypeOK
<1>8. ASSUME NEW c \in Conn, EofInBody(c) \/ StopHandler(c) \/ ReadFails(c)
      PROVE  TypeOK'
  BY <1>8, LeavesTyped DEF EofInBody, StopHandler, ReadFails
<1> QED
  BY <1>1, <1>2, <1>3, <1>4, <1>5, <1>6, <1>7, <1>8, ReaderTyped, HandleTyped
  DEF Next, Handler, Progress, Environment

-----------------------------------------------------------------------------
(* Every step keeps the framing of every connection.                      *)

(* What a step leaves alone of a connection.                              *)
Same(c) ==
    /\ arrived'[c] = arrived[c] /\ closed'[c] = closed[c]
    /\ taken'[c] = taken[c] /\ frame'[c] = frame[c] /\ reader'[c] = reader[c]
    /\ need'[c] = need[c] /\ handled'[c] = handled[c]
    /\ conn'[c] # "serving" => conn[c] # "serving"

(* Such a step keeps its framing.                                         *)
LEMMA SameKeeps ==
    ASSUME NEW c \in Conn, Fresh(c), Framing(c), Same(c)
    PROVE  Fresh(c)' /\ Framing(c)'
<1>1. Fresh(c)'
  BY DEF Fresh, Same
<1>2. \A n \in 0 .. Len(Script) : Framed(c, n) => Framed(c, n)'
  BY DEF Framed, Same
<1>3. \A n \in 0 .. Len(Script) : CutOff(c, n) => CutOff(c, n)'
  BY DEF CutOff, Same
<1> QED
  BY <1>1, <1>2, <1>3 DEF Framing

(* Every step leaves each connection alone, but for one at most.          *)
LEMMA FramingKinds ==
    ASSUME FramingInv, [Next]_vars, NEW d \in Conn
    PROVE  \/ Same(d)
           \/ conn'[d] = "gone" /\ taken'[d] = 0 /\ frame'[d] = 0 /\ handled'[d] = <<>>
                /\ reader'[d] = "headers" /\ need'[d] = 0
           \/ PlatformSends(d) \/ PlatformCloses(d)
           \/ ReadLine(d) \/ ReadEof(d) \/ ReadBody(d) \/ HandleMessage(d)
<1>. USE DEF FramingInv
<1>1. CASE UNCHANGED vars
  BY <1>1 DEF vars, net, framing, Same
<1>2. CASE AcceptLoop \/ RequestShutdown
  BY <1>2 DEF AcceptLoop, AcceptFails, PauseElapses, StopAccepting, RequestShutdown, net,
              framing, Same
<1>3. ASSUME NEW c \in Conn, Accept(c) \/ HandshakeEnds(c) \/ Serve(c) \/ MediaEnds(c)
      PROVE  Same(d)
  <2>1. UNCHANGED <<net, framing>>
    BY <1>3 DEF Accept, HandshakeEnds, Serve, MediaEnds
  <2>2. conn'[d] # "serving" => conn[d] # "serving"
    BY <1>3 DEF Accept, HandshakeEnds, Serve, MediaEnds, TypeOK
  <2> QED
    BY <2>1, <2>2 DEF net, framing, Same
<1>4. ASSUME NEW c \in Conn, SetupFails(c)
      PROVE  \/ Same(d)
             \/ conn'[d] = "gone" /\ taken'[d] = 0 /\ frame'[d] = 0 /\ handled'[d] = <<>>
                  /\ reader'[d] = "headers" /\ need'[d] = 0
  BY <1>4 DEF SetupFails, framing, Same, TypeOK, Fresh
<1>5. ASSUME NEW c \in Conn, Leaves(c)
      PROVE  \/ Same(d)
             \/ conn'[d] = "gone" /\ taken'[d] = 0 /\ frame'[d] = 0 /\ handled'[d] = <<>>
                  /\ reader'[d] = "headers" /\ need'[d] = 0
  BY <1>5 DEF Leaves, Same, TypeOK
<1>6. ASSUME NEW c \in Conn, PlatformSends(c) \/ PlatformCloses(c), c # d
      PROVE  Same(d)
  BY <1>6 DEF PlatformSends, PlatformCloses, net, framing, Same, TypeOK
<1>7. ASSUME NEW c \in Conn, ReadLine(c) \/ ReadEof(c) \/ ReadBody(c) \/ HandleMessage(c), c # d
      PROVE  Same(d)
  BY <1>7 DEF ReadLine, ReadEof, ReadBody, HandleMessage, net, Same, TypeOK
<1> QED
  BY <1>1, <1>2, <1>3, <1>4, <1>5, <1>6, <1>7
  DEF Next, Handler, Progress, Environment, EofInBody, StopHandler, ReadFails

(* The platform sends more, or closes.                                    *)
LEMMA PlatformKeeps ==
    ASSUME FramingInv, NEW c \in Conn, PlatformSends(c) \/ PlatformCloses(c)
    PROVE  Fresh(c)' /\ Framing(c)'
<1>1. /\ UNCHANGED <<conn, taken, frame, reader, need, handled>>
      /\ ~closed[c]
      /\ arrived'[c] = arrived[c] \/ arrived'[c] = arrived[c] + 1
      /\ arrived'[c] # arrived[c] => closed'[c] = closed[c]
  BY DEF PlatformSends, PlatformCloses, framing, net, FramingInv, TypeOK
<1>2. Fresh(c)'
  BY <1>1 DEF FramingInv, Fresh
<1>3. PICK n \in 0 .. Len(Script) : Framed(c, n)
  BY <1>1 DEF FramingInv, Framing, CutOff
<1>4. taken[c] \in Nat /\ arrived[c] \in Nat
  BY Counters DEF FramingInv
<1>5. Framed(c, n)'
  BY <1>1, <1>3, <1>4 DEF Framed
<1> QED
  BY <1>2, <1>3, <1>5 DEF Framing

(* A line, a blank one ends the headers of its message.                   *)
LEMMA LineKeeps ==
    ASSUME FramingInv, NEW c \in Conn, ReadLine(c)
    PROVE  Fresh(c)' /\ Framing(c)'
<1>1. /\ conn[c] = "serving" /\ reader[c] = "headers"
      /\ taken[c] < arrived[c] /\ taken'[c] = taken[c] + 1
      /\ UNCHANGED <<conn, arrived, closed, frame, handled>>
      /\ IF Wire[taken[c] + 1].part = "blank"
         THEN reader'[c] = "body" /\ need'[c] = ContentLength(Frame(c))
         ELSE reader'[c] = reader[c] /\ need'[c] = need[c]
  BY DEF ReadLine, Reading, net, FramingInv, TypeOK
<1>2. TypeOK /\ taken[c] \in Nat /\ arrived[c] \in 0 .. Len(Wire) /\ Len(Wire) \in Nat
  BY Counters DEF FramingInv
<1>3. PICK n \in 0 .. Len(Script) : Framed(c, n)
  BY <1>1, <1>2 DEF FramingInv, Framing, CutOff
<1>4. /\ frame[c] = EndOf(n) /\ handled[c] = Messages[n]
      /\ frame[c] <= taken[c] /\ need[c] = 0
      /\ n < Len(Script) => taken[c] < EndOf(n) + Lines(n + 1)
      /\ n = Len(Script) => taken[c] = EndOf(n)
  BY <1>1, <1>3 DEF Framed
<1>5. n < Len(Script)
  BY <1>1, <1>2, <1>4, WireShape
<1>6. n + 1 \in 1 .. Len(Script)
  BY <1>5, NextMessage
<1>7. /\ EndOf(n) \in Nat /\ Lines(n + 1) \in Nat /\ Lines(n + 1) >= 1
      /\ Script[n + 1].body \in Nat
      /\ EndOf(n + 1) = EndOf(n) + Lines(n + 1) + Script[n + 1].body
  BY <1>5, NextMessage
<1>. DEFINE j == taken[c] + 1 - EndOf(n)
<1>8. j \in 1 .. Lines(n + 1) /\ taken[c] + 1 = EndOf(n) + j
  <2>1. EndOf(n) <= taken[c] /\ taken[c] < EndOf(n) + Lines(n + 1)
    BY <1>4, <1>5
  <2>2. taken[c] \in Nat /\ EndOf(n) \in Nat /\ Lines(n + 1) \in Nat
    BY <1>2, <1>7
  <2> QED
    BY <2>1, <2>2
<1>9. Wire[taken[c] + 1] = Units(n + 1)[j]
  <2>1. j \in 1 .. Len(Units(n + 1))
    <3>1. Len(Units(n + 1)) = Lines(n + 1) + Script[n + 1].body
      BY <1>5, NextMessage
    <3>. HIDE DEF j
    <3> QED
      BY <1>7, <1>8, <3>1
  <2>. HIDE DEF j
  <2> QED
    BY <1>5, <1>8, <2>1, WireShape
<1>. HIDE DEF j
<1>10. CASE j = Lines(n + 1)
  <2>1. Wire[taken[c] + 1].part = "blank"
    <3>1. Units(n + 1)[Lines(n + 1)].part = "blank"
      BY <1>6, UnitsShape
    <3> QED
      BY <1>9, <1>10, <3>1
  <2>2. ContentLength(Frame(c)) = Script[n + 1].body
    <3>1. taken[c] = EndOf(n) + Lines(n + 1) - 1
      <4>1. taken[c] + 1 = EndOf(n) + Lines(n + 1)
        BY <1>8, <1>10
      <4>2. taken[c] \in Nat /\ EndOf(n) \in Nat /\ Lines(n + 1) \in Nat
        BY <1>2, <1>7
      <4> QED
        BY <4>1, <4>2
    <3> QED
      BY <1>2, <1>4, <1>5, <3>1, LengthFound
  <2>3. taken'[c] = EndOf(n) + Lines(n + 1) /\ taken'[c] + need'[c] = EndOf(n + 1)
    BY <1>1, <1>7, <1>8, <1>10, <2>1, <2>2
  <2>4. Framed(c, n)'
    BY <1>1, <1>2, <1>4, <1>5, <1>7, <2>1, <2>3 DEF Framed
  <2> QED
    BY <1>1, <2>4 DEF Framing, Fresh
<1>11. CASE j < Lines(n + 1)
  <2>1. Wire[taken[c] + 1].part # "blank"
    <3>1. j \in 1 .. Lines(n + 1) - 1
      BY <1>7, <1>8, <1>11
    <3> QED
      BY <1>6, <1>9, <3>1, UnitsShape
  <2>2. taken'[c] < EndOf(n) + Lines(n + 1)
    BY <1>1, <1>7, <1>8, <1>11
  <2>3. Framed(c, n)'
    BY <1>1, <1>2, <1>4, <1>5, <1>7, <2>1, <2>2 DEF Framed
  <2> QED
    BY <1>1, <2>3 DEF Framing, Fresh
<1> QED
  BY <1>7, <1>8, <1>10, <1>11

(* The stream ends among the lines of a message, or between two.          *)
LEMMA EofKeeps ==
    ASSUME FramingInv, NEW c \in Conn, ReadEof(c)
    PROVE  Fresh(c)' /\ Framing(c)'
<1>1. /\ conn[c] = "serving" /\ reader[c] = "headers"
      /\ closed[c] /\ taken[c] = arrived[c]
      /\ UNCHANGED <<conn, arrived, closed, taken, frame, handled>>
      /\ reader'[c] = "body" /\ need'[c] = ContentLength(Frame(c))
  BY DEF ReadEof, Reading, AtEof, net, FramingInv, TypeOK
<1>2. Fresh(c)'
  BY <1>1 DEF Fresh
<1>3. PICK n \in 0 .. Len(Script) : Framed(c, n) \/ CutOff(c, n)
  BY DEF FramingInv, Framing
<1>4. CASE Framed(c, n)
  <2>1. Framed(c, n)'
    BY <1>1, <1>4 DEF Framed
  <2> QED
    BY <1>2, <2>1 DEF Framing
<1>5. CASE CutOff(c, n)
  <2>1. Frame(c) = {}
    <3>1. frame[c] + 1 .. taken[c] = {}
      BY <1>5, Counters DEF CutOff, FramingInv
    <3> QED
      BY <3>1 DEF Frame
  <2>2. need'[c] = 0
    BY <1>1, <2>1 DEF ContentLength
  <2>3. CutOff(c, n)'
    BY <1>1, <1>5, <2>2 DEF CutOff
  <2> QED
    BY <1>2, <2>3 DEF Framing
<1> QED
  BY <1>3, <1>4, <1>5

(* The body of a message that has one.                                    *)
LEMMA BodyKeeps ==
    ASSUME FramingInv, NEW c \in Conn, ReadBody(c)
    PROVE  Fresh(c)' /\ Framing(c)'
<1>1. /\ conn[c] = "serving" /\ reader[c] = "body"
      /\ need[c] > 0 /\ taken[c] < arrived[c]
      /\ UNCHANGED <<conn, arrived, closed, frame, reader, handled>>
      /\ taken'[c] = taken[c] + 1 /\ need'[c] = need[c] - 1
  BY DEF ReadBody, Reading, net, FramingInv, TypeOK
<1>2. Fresh(c)'
  BY <1>1 DEF Fresh
<1>3. taken[c] \in Nat /\ arrived[c] \in Nat /\ need[c] \in Nat
  BY Counters DEF FramingInv
<1>4. PICK n \in 0 .. Len(Script) : Framed(c, n)
  BY <1>1, <1>3 DEF FramingInv, Framing, CutOff
<1>5. /\ n < Len(Script) /\ EndOf(n) + Lines(n + 1) <= taken[c]
      /\ taken[c] + need[c] = EndOf(n + 1)
      /\ frame[c] = EndOf(n) /\ handled[c] = Messages[n] /\ frame[c] <= taken[c]
  <2>1. ~ (taken[c] = arrived[c])
    BY <1>1, <1>3
  <2> QED
    BY <1>1, <1>4, <2>1 DEF Framed
<1>6. Lines(n + 1) \in Nat /\ EndOf(n) \in Nat
  BY <1>5, NextMessage
<1>7. Framed(c, n)'
  <2>1. frame'[c] <= taken'[c] /\ taken'[c] <= arrived'[c]
    BY <1>1, <1>3, <1>5, <1>6
  <2>2. EndOf(n) + Lines(n + 1) <= taken'[c] /\ taken'[c] + need'[c] = EndOf(n + 1)
    BY <1>1, <1>3, <1>5, <1>6
  <2>3. n # Len(Script)
    BY <1>3, <1>5, Counters
  <2> QED
    BY <1>1, <1>5, <2>1, <2>2, <2>3 DEF Framed
<1> QED
  BY <1>2, <1>7 DEF Framing

(* The next message is whole, or what the stream left of it is handled.   *)
LEMMA HandleKeeps ==
    ASSUME FramingInv, NEW c \in Conn, HandleMessage(c)
    PROVE  Fresh(c)' /\ Framing(c)'
<1>1. /\ conn[c] = "serving" /\ reader[c] = "body" /\ need[c] = 0
      /\ UNCHANGED <<conn, arrived, closed, taken, need>>
      /\ frame'[c] = taken[c] /\ reader'[c] = "headers"
      /\ handled'[c] = IF Parses(c) THEN Append(handled[c], <<frame[c], taken[c]>>)
                       ELSE handled[c]
  BY DEF HandleMessage, Reading, net, FramingInv, TypeOK
<1>2. Fresh(c)'
  BY <1>1 DEF Fresh
<1>3. TypeOK /\ taken[c] \in Nat /\ arrived[c] \in Nat
  BY Counters DEF FramingInv
<1>4. PICK n \in 0 .. Len(Script) : Framed(c, n) \/ CutOff(c, n)
  BY DEF FramingInv, Framing
<1>5. CASE CutOff(c, n)
  <2>1. Frame(c) = {}
    <3>1. frame[c] + 1 .. taken[c] = {}
      BY <1>3, <1>5 DEF CutOff
    <3> QED
      BY <3>1 DEF Frame
  <2>2. ~Parses(c)
    BY <2>1 DEF Parses
  <2>3. CutOff(c, n)'
    BY <1>1, <1>5, <2>2 DEF CutOff
  <2> QED
    BY <1>2, <2>3 DEF Framing
<1>6. ASSUME Framed(c, n), n < Len(Script), taken[c] = EndOf(n + 1)
      PROVE  Framed(c, n + 1)' /\ n + 1 \in 0 .. Len(Script)
  <2>1. n + 1 \in 1 .. Len(Script) /\ n + 1 \in 0 .. Len(Script) /\ n + 1 - 1 = n
    <3>1. n \in Nat /\ Len(Script) \in Nat
      BY WireShape
    <3> QED
      BY <1>6, <3>1
  <2>2. /\ EndOf(n) \in Nat /\ EndOf(n + 1) \in Nat
        /\ EndOf(n) < EndOf(n + 1)
    <3>1. /\ EndOf(n) \in Nat /\ EndOf(n + 1) \in Nat
          /\ Lines(n + 1) \in Nat /\ Lines(n + 1) >= 1 /\ Script[n + 1].body \in Nat
          /\ EndOf(n + 1) = EndOf(n) + Lines(n + 1) + Script[n + 1].body
      BY <1>6, NextMessage
    <3> QED
      BY <3>1
  <2>3. frame[c] = EndOf(n) /\ handled[c] = Messages[n] /\ taken[c] <= arrived[c]
    BY <1>6 DEF Framed
  <2>4. Parses(c) <=> Script[n + 1].kind # "CRLF"
    <3>1. frame[c] < taken[c] /\ taken[c] <= EndOf(n + 1)
      BY <1>6, <2>2, <2>3
    <3> QED
      BY <1>3, <1>6, <2>3, <3>1, PartParses
  <2>5. handled'[c] = Messages[n + 1]
    <3>1. Messages[n + 1] = IF Script[n + 1].kind = "CRLF" THEN Messages[n]
                            ELSE Append(Messages[n], <<EndOf(n), EndOf(n + 1)>>)
      BY <2>1, MessagesGrow
    <3> QED
      BY <1>1, <1>6, <2>3, <2>4, <3>1
  <2>6. n + 1 < Len(Script) => EndOf(n + 1) < EndOf(n + 1) + Lines(n + 1 + 1)
    <3> SUFFICES ASSUME n + 1 < Len(Script)
                 PROVE  EndOf(n + 1) < EndOf(n + 1) + Lines(n + 1 + 1)
      OBVIOUS
    <3>1. n + 1 + 1 \in 1 .. Len(Script)
      BY WireShape
    <3>2. Lines(n + 1 + 1) \in Nat /\ Lines(n + 1 + 1) >= 1
      BY <3>1, UnitsShape
    <3> QED
      BY <2>2, <3>2
  <2> QED
    BY <1>1, <1>3, <1>6, <2>1, <2>2, <2>3, <2>5, <2>6 DEF Framed
<1>7. ASSUME Framed(c, n), closed[c], taken[c] = arrived[c],
             n < Len(Script) => taken[c] < EndOf(n) + Lines(n + 1)
      PROVE  Framed(c, n)' \/ CutOff(c, n)'
  <2>1. frame[c] = EndOf(n) /\ handled[c] = Messages[n] /\ frame[c] <= taken[c]
        /\ EndOf(n) \in Nat
    BY <1>7, WireShape DEF Framed
  <2>2. CASE taken[c] = frame[c]
    <3>1. Frame(c) = {}
      <4>1. frame[c] + 1 .. taken[c] = {}
        BY <1>3, <2>2
      <4> QED
        BY <4>1 DEF Frame
    <3>2. ~Parses(c)
      BY <3>1 DEF Parses
    <3>3. Framed(c, n)'
      BY <1>1, <1>3, <1>7, <2>1, <2>2, <3>2 DEF Framed
    <3> QED
      BY <3>3
  <2>3. CASE taken[c] # frame[c]
    <3>1. n < Len(Script) /\ frame[c] < taken[c]
      BY <1>3, <1>7, <2>1, <2>3, WireShape DEF Framed
    <3>2. Parses(c)
      <4>1. /\ EndOf(n + 1) = EndOf(n) + Lines(n + 1) + Script[n + 1].body
            /\ Lines(n + 1) \in Nat /\ Script[n + 1].body \in Nat
            /\ Script[n + 1].kind = "CRLF" => Lines(n + 1) = 1
        BY <3>1, NextMessage
      <4>2. taken[c] < EndOf(n) + Lines(n + 1)
        BY <1>7, <3>1
      <4>3. taken[c] <= EndOf(n + 1) /\ Script[n + 1].kind # "CRLF"
        BY <1>3, <2>1, <3>1, <4>1, <4>2
      <4> QED
        BY <1>3, <2>1, <3>1, <4>3, PartParses
    <3>3. CutOff(c, n)'
      BY <1>1, <1>7, <2>1, <3>2 DEF CutOff
    <3> QED
      BY <3>3
  <2> QED
    BY <2>2, <2>3
<1>8. CASE Framed(c, n)
  <2>1. \/ n < Len(Script) /\ taken[c] = EndOf(n + 1)
        \/ closed[c] /\ taken[c] = arrived[c]
             /\ (n < Len(Script) => taken[c] < EndOf(n) + Lines(n + 1))
    BY <1>1, <1>3, <1>8 DEF Framed
  <2> QED
    BY <1>2, <1>6, <1>7, <1>8, <2>1 DEF Framing
<1> QED
  BY <1>4, <1>5, <1>8

(* Every step keeps the invariant.                                        *)
LEMMA FramingStep == FramingInv /\ [Next]_vars => FramingInv'
<1> SUFFICES ASSUME FramingInv, [Next]_vars
             PROVE  FramingInv'
  OBVIOUS
<1>1. TypeOK'
  BY TypeStep DEF FramingInv
<1>2. ASSUME NEW c \in Conn
      PROVE  Fresh(c)' /\ Framing(c)'
  <2>1. Fresh(c) /\ Framing(c)
    BY DEF FramingInv
  <2>2. CASE Same(c)
    BY <2>1, <2>2, SameKeeps
  <2>3. CASE conn'[c] = "gone" /\ taken'[c] = 0 /\ frame'[c] = 0 /\ handled'[c] = <<>>
               /\ reader'[c] = "headers" /\ need'[c] = 0
    <3>1. Fresh(c)'
      BY <2>3 DEF Fresh
    <3>2. arrived'[c] \in Nat
      BY <1>1, WireShape DEF TypeOK
    <3>3. 0 \in 0 .. Len(Script)
      BY WireShape
    <3>4. Framed(c, 0)'
      BY <2>3, <3>2, FirstLines, WireShape, MessagesGrow DEF Framed
    <3> QED
      BY <3>1, <3>3, <3>4 DEF Framing
  <2> QED
    BY <2>2, <2>3, FramingKinds, PlatformKeeps, LineKeeps, EofKeeps, BodyKeeps, HandleKeeps
<1> QED
  BY <1>1, <1>2 DEF FramingInv

(* Nothing is read at first.                                              *)
LEMMA FramingInit == Init => FramingInv
<1> SUFFICES ASSUME Init
             PROVE  FramingInv
  OBVIOUS
<1>1. TypeOK
  BY TypeInit
<1>2. ASSUME NEW c \in Conn
      PROVE  Fresh(c) /\ Framing(c)
  <2>1. Fresh(c) /\ conn[c] # "serving"
    BY DEF Init, Fresh
  <2> QED
    BY <1>1, <2>1, FreshFrames
<1> QED
  BY <1>1, <1>2 DEF FramingInv

LEMMA FramingHolds == Spec => []FramingInv
BY FramingInit, FramingStep, PTL DEF Spec

(* The accept loop, the handlers and the binding keep their types, for any*)
(* connections, any messages and any cut of the stream.                   *)
THEOREM InboundTypeCorrect == Spec => []TypeOK
<1>1. FramingInv => TypeOK
  BY DEF FramingInv
<1> QED
  BY <1>1, FramingHolds, PTL

(* Whatever the platform sends on whatever connections, and however it    *)
(* arrives: each connection has handled the first messages sent on it, whole,*)
(* once and in order, but for one cut off by the end of its stream.       *)
THEOREM FramingIsExact == Spec => []MessagesFramed
BY FramingImplies, FramingHolds, PTL


-----------------------------------------------------------------------------
(* The verdict on a command (Requests).                                   *)

(* A list, its elements whatever they are.                                *)
IsList(s) == s \in Seq({s[i] : i \in DOMAIN s})

(* Absent stands for Rust's None: no record, no number, no command's name. *)
AbsentIsApart ==
    /\ Absent # [x \in DOMAIN Absent |-> Absent[x]]
    /\ Absent \notin Nat \cup {"DeviceControl", "DeviceConfig"}

Cmd(id) == Text(received[id].body, "CmdType")

(* A command the device owes a verdict on each time it comes.             *)
Owing(id) ==
    /\ received[id].method = "MESSAGE" /\ received[id].note /\ received[id].manscdp
    /\ Cmd(id) \in {"DeviceControl", "DeviceConfig"}
    /\ ~Unserved(id)
    /\ id \notin cut /\ id \notin lost

(* What an effect still to come will count as.                            *)
CarriesOut(e) == e.act \in {"execute", "spawn"}
Tells(e, result) == e.act = "send" /\ IsResult(e.message, result)

Ahead(id) == IF handler.about = id THEN handler.todo ELSE <<>>

(* Effects ahead that carry the command out, report OK, report ERROR; no  *)
(* command has more than three effects.                                   *)
One(P) == IF P THEN 1 ELSE 0
Carrying(todo) ==
    One(1 \in DOMAIN todo /\ CarriesOut(todo[1])) + One(2 \in DOMAIN todo /\ CarriesOut(todo[2]))
    + One(3 \in DOMAIN todo /\ CarriesOut(todo[3]))
Telling(todo, result) ==
    One(1 \in DOMAIN todo /\ Tells(todo[1], result))
    + One(2 \in DOMAIN todo /\ Tells(todo[2], result))
    + One(3 \in DOMAIN todo /\ Tells(todo[3], result))

Carried(id) == Executions(id) + Reports(id) + Underway(id)

(* What the effects of a command look like.                               *)
Orderly(todo) ==
    /\ Len(todo) \in 0 .. 3 /\ todo = [i \in 1 .. Len(todo) |-> todo[i]]
    /\ Carrying(todo) <= 1
    /\ \A i \in DOMAIN todo : todo[i].act = "send" => todo[i].message.kind # "notify"

RequestsTyped ==
    /\ IsList(received)
    /\ copies \in [Id -> Nat \ {0}]
    /\ handler = [about |-> handler.about, todo |-> handler.todo]
    /\ handler = Idle \/ handler.about \in Id
    /\ IsFiniteSet(tasks)
    /\ \A t \in tasks : t.about \in Id /\ t.copy \in 1 .. copies[t.about]
    /\ IsList(executed)
    /\ IsList(sent)
    /\ \A i \in DOMAIN sent : sent[i].about \in Id
    /\ \A i \in DOMAIN executed : executed[i].about \in Id
    /\ cut \subseteq Id /\ lost \subseteq Id

BodiesKnown ==
    \A id \in Id : received[id].method = "MESSAGE" =>
        \E b \in Bodies \cup LaterBodies : received[id].body = Numbered(b, id)

(* An exchange ahead is not yet among the tasks.                          *)
SpawnsOnce(id) ==
    (\E i \in DOMAIN Ahead(id) : Ahead(id)[i].act = "spawn") =>
        \A t \in tasks : t.about = id => t.copy # copies[id]

Accounted(id) ==
    /\ Carried(id) + Carrying(Ahead(id)) + Results(id, "ERROR") + Telling(Ahead(id), "ERROR")
           = copies[id]
    /\ Results(id, "OK") + Telling(Ahead(id), "OK")
           = IF Cmd(id) = "DeviceConfig" THEN Carried(id) + Carrying(Ahead(id)) ELSE 0

Balanced(id) ==
    /\ Orderly(Ahead(id))
    /\ handler.about = id => handler.todo # <<>>
    /\ SpawnsOnce(id)
    /\ Accounted(id)

VerdictInv ==
    /\ RequestsTyped
    /\ BodiesKnown
    /\ \A id \in Id : Owing(id) => Balanced(id)

(* What MessageEffects makes of a command.                                *)
CommandEffects(fx, cmd) ==
    \/ /\ cmd = "DeviceConfig"
       /\ \E e, f : fx = <<e, f>> /\ Tells(e, "OK") /\ f.act = "spawn"
    \/ /\ cmd = "DeviceConfig"
       /\ \E e, f : fx = <<e, f>> /\ e.act = "execute" /\ Tells(f, "OK")
    \/ /\ cmd = "DeviceControl"
       /\ \E e : fx = <<e>> /\ e.act \in {"spawn", "execute"}
    \/ \E e : fx = <<e>> /\ Tells(e, "ERROR")

(* Putting an effect before others.                                       *)
LEMMA OneBeforeTwo ==
    ASSUME NEW a, NEW b, NEW c
    PROVE  <<a>> \o <<b, c>> = <<a, b, c>>
<1> DEFINE S == {a, b, c}
           s == <<a>> \o <<b, c>>
<1>1. <<a>> \in Seq(S) /\ <<b, c>> \in Seq(S) /\ Len(<<a>>) = 1 /\ Len(<<b, c>>) = 2
  OBVIOUS
<1>2. s \in Seq(S) /\ Len(s) = 3
  BY <1>1, ConcatProperties
<1>3. s[1] = a /\ s[2] = b /\ s[3] = c
  <2>1. \A i \in 1 .. 1 + 2 : s[i] = IF i <= 1 THEN <<a>>[i] ELSE <<b, c>>[i - 1]
    BY <1>1, ConcatProperties
  <2> HIDE DEF s
  <2> QED
    BY <2>1
<1> HIDE DEF s
<1>4. s = [i \in 1 .. 3 |-> s[i]]
  BY <1>2
<1>5. s = <<a, b, c>>
  BY <1>3, <1>4
<1> QED
  BY <1>5 DEF s

LEMMA OneBeforeOne ==
    ASSUME NEW a, NEW b
    PROVE  <<a>> \o <<b>> = <<a, b>>
<1> DEFINE S == {a, b}
           s == <<a>> \o <<b>>
<1>1. <<a>> \in Seq(S) /\ <<b>> \in Seq(S) /\ Len(<<a>>) = 1 /\ Len(<<b>>) = 1
  OBVIOUS
<1>2. s \in Seq(S) /\ Len(s) = 2
  BY <1>1, ConcatProperties
<1>3. s[1] = a /\ s[2] = b
  <2>1. \A i \in 1 .. 1 + 1 : s[i] = IF i <= 1 THEN <<a>>[i] ELSE <<b>>[i - 1]
    BY <1>1, ConcatProperties
  <2> HIDE DEF s
  <2> QED
    BY <2>1
<1> HIDE DEF s
<1>4. s = [i \in 1 .. 2 |-> s[i]]
  BY <1>2
<1>5. s = <<a, b>>
  BY <1>3, <1>4
<1> QED
  BY <1>5 DEF s

LEMMA ConfigOkTells == ASSUME NEW command PROVE Tells(ConfigOK(command), "OK")
BY DEF ConfigOK, Send, BuildDeviceConfigResponse, Answer, ++, Tells, IsResult

LEMMA RejectTells ==
    ASSUME NEW cmd \in {"DeviceControl", "DeviceConfig"}, NEW sn, NEW device
    PROVE  Tells(Send(BuildControlRejectResponse(cmd, sn, device)), "ERROR")
BY DEF Send, BuildControlRejectResponse, Answer, ++, Tells, IsResult

(* No handler takes it: the command is rejected under its name.           *)
LEMMA CommandRejected ==
    ASSUME NEW body, AbsentIsApart, body["CmdType"] \in {"DeviceControl", "DeviceConfig"},
           {"CmdType", "SN", "DeviceID"} \subseteq DOMAIN body
    PROVE  \E sn, device :
              BuildQueryResponse(body, TRUE)
                  = <<BuildControlRejectResponse(body["CmdType"], sn, device)>>
<1> DEFINE q == QueryOf(body["CmdType"], body, AsChild)
<1>1. AsChild["CmdType"] = "CmdType" /\ AsChild["SN"] = "SN" /\ AsChild["DeviceID"] = "DeviceID"
  BY DEF AsChild
<1>2. ParseQueryDual(body) = q
  BY <1>1 DEF ParseQueryDual
<1>3. q.cmd = body["CmdType"] /\ q = [x \in DOMAIN q |-> q[x]]
  BY DEF QueryOf
<1>4. q # Absent
  BY <1>3 DEF AbsentIsApart
<1>5. BuildQueryResponse(body, TRUE) = <<BuildControlRejectResponse(q.cmd, q.sn, q.device)>>
  <2> HIDE DEF q
  <2> QED
    BY <1>2, <1>3, <1>4 DEF BuildQueryResponse, InfoQueries, Rejected
<1> QED
  BY <1>3, <1>5

LEMMA EffectsOfCommand ==
    ASSUME AbsentIsApart, BodiesWellFormed,
           NEW b \in Bodies \cup LaterBodies, NEW sn, NEW body, body = Numbered(b, sn),
           Text(body, "CmdType") \in {"DeviceControl", "DeviceConfig"},
           ~(/\ "control" \in host /\ "upgrade" \notin host
             /\ ParseDeviceControl(body) # Absent
             /\ ParseDeviceControl(body).kind = "DeviceUpgrade")
    PROVE  CommandEffects(MessageEffects(body, TRUE), Text(body, "CmdType"))
<1> DEFINE cmd == Text(body, "CmdType")
           fx  == MessageEffects(body, TRUE)
<1>1. "CmdType" \in DOMAIN body /\ body["CmdType"] = cmd
  BY DEF Text, AbsentIsApart
<1>2. "CmdType" \in DOMAIN b /\ b["CmdType"] = cmd
  BY <1>1 DEF Numbered, ++
<1>3. "DeviceID" \in DOMAIN b /\ "@CmdType" \notin DOMAIN b
  BY <1>2 DEF BodiesWellFormed, Text
<1>4. DOMAIN body = DOMAIN b \cup {"SN"}
  BY <1>3 DEF Numbered, ++
<1>5. ParseBroadcastNotify(body) = Absent
  BY <1>1, <1>3, <1>4 DEF ParseBroadcastNotify
<1>6. ParseConfigSnapshot(body) # Absent => cmd = "DeviceConfig"
  BY DEF ParseConfigSnapshot
<1>7. ParseDeviceControl(body) # Absent => cmd = "DeviceControl"
  BY DEF ParseDeviceControl
<1>8. ParseDeviceConfig(body) # Absent => cmd = "DeviceConfig"
  BY DEF ParseDeviceConfig
<1>9. PICK n, device : BuildQueryResponse(body, TRUE)
                         = <<BuildControlRejectResponse(body["CmdType"], n, device)>>
  BY <1>1, <1>2, <1>3, <1>4, CommandRejected
<1>10. SendAll(BuildQueryResponse(body, TRUE))
          = <<Send(BuildControlRejectResponse(body["CmdType"], n, device))>>
  <2> DEFINE m == BuildControlRejectResponse(body["CmdType"], n, device)
  <2> HIDE DEF m
  <2>1. [i \in DOMAIN <<m>> |-> Send(<<m>>[i])] = [i \in 1 .. 1 |-> Send(m)]
    OBVIOUS
  <2>2. [i \in 1 .. 1 |-> Send(m)] = <<Send(m)>>
    OBVIOUS
  <2>3. SendAll(<<m>>) = <<Send(m)>>
    BY <2>1, <2>2 DEF SendAll
  <2> QED
    BY <1>9, <2>3 DEF m
<1> DEFINE snapshot == ParseConfigSnapshot(body)
           control  == ParseDeviceControl(body)
           config   == ParseDeviceConfig(body)
<1>11. \/ snapshot # Absent /\ fx = SnapshotEffects(snapshot)
       \/ control # Absent /\ fx = UpgradeEffects(control)
       \/ control # Absent /\ control.kind # "DeviceUpgrade" /\ fx = ControlEffects(control)
       \/ config # Absent /\ fx = ConfigEffects(config)
       \/ fx = SendAll(BuildQueryResponse(body, TRUE))
  BY <1>5 DEF MessageEffects
<1>12. CASE snapshot # Absent /\ fx = SnapshotEffects(snapshot)
  <2>1. Spawn("snapshot", snapshot, snapshot.value["SessionID"]).act = "spawn"
    BY DEF Spawn
  <2>2. Tells(ConfigOK(snapshot), "OK")
    BY ConfigOkTells
  <2> QED
    BY <1>6, <1>12, <2>1, <2>2, Zenon DEF SnapshotEffects, CommandEffects
<1>13. CASE control # Absent /\ fx = UpgradeEffects(control)
  <2>1. Spawn("upgrade", control, Text(control.value, "SessionID")).act = "spawn"
    BY DEF Spawn
  <2>2. "spawn" \in {"spawn", "execute"}
    OBVIOUS
  <2> QED
    BY <1>7, <1>13, <2>1, <2>2, Zenon DEF UpgradeEffects, CommandEffects
<1>14. CASE control # Absent /\ control.kind # "DeviceUpgrade" /\ fx = ControlEffects(control)
  <2>1. Execute("control", control).act = "execute" /\ "execute" \in {"spawn", "execute"}
    BY DEF Execute
  <2>2. fx = <<Execute("control", control)>>
    BY <1>14 DEF ControlEffects
  <2> QED
    BY <1>7, <1>14, <2>1, <2>2, Zenon DEF CommandEffects
<1>15. CASE config # Absent /\ fx = ConfigEffects(config)
  <2>1. Execute("config", config).act = "execute"
    BY DEF Execute
  <2>2. Tells(ConfigOK(config), "OK")
    BY ConfigOkTells
  <2> QED
    BY <1>8, <1>15, <2>1, <2>2, Zenon DEF ConfigEffects, CommandEffects
<1>16. CASE fx = SendAll(BuildQueryResponse(body, TRUE))
  <2>1. Tells(Send(BuildControlRejectResponse(body["CmdType"], n, device)), "ERROR")
    BY <1>1, RejectTells
  <2> QED
    BY <1>10, <1>16, <2>1, Zenon DEF CommandEffects
<1> QED
  BY <1>11, <1>12, <1>13, <1>14, <1>15, <1>16

(* Before its first effect a command owes one verdict, and the OK of a    *)
(* configuration only if it is going to be carried out.                   *)
LEMMA DispatchOwes ==
    ASSUME AbsentIsApart, BodiesWellFormed,
           NEW r, r.method = "MESSAGE", r.note, r.manscdp,
           NEW b \in Bodies \cup LaterBodies, NEW sn, r.body = Numbered(b, sn),
           Text(r.body, "CmdType") \in {"DeviceControl", "DeviceConfig"},
           ~(/\ "control" \in host /\ "upgrade" \notin host
             /\ ParseDeviceControl(r.body) # Absent
             /\ ParseDeviceControl(r.body).kind = "DeviceUpgrade")
    PROVE  LET todo == Dispatch(r)
           IN  /\ Orderly(todo) /\ todo # <<>>
               /\ Carrying(todo) + Telling(todo, "ERROR") = 1
               /\ Telling(todo, "OK")
                      = IF Text(r.body, "CmdType") = "DeviceConfig" THEN Carrying(todo) ELSE 0
<1> DEFINE fx  == MessageEffects(r.body, TRUE)
           cmd == Text(r.body, "CmdType")
<1>1. CommandEffects(fx, cmd)
  BY EffectsOfCommand
<1>2. Dispatch(r) = <<Final(200)>> \o fx
  BY DEF Dispatch
<1>3. Final(200).act = "send" /\ Final(200).message.kind = "final"
  BY DEF Final, Send
<1> HIDE DEF fx, cmd
<1>4. ASSUME NEW e, NEW f, fx = <<e, f>>
      PROVE  Dispatch(r) = <<Final(200), e, f>>
  BY <1>2, <1>4, OneBeforeTwo
<1>5. ASSUME NEW e, fx = <<e>>
      PROVE  Dispatch(r) = <<Final(200), e>>
  BY <1>2, <1>5, OneBeforeOne
<1> DEFINE todo == Dispatch(r)
<1> HIDE DEF todo
<1>6. CASE cmd = "DeviceConfig"
           /\ \E e, f : fx = <<e, f>> /\ Tells(e, "OK") /\ f.act = "spawn"
  <2>1. PICK e, f : fx = <<e, f>> /\ Tells(e, "OK") /\ f.act = "spawn"
    BY <1>6
  <2>2. todo = <<Final(200), e, f>>
    BY <1>4, <2>1 DEF todo
  <2>3. QED
    BY <1>3, <1>6, <2>1, <2>2
       DEF Orderly, Carrying, Telling, CarriesOut, Tells, IsResult, One, todo, cmd
<1>7. CASE cmd = "DeviceConfig"
           /\ \E e, f : fx = <<e, f>> /\ e.act = "execute" /\ Tells(f, "OK")
  <2>1. PICK e, f : fx = <<e, f>> /\ e.act = "execute" /\ Tells(f, "OK")
    BY <1>7
  <2>2. todo = <<Final(200), e, f>>
    BY <1>4, <2>1 DEF todo
  <2>3. QED
    BY <1>3, <1>7, <2>1, <2>2
       DEF Orderly, Carrying, Telling, CarriesOut, Tells, IsResult, One, todo, cmd
<1>8. CASE cmd = "DeviceControl"
           /\ \E e : fx = <<e>> /\ e.act \in {"spawn", "execute"}
  <2>1. PICK e : fx = <<e>> /\ e.act \in {"spawn", "execute"}
    BY <1>8
  <2>2. todo = <<Final(200), e>>
    BY <1>5, <2>1 DEF todo
  <2>3. QED
    BY <1>3, <1>8, <2>1, <2>2
       DEF Orderly, Carrying, Telling, CarriesOut, Tells, IsResult, One, todo, cmd
<1>9. CASE \E e : fx = <<e>> /\ Tells(e, "ERROR")
  <2>1. PICK e : fx = <<e>> /\ Tells(e, "ERROR")
    BY <1>9
  <2>2. todo = <<Final(200), e>>
    BY <1>5, <2>1 DEF todo
  <2>3. QED
    BY <1>3, <2>1, <2>2
       DEF Orderly, Carrying, Telling, CarriesOut, Tells, IsResult, One, todo, cmd
<1> QED
  BY <1>1, <1>6, <1>7, <1>8, <1>9, Zenon DEF CommandEffects

(* What appending does to it.                                             *)
LEMMA ListGrows ==
    ASSUME NEW s, IsList(s), NEW e
    PROVE  LET t == Append(s, e)
           IN  /\ IsList(t)
               /\ Len(s) \in Nat /\ DOMAIN s = 1 .. Len(s) /\ DOMAIN t = 1 .. Len(s) + 1
               /\ \A i \in 1 .. Len(s) : t[i] = s[i]
               /\ t[Len(s) + 1] = e
               /\ t = s \o <<e>>
<1> DEFINE S == {s[i] : i \in DOMAIN s} \cup {e}
           t == Append(s, e)
<1>1. s \in Seq(S) /\ Len(s) \in Nat /\ DOMAIN s = 1 .. Len(s)
  <2>1. s \in Seq({s[i] : i \in DOMAIN s})
    BY DEF IsList
  <2>2. Len(s) \in Nat /\ DOMAIN s = 1 .. Len(s)
    BY <2>1
  <2>3. \A i \in 1 .. Len(s) : s[i] \in S
    BY <2>2
  <2>4. s = [i \in 1 .. Len(s) |-> s[i]]
    BY <2>1
  <2> QED
    BY <2>2, <2>3, <2>4
<1>2. /\ t \in Seq(S) /\ Len(t) = Len(s) + 1
      /\ \A i \in 1 .. Len(s) : t[i] = s[i]
      /\ t[Len(s) + 1] = e
  BY <1>1, AppendProperties
<1>3. t = s \o <<e>>
  BY <1>1, AppendIsConcat
<1>4. DOMAIN t = 1 .. Len(s) + 1 /\ t = [i \in 1 .. Len(s) + 1 |-> t[i]]
  <2> HIDE DEF t
  <2> QED
    BY <1>2
<1>5. IsList(t)
  <2> HIDE DEF t
  <2> QED
    BY <1>1, <1>4 DEF IsList
<1> QED
  BY <1>1, <1>2, <1>3, <1>4, <1>5

(* A place past the end counts once.                                      *)
LEMMA OneMorePlace ==
    ASSUME NEW n \in Nat, NEW A, A \subseteq 1 .. n
    PROVE  /\ Cardinality(A) \in Nat
           /\ Cardinality(A \cup {n + 1}) = Cardinality(A) + 1
<1>1. IsFiniteSet(1 .. n)
  BY FS_Interval
<1>2. IsFiniteSet(A)
  BY <1>1, FS_Subset
<1>3. n + 1 \notin A
  OBVIOUS
<1> QED
  BY <1>2, <1>3, FS_CardinalityType, FS_AddElement

LEMMA ExecutionsGrow ==
    ASSUME IsList(executed), NEW e, executed' = Append(executed, e), NEW id
    PROVE  Executions(id) \in Nat /\ Executions(id)' = Executions(id) + One(e.about = id)
<1> DEFINE A == {i \in DOMAIN executed : executed[i].about = id}
           n == Len(executed)
<1>1. /\ n \in Nat /\ DOMAIN executed = 1 .. n /\ DOMAIN executed' = 1 .. n + 1
      /\ \A i \in 1 .. n : executed'[i] = executed[i]
      /\ executed'[n + 1] = e
  BY ListGrows
<1>2. A' = IF e.about = id THEN A \cup {n + 1} ELSE A
  <2> HIDE DEF n
  <2> QED
    BY <1>1
<1>3. Cardinality(A) \in Nat /\ Cardinality(A \cup {n + 1}) = Cardinality(A) + 1
  <2>1. A \subseteq 1 .. n
    BY <1>1
  <2> HIDE DEF A, n
  <2> QED
    BY <1>1, <2>1, OneMorePlace
<1>4. Executions(id) = Cardinality(A) /\ Executions(id)' = Cardinality(A')
  BY DEF Executions
<1> HIDE DEF A
<1> QED
  BY <1>2, <1>3, <1>4 DEF One

LEMMA MessagesGrowBy ==
    ASSUME IsList(sent), NEW e, sent' = Append(sent, e), NEW id, NEW r
    PROVE  /\ Results(id, r) \in Nat /\ Reports(id) \in Nat
           /\ Results(id, r)' = Results(id, r) + One(e.about = id /\ IsResult(e.message, r))
           /\ Reports(id)' = Reports(id) + One(e.about = id /\ e.message.kind = "notify")
<1> DEFINE A == {i \in DOMAIN sent : sent[i].about = id /\ IsResult(sent[i].message, r)}
           B == {i \in DOMAIN sent : sent[i].about = id /\ sent[i].message.kind = "notify"}
           n == Len(sent)
<1>1. /\ n \in Nat /\ DOMAIN sent = 1 .. n /\ DOMAIN sent' = 1 .. n + 1
      /\ \A i \in 1 .. n : sent'[i] = sent[i]
      /\ sent'[n + 1] = e
  BY ListGrows
<1>2. /\ A' = IF e.about = id /\ IsResult(e.message, r) THEN A \cup {n + 1} ELSE A
      /\ B' = IF e.about = id /\ e.message.kind = "notify" THEN B \cup {n + 1} ELSE B
  <2> HIDE DEF n
  <2> QED
    BY <1>1 DEF IsResult
<1>3. /\ Cardinality(A) \in Nat /\ Cardinality(A \cup {n + 1}) = Cardinality(A) + 1
      /\ Cardinality(B) \in Nat /\ Cardinality(B \cup {n + 1}) = Cardinality(B) + 1
  <2>1. A \subseteq 1 .. n /\ B \subseteq 1 .. n
    BY <1>1
  <2> HIDE DEF A, B, n
  <2> QED
    BY <1>1, <2>1, OneMorePlace
<1>4. /\ Results(id, r) = Cardinality(A) /\ Results(id, r)' = Cardinality(A')
      /\ Reports(id) = Cardinality(B) /\ Reports(id)' = Cardinality(B')
  BY DEF Results, Reports
<1> HIDE DEF A, B
<1> QED
  BY <1>2, <1>3, <1>4 DEF One

LEMMA CountsTyped ==
    ASSUME RequestsTyped, NEW id, NEW r
    PROVE  /\ Executions(id) \in Nat /\ Results(id, r) \in Nat /\ Reports(id) \in Nat
           /\ Underway(id) \in Nat
<1>1. IsList(executed) /\ IsList(sent) /\ IsFiniteSet(tasks)
  BY DEF RequestsTyped
<1>2. /\ DOMAIN sent = 1 .. Len(sent) /\ Len(sent) \in Nat
      /\ DOMAIN executed = 1 .. Len(executed) /\ Len(executed) \in Nat
  BY <1>1, ListGrows
<1>3. /\ {i \in DOMAIN executed : executed[i].about = id} \subseteq 1 .. Len(executed)
      /\ {i \in DOMAIN sent : sent[i].about = id /\ IsResult(sent[i].message, r)}
             \subseteq 1 .. Len(sent)
      /\ {i \in DOMAIN sent : sent[i].about = id /\ sent[i].message.kind = "notify"}
             \subseteq 1 .. Len(sent)
  BY <1>2
<1>4. Cardinality({t \in tasks : t.about = id}) \in Nat
  BY <1>1, FS_Subset, FS_CardinalityType
<1> QED
  BY <1>2, <1>3, <1>4, OneMorePlace DEF Executions, Results, Reports, Underway

(* Taking the first effect of a command.                                  *)
Remaining(todo) == IF Len(todo) = 1 THEN <<>> ELSE Tail(todo)

LEMMA FirstEffect ==
    ASSUME NEW todo, Orderly(todo), todo # <<>>
    PROVE  LET rest == Remaining(todo)
           IN  /\ Head(todo) = todo[1] /\ 1 \in DOMAIN todo
               /\ Orderly(rest)
               /\ Len(todo) # 1 => Tail(todo) # <<>>
               /\ Carrying(todo) = One(CarriesOut(todo[1])) + Carrying(rest)
               /\ \A r : Telling(todo, r) = One(Tells(todo[1], r)) + Telling(rest, r)
               /\ \A i \in DOMAIN rest : \E j \in DOMAIN todo : j > 1 /\ rest[i] = todo[j]
               /\ CarriesOut(todo[1]) => \A i \in DOMAIN rest : ~CarriesOut(rest[i])
<1>1. PICK n \in 0 .. 3 : todo = [i \in 1 .. n |-> todo[i]]
  BY DEF Orderly
<1>2. n # 0
  BY <1>1
<1>3. CASE n = 1
  <2>1. todo = <<todo[1]>>
    BY <1>1, <1>3
  <2>2. PICK a : todo = <<a>>
    BY <2>1, Zenon
  <2>3. /\ Remaining(todo) = <<>> /\ Head(todo) = a /\ todo[1] = a
        /\ DOMAIN todo = 1 .. 1 /\ Len(todo) = 1
    BY <2>2 DEF Remaining
  <2>4. Orderly(<<>>)
    BY <2>2 DEF Orderly, Carrying, One
  <2>5. /\ Carrying(todo) = One(CarriesOut(a))
        /\ Carrying(<<>>) = 0
    BY <2>2 DEF Carrying, One
  <2>6. ASSUME NEW r
        PROVE  /\ Telling(todo, r) = One(Tells(a, r))
               /\ Telling(<<>>, r) = 0
    BY <2>2 DEF Telling, One
  <2>7. \A i \in DOMAIN <<>> : \E j \in DOMAIN todo : j > 1 /\ <<>>[i] = todo[j]
    BY <2>2
  <2>8. CarriesOut(a) => \A i \in DOMAIN <<>> : ~CarriesOut(<<>>[i])
    OBVIOUS
  <2> QED
    BY <2>3, <2>4, <2>5, <2>6, <2>7, <2>8 DEF One
<1>4. CASE n = 2
  <2>1. todo = <<todo[1], todo[2]>>
    BY <1>1, <1>4
  <2>2. PICK a, b : todo = <<a, b>>
    BY <2>1, Zenon
  <2>3. /\ Remaining(todo) = <<b>> /\ Head(todo) = a /\ todo[1] = a
        /\ DOMAIN todo = 1 .. 2 /\ Len(todo) = 2 /\ Tail(todo) = <<b>>
    BY <2>2 DEF Remaining
  <2>4. Orderly(<<b>>)
    BY <2>2 DEF Orderly, Carrying, One
  <2>5. /\ Carrying(todo) = One(CarriesOut(a)) + One(CarriesOut(b))
        /\ Carrying(<<b>>) = One(CarriesOut(b))
    BY <2>2 DEF Carrying, One
  <2>6. ASSUME NEW r
        PROVE  /\ Telling(todo, r) = One(Tells(a, r)) + One(Tells(b, r))
               /\ Telling(<<b>>, r) = One(Tells(b, r))
    BY <2>2 DEF Telling, One
  <2>7. \A i \in DOMAIN <<b>> : \E j \in DOMAIN todo : j > 1 /\ <<b>>[i] = todo[j]
    BY <2>2
  <2>8. CarriesOut(a) => \A i \in DOMAIN <<b>> : ~CarriesOut(<<b>>[i])
    BY <2>2, <2>5 DEF Orderly, One
  <2> QED
    BY <2>3, <2>4, <2>5, <2>6, <2>7, <2>8 DEF One
<1>5. CASE n = 3
  <2>1. todo = <<todo[1], todo[2], todo[3]>>
    BY <1>1, <1>5
  <2>2. PICK a, b, c : todo = <<a, b, c>>
    BY <2>1, Zenon
  <2>3. /\ Remaining(todo) = <<b, c>> /\ Head(todo) = a /\ todo[1] = a
        /\ DOMAIN todo = 1 .. 3 /\ Len(todo) = 3 /\ Tail(todo) = <<b, c>>
    BY <2>2 DEF Remaining
  <2>4. Orderly(<<b, c>>)
    BY <2>2 DEF Orderly, Carrying, One
  <2>5. /\ Carrying(todo) = One(CarriesOut(a)) + One(CarriesOut(b)) + One(CarriesOut(c))
        /\ Carrying(<<b, c>>) = One(CarriesOut(b)) + One(CarriesOut(c))
    BY <2>2 DEF Carrying, One
  <2>6. ASSUME NEW r
        PROVE  /\ Telling(todo, r) = One(Tells(a, r)) + One(Tells(b, r)) + One(Tells(c, r))
               /\ Telling(<<b, c>>, r) = One(Tells(b, r)) + One(Tells(c, r))
    BY <2>2 DEF Telling, One
  <2>7. \A i \in DOMAIN <<b, c>> : \E j \in DOMAIN todo : j > 1 /\ <<b, c>>[i] = todo[j]
    BY <2>2
  <2>8. CarriesOut(a) => \A i \in DOMAIN <<b, c>> : ~CarriesOut(<<b, c>>[i])
    <3>1. Carrying(todo) <= 1
      BY DEF Orderly
    <3>2. CarriesOut(a) => ~CarriesOut(b) /\ ~CarriesOut(c)
      BY <2>5, <3>1 DEF One
    <3>3. \A i \in DOMAIN <<b, c>> : <<b, c>>[i] = b \/ <<b, c>>[i] = c
      OBVIOUS
    <3> QED
      BY <3>2, <3>3, Zenon
  <2> QED
    <3>1. Carrying(todo) = One(CarriesOut(a)) + Carrying(<<b, c>>)
      BY <2>5 DEF One
    <3>2. \A r : Telling(todo, r) = One(Tells(a, r)) + Telling(<<b, c>>, r)
      BY <2>6 DEF One
    <3> QED
      BY <2>3, <2>4, <2>7, <2>8, <3>1, <3>2
<1> QED
  BY <1>2, <1>3, <1>4, <1>5

(* What a step leaves of a command's claims and account.                  *)
LEMMA OwingStays ==
    ASSUME NEW id, received'[id] = received[id], UNCHANGED host,
           cut \subseteq cut', lost \subseteq lost'
    PROVE  (Owing(id)' => Owing(id)) /\ Cmd(id)' = Cmd(id)
BY DEF Owing, Unserved, Cmd

LEMMA BalancedStays ==
    ASSUME NEW id, Balanced(id), Ahead(id)' = Ahead(id), copies'[id] = copies[id],
           handler'.about # id \/ UNCHANGED handler,
           Executions(id)' = Executions(id), Reports(id)' = Reports(id),
           \A r : Results(id, r)' = Results(id, r),
           {t \in tasks : t.about = id}' = {t \in tasks : t.about = id},
           Cmd(id)' = Cmd(id)
    PROVE  Balanced(id)'
<1>1. Underway(id)' = Underway(id)
  BY DEF Underway
<1>2. Carried(id)' = Carried(id)
  BY <1>1 DEF Carried
<1>3. Results(id, "OK")' = Results(id, "OK") /\ Results(id, "ERROR")' = Results(id, "ERROR")
  OBVIOUS
<1>4. Orderly(Ahead(id))' /\ Carrying(Ahead(id))' = Carrying(Ahead(id))
      /\ Telling(Ahead(id), "OK")' = Telling(Ahead(id), "OK")
      /\ Telling(Ahead(id), "ERROR")' = Telling(Ahead(id), "ERROR")
  BY DEF Balanced, Orderly, Carrying, Telling, CarriesOut, Tells, IsResult, One
<1>5. Accounted(id)'
  BY <1>2, <1>3, <1>4 DEF Balanced, Accounted
<1>6. SpawnsOnce(id)'
  <2>1. \A t \in tasks' : t.about = id => t \in tasks
    OBVIOUS
  <2> QED
    BY <2>1 DEF Balanced, SpawnsOnce
<1> QED
  BY <1>4, <1>5, <1>6 DEF Balanced

(* Nothing counts for a request before it comes.                          *)
LEMMA NothingYet ==
    ASSUME RequestsTyped, NEW id, id \notin Id
    PROVE  /\ Executions(id) = 0 /\ Reports(id) = 0 /\ Underway(id) = 0
           /\ \A r : Results(id, r) = 0
<1>1. /\ {i \in DOMAIN executed : executed[i].about = id} = {}
      /\ {i \in DOMAIN sent : sent[i].about = id /\ sent[i].message.kind = "notify"} = {}
      /\ {t \in tasks : t.about = id} = {}
      /\ \A r : {i \in DOMAIN sent : sent[i].about = id /\ IsResult(sent[i].message, r)} = {}
  BY DEF RequestsTyped
<1> QED
  BY <1>1, FS_EmptySet DEF Executions, Reports, Underway, Results

LEMMA IdleAhead ==
    ASSUME RequestsTyped, handler = Idle, NEW id \in Id
    PROVE  Ahead(id) = <<>> /\ Carrying(<<>>) = 0 /\ \A r : Telling(<<>>, r) = 0
<1>1. handler.about = 0 /\ id # 0
  <2>1. Len(received) \in Nat
    BY ListGrows DEF RequestsTyped
  <2> QED
    BY <2>1 DEF Idle, Id
<1>2. Carrying(<<>>) = 0 /\ \A r : Telling(<<>>, r) = 0
  BY DEF Carrying, Telling, One
<1> QED
  BY <1>1, <1>2 DEF Ahead

(* What a new request adds.                                               *)
LEMMA ReceiveAppends ==
    ASSUME RequestsTyped, NEW body, NEW method, NEW note, NEW manscdp,
           Receive(body, method, note, manscdp),
           NEW n, n = Len(received), NEW request,
           request = [body |-> Numbered(body, n + 1), method |-> method, note |-> note,
                      manscdp |-> manscdp]
    PROVE  /\ n \in Nat /\ Id = 1 .. n /\ Id' = 1 .. n + 1
           /\ handler = Idle /\ handler' = [about |-> n + 1, todo |-> Dispatch(request)]
           /\ UNCHANGED <<host, tasks, sent, executed, cut, lost>>
           /\ IsList(received') /\ \A i \in 1 .. n : received'[i] = received[i]
           /\ received'[n + 1] = request
           /\ copies' \in [Id' -> Nat \ {0}] /\ copies'[n + 1] = 1
           /\ \A i \in 1 .. n : copies'[i] = copies[i]
<1>0. n \in Nat /\ IsList(received)
  BY ListGrows DEF RequestsTyped
<1>1. /\ handler = Idle /\ received' = Append(received, request) /\ copies' = Append(copies, 1)
      /\ handler' = [about |-> n + 1, todo |-> Dispatch(request)]
      /\ UNCHANGED <<host, tasks, sent, executed, cut, lost>>
  BY DEF Receive, Takes
<1>2. /\ IsList(received') /\ DOMAIN received' = 1 .. n + 1 /\ Len(received') = n + 1
      /\ \A i \in 1 .. n : received'[i] = received[i]
      /\ received'[n + 1] = request
  <2>1. received' \in Seq({received'[i] : i \in DOMAIN received'})
    <3>1. IsList(Append(received, request))
      BY <1>0, ListGrows
    <3> QED
      BY <1>1, <3>1 DEF IsList
  <2>2. DOMAIN received' = 1 .. Len(received')
    BY <2>1
  <2> QED
    BY <1>0, <1>1, <2>1, <2>2, ListGrows DEF IsList
<1>3. /\ Id = 1 .. n /\ Id' = 1 .. n + 1
  BY <1>0, <1>2 DEF Id
<1>4. /\ copies' \in [Id' -> Nat \ {0}] /\ copies'[n + 1] = 1
      /\ \A i \in 1 .. n : copies'[i] = copies[i]
  <2>1. copies \in Seq(Nat \ {0}) /\ Len(copies) = n
    BY <1>0, <1>3 DEF RequestsTyped
  <2>2. 1 \in Nat \ {0}
    OBVIOUS
  <2>3. /\ copies' \in Seq(Nat \ {0}) /\ Len(copies') = n + 1
        /\ \A i \in 1 .. n : copies'[i] = copies[i]
        /\ copies'[n + 1] = 1
    BY <1>1, <2>1, <2>2, AppendProperties
  <2>4. copies' \in [1 .. n + 1 -> Nat \ {0}]
    BY <2>3
  <2> QED
    BY <1>3, <2>3, <2>4
<1> QED
  BY <1>0, <1>1, <1>2, <1>3, <1>4

LEMMA ReceiveKeeps ==
    ASSUME VerdictInv, AbsentIsApart, BodiesWellFormed, NEW body, NEW method, NEW note,
           NEW manscdp, method = "MESSAGE" => body \in Bodies \cup LaterBodies,
           Receive(body, method, note, manscdp)
    PROVE  VerdictInv'
<1>1. PICK n : n = Len(received)
  OBVIOUS
<1> DEFINE request == [body |-> Numbered(body, n + 1), method |-> method, note |-> note,
                       manscdp |-> manscdp]
<1>2. RequestsTyped /\ request = [body |-> Numbered(body, n + 1), method |-> method,
                                 note |-> note, manscdp |-> manscdp]
  BY DEF VerdictInv
<1> HIDE DEF request
<1>3. /\ n \in Nat /\ Id = 1 .. n /\ Id' = 1 .. n + 1
      /\ handler = Idle /\ handler' = [about |-> n + 1, todo |-> Dispatch(request)]
      /\ UNCHANGED <<host, tasks, sent, executed, cut, lost>>
  BY <1>1, <1>2, ReceiveAppends
<1>4. /\ IsList(received') /\ received'[n + 1] = request
      /\ \A i \in 1 .. n : received'[i] = received[i]
  BY <1>1, <1>2, ReceiveAppends
<1>5. n \in Nat /\ Id = 1 .. n /\ Id' = 1 .. n + 1
  BY <1>3
<1>6. /\ copies' \in [Id' -> Nat \ {0}] /\ copies'[n + 1] = 1
      /\ \A i \in 1 .. n : copies'[i] = copies[i]
  BY <1>1, <1>2, ReceiveAppends
<1>7. RequestsTyped'
  <2>1. \A id \in Id : id \in Id' /\ copies'[id] = copies[id]
    BY <1>5, <1>6
  <2>2. handler' = [about |-> handler'.about, todo |-> handler'.todo] /\ handler'.about \in Id'
    BY <1>3, <1>5
  <2>3. /\ IsList(executed)' /\ IsList(sent)' /\ IsFiniteSet(tasks')
        /\ cut' \subseteq Id' /\ lost' \subseteq Id'
    BY <1>3, <2>1 DEF VerdictInv, RequestsTyped, IsList
  <2>4. \A t \in tasks' : t.about \in Id' /\ t.copy \in 1 .. copies'[t.about]
    BY <1>3, <2>1 DEF VerdictInv, RequestsTyped
  <2>5. /\ \A i \in DOMAIN sent' : sent'[i].about \in Id'
        /\ \A i \in DOMAIN executed' : executed'[i].about \in Id'
    BY <1>3, <2>1 DEF VerdictInv, RequestsTyped
  <2>6. IsList(received)'
    BY <1>4 DEF IsList
  <2> QED
    BY <1>6, <2>2, <2>3, <2>4, <2>5, <2>6 DEF RequestsTyped
<1>8. BodiesKnown'
  BY <1>4, <1>5 DEF VerdictInv, BodiesKnown, request
<1>9. ASSUME NEW id \in 1 .. n, Owing(id)'
      PROVE  Balanced(id)'
  <2>1. Owing(id) /\ Cmd(id)' = Cmd(id)
    BY <1>3, <1>4, <1>9, OwingStays
  <2>2. Balanced(id)
    BY <1>5, <2>1 DEF VerdictInv
  <2>3. Ahead(id)' = Ahead(id) /\ handler'.about # id
    BY <1>3, <1>4, <1>5, IdleAhead DEF VerdictInv, Ahead
  <2> QED
    BY <1>3, <1>6, <2>1, <2>2, <2>3, BalancedStays DEF Executions, Reports, Results
<1>10. ASSUME Owing(n + 1)'
      PROVE  Balanced(n + 1)'
  <2> DEFINE todo == Dispatch(request)
             cmd  == Text(request.body, "CmdType")
  <2>1. /\ request.method = "MESSAGE" /\ request.note /\ request.manscdp
        /\ cmd \in {"DeviceControl", "DeviceConfig"} /\ Cmd(n + 1)' = cmd
        /\ ~(/\ "control" \in host /\ "upgrade" \notin host
             /\ ParseDeviceControl(request.body) # Absent
             /\ ParseDeviceControl(request.body).kind = "DeviceUpgrade")
    BY <1>3, <1>4, <1>10 DEF Owing, Cmd, Unserved
  <2>2. body \in Bodies \cup LaterBodies /\ request.body = Numbered(body, n + 1)
    BY <2>1 DEF request
  <2>3. /\ Orderly(todo) /\ todo # <<>>
        /\ Carrying(todo) + Telling(todo, "ERROR") = 1
        /\ Telling(todo, "OK") = IF cmd = "DeviceConfig" THEN Carrying(todo) ELSE 0
    BY <2>1, <2>2, DispatchOwes
  <2>4. Ahead(n + 1)' = todo /\ handler'.todo = todo
    BY <1>3 DEF Ahead
  <2> HIDE DEF todo, cmd
  <2>5. n + 1 \notin Id
    BY <1>4, <1>5
  <2>6. /\ Executions(n + 1) = 0 /\ Reports(n + 1) = 0 /\ Underway(n + 1) = 0
        /\ \A r : Results(n + 1, r) = 0
    BY <2>5, NothingYet DEF VerdictInv
  <2>7. /\ Executions(n + 1)' = 0 /\ Reports(n + 1)' = 0 /\ Underway(n + 1)' = 0
        /\ Results(n + 1, "OK")' = 0 /\ Results(n + 1, "ERROR")' = 0
    BY <1>3, <2>6 DEF Executions, Reports, Underway, Results
  <2>8. SpawnsOnce(n + 1)'
    BY <1>3, <2>5 DEF SpawnsOnce, VerdictInv, RequestsTyped
  <2>9. Carrying(todo) \in Nat
    BY DEF Carrying, One
  <2>10. /\ Orderly(Ahead(n + 1))' /\ Carrying(Ahead(n + 1))' = Carrying(todo)
         /\ Telling(Ahead(n + 1), "OK")' = Telling(todo, "OK")
         /\ Telling(Ahead(n + 1), "ERROR")' = Telling(todo, "ERROR")
    <3>1. Orderly(Ahead(n + 1))'
      BY <2>3, <2>4 DEF Orderly, Carrying, CarriesOut, One
    <3>2. Carrying(Ahead(n + 1))' = Carrying(todo)
      BY <2>4 DEF Carrying, CarriesOut, One
    <3>3. /\ Telling(Ahead(n + 1), "OK")' = Telling(todo, "OK")
          /\ Telling(Ahead(n + 1), "ERROR")' = Telling(todo, "ERROR")
      BY <2>4 DEF Telling, Tells, IsResult, One
    <3> QED
      BY <3>1, <3>2, <3>3
  <2>11. Accounted(n + 1)'
    BY <1>6, <2>1, <2>3, <2>7, <2>9, <2>10 DEF Accounted, Carried
  <2> QED
    BY <2>3, <2>4, <2>8, <2>10, <2>11 DEF Balanced
<1> QED
  <2>1. \A id \in Id' : id \in 1 .. n \/ id = n + 1
    BY <1>4, <1>5
  <2> QED
    BY <1>7, <1>8, <1>9, <1>10, <2>1 DEF VerdictInv

LEMMA ReceiveAgainKeeps ==
    ASSUME VerdictInv, AbsentIsApart, BodiesWellFormed, NEW re \in Id, ReceiveAgain(re)
    PROVE  VerdictInv'
<1>1. /\ handler = Idle /\ copies' = [copies EXCEPT ![re] = @ + 1]
      /\ handler' = [about |-> re, todo |-> Dispatch(received[re])]
      /\ UNCHANGED <<host, received, tasks, sent, executed, cut, lost>>
  BY DEF ReceiveAgain, Takes
<1>2. Id' = Id
  BY <1>1 DEF Id
<1>3. /\ copies' \in [Id -> Nat \ {0}] /\ copies'[re] = copies[re] + 1
      /\ \A i \in Id : i # re => copies'[i] = copies[i]
  BY <1>1 DEF VerdictInv, RequestsTyped
<1>4. \A t \in tasks : t.about \in Id /\ t.copy \in 1 .. copies[t.about]
  BY DEF VerdictInv, RequestsTyped
<1>5. RequestsTyped'
  <2>1. \A t \in tasks' : t.about \in Id' /\ t.copy \in 1 .. copies'[t.about]
    <3> SUFFICES ASSUME NEW t \in tasks
                 PROVE  t.copy \in 1 .. copies'[t.about]
      BY <1>1, <1>2, <1>4
    <3>1. copies'[t.about] \in Nat /\ copies'[t.about] >= copies[t.about] /\ copies[t.about] \in Nat
      BY <1>3, <1>4 DEF VerdictInv, RequestsTyped
    <3> QED
      BY <1>4, <3>1
  <2>2. handler' = [about |-> handler'.about, todo |-> handler'.todo] /\ handler'.about \in Id'
    BY <1>1, <1>2
  <2> QED
    BY <1>1, <1>2, <1>3, <2>1, <2>2 DEF VerdictInv, RequestsTyped, IsList
<1>6. BodiesKnown'
  BY <1>1, <1>2 DEF VerdictInv, BodiesKnown
<1>7. ASSUME NEW id \in Id, id # re, Owing(id)'
      PROVE  Balanced(id)'
  <2>1. Owing(id) /\ Cmd(id)' = Cmd(id)
    BY <1>1, <1>7, OwingStays
  <2>2. Balanced(id)
    BY <2>1 DEF VerdictInv
  <2>3. Ahead(id)' = Ahead(id) /\ handler'.about # id
    BY <1>1, <1>7, IdleAhead DEF VerdictInv, Ahead
  <2> QED
    BY <1>1, <1>3, <1>7, <2>1, <2>2, <2>3, BalancedStays DEF Executions, Reports, Results
<1>8. ASSUME Owing(re)'
      PROVE  Balanced(re)'
  <2> DEFINE todo == Dispatch(received[re])
             cmd  == Cmd(re)
  <2>1. Owing(re) /\ Cmd(re)' = Cmd(re)
    BY <1>1, <1>8, OwingStays
  <2>2. Balanced(re) /\ Ahead(re) = <<>>
    BY <1>1, <2>1, IdleAhead DEF VerdictInv
  <2>3. /\ Carried(re) + Results(re, "ERROR") = copies[re]
        /\ Results(re, "OK") = IF cmd = "DeviceConfig" THEN Carried(re) ELSE 0
    <3>1. /\ Carrying(<<>>) = 0 /\ Telling(<<>>, "ERROR") = 0 /\ Telling(<<>>, "OK") = 0
          /\ Carried(re) \in Nat /\ Results(re, "ERROR") \in Nat /\ Results(re, "OK") \in Nat
      BY <1>1, IdleAhead, CountsTyped DEF VerdictInv, Carried
    <3> QED
      BY <2>2, <3>1 DEF Balanced, Accounted
  <2>4. PICK b \in Bodies \cup LaterBodies : received[re].body = Numbered(b, re)
    BY <2>1 DEF VerdictInv, BodiesKnown, Owing
  <2>5. /\ Orderly(todo) /\ todo # <<>>
        /\ Carrying(todo) + Telling(todo, "ERROR") = 1
        /\ Telling(todo, "OK") = IF cmd = "DeviceConfig" THEN Carrying(todo) ELSE 0
    <3> HIDE DEF todo
    <3>1. /\ received[re].method = "MESSAGE" /\ received[re].note /\ received[re].manscdp
          /\ Text(received[re].body, "CmdType") \in {"DeviceControl", "DeviceConfig"}
          /\ ~(/\ "control" \in host /\ "upgrade" \notin host
               /\ ParseDeviceControl(received[re].body) # Absent
               /\ ParseDeviceControl(received[re].body).kind = "DeviceUpgrade")
      BY <2>1 DEF Owing, Cmd, Unserved
    <3> QED
      BY <2>4, <3>1, DispatchOwes DEF todo, Cmd
  <2>6. Ahead(re)' = todo /\ handler'.todo = todo /\ handler'.about = re
    BY <1>1 DEF Ahead
  <2> HIDE DEF todo, cmd
  <2>7. /\ Executions(re)' = Executions(re) /\ Reports(re)' = Reports(re)
        /\ Underway(re)' = Underway(re) /\ Carried(re)' = Carried(re)
        /\ Results(re, "OK")' = Results(re, "OK") /\ Results(re, "ERROR")' = Results(re, "ERROR")
    BY <1>1 DEF Executions, Reports, Underway, Results, Carried
  <2>8. SpawnsOnce(re)'
    <3>1. \A t \in tasks' : t.about = re => t.copy # copies'[re]
      BY <1>1, <1>3, <1>4 DEF VerdictInv, RequestsTyped
    <3> QED
      BY <3>1 DEF SpawnsOnce
  <2>9. /\ Carrying(todo) \in Nat /\ Telling(todo, "ERROR") \in Nat
        /\ Carried(re) \in Nat /\ Results(re, "OK") \in Nat /\ Results(re, "ERROR") \in Nat
    BY CountsTyped DEF Carrying, Telling, One, VerdictInv, Carried
  <2>10. /\ Orderly(Ahead(re))' /\ Carrying(Ahead(re))' = Carrying(todo)
         /\ Telling(Ahead(re), "OK")' = Telling(todo, "OK")
         /\ Telling(Ahead(re), "ERROR")' = Telling(todo, "ERROR")
    BY <2>5, <2>6 DEF Orderly, Carrying, Telling, CarriesOut, Tells, IsResult, One
  <2>11. Accounted(re)'
    BY <1>3, <2>1, <2>3, <2>5, <2>7, <2>9, <2>10 DEF Accounted, cmd
  <2> QED
    BY <2>5, <2>6, <2>8, <2>10, <2>11 DEF Balanced
<1> QED
  BY <1>2, <1>5, <1>6, <1>7, <1>8 DEF VerdictInv

(* The handler after an effect.                                           *)
LEMMA RestOfHandler ==
    ASSUME RequestsTyped, handler # Idle, handler' = Rest, UNCHANGED received
    PROVE  /\ handler.about \in Id
           /\ handler' = [about |-> handler'.about, todo |-> handler'.todo]
           /\ handler' = Idle \/ handler'.about \in Id'
           /\ \A id \in Id : id # handler.about => handler'.about # id
           /\ \A id \in Id : id # handler.about => Ahead(id) = <<>> /\ Ahead(id)' = <<>>
           /\ Ahead(handler.about) = handler.todo
<1>1. handler.about \in Id /\ handler = [about |-> handler.about, todo |-> handler.todo]
  BY DEF RequestsTyped
<1>2. 0 \notin Id /\ Id' = Id
  BY ListGrows DEF RequestsTyped, Id
<1>3. CASE Len(handler.todo) = 1
  <2>1. handler' = Idle
    BY <1>3 DEF Rest
  <2> QED
    BY <1>1, <1>2, <2>1 DEF Idle, Ahead
<1>4. CASE Len(handler.todo) # 1
  <2>1. handler' = [about |-> handler.about, todo |-> Tail(handler.todo)]
    BY <1>1, <1>4 DEF Rest
  <2> QED
    BY <1>1, <1>2, <2>1 DEF Ahead
<1> QED
  BY <1>3, <1>4

LEMMA RestAhead ==
    ASSUME RequestsTyped, handler # Idle, handler' = Rest, UNCHANGED received,
           NEW id \in Id, id = handler.about, Orderly(handler.todo), handler.todo # <<>>
    PROVE  /\ Ahead(id)' = Remaining(handler.todo)
           /\ handler'.about = id => handler'.todo # <<>>
<1>1. handler.about \in Id /\ handler = [about |-> handler.about, todo |-> handler.todo]
  BY DEF RequestsTyped
<1>2. 0 \notin Id
  BY ListGrows DEF RequestsTyped, Id
<1>3. CASE Len(handler.todo) = 1
  <2>1. handler' = Idle
    BY <1>3 DEF Rest
  <2> QED
    BY <1>1, <1>2, <1>3, <2>1 DEF Idle, Ahead, Remaining
<1>4. CASE Len(handler.todo) # 1
  <2>1. handler' = [about |-> handler.about, todo |-> Tail(handler.todo)]
    BY <1>1, <1>4 DEF Rest
  <2>2. Tail(handler.todo) # <<>>
    BY <1>4, FirstEffect
  <2> QED
    BY <1>1, <1>2, <1>4, <2>1, <2>2 DEF Ahead, Remaining
<1> QED
  BY <1>3, <1>4

(* An effect moves from what is ahead to what is counted.                 *)
LEMMA EffectCounts ==
    ASSUME RequestsTyped, handler # Idle, handler' = Rest, UNCHANGED <<received, copies>>,
           NEW id \in Id, id = handler.about, Balanced(id), Cmd(id)' = Cmd(id),
           NEW e, e = Effect,
           Carried(id)' = Carried(id) + One(CarriesOut(e)),
           \A r \in {"OK", "ERROR"} : Results(id, r)' = Results(id, r) + One(Tells(e, r)),
           CarriesOut(e) \/ tasks' = tasks
    PROVE  Balanced(id)'
<1> DEFINE todo == handler.todo
<1>1. PICK rest : rest = Remaining(todo)
  OBVIOUS
<1>2. Orderly(todo) /\ todo # <<>> /\ Ahead(id) = todo
  BY RestOfHandler DEF Balanced
<1>3. /\ e = todo[1] /\ Orderly(rest)
      /\ Carrying(todo) = One(CarriesOut(e)) + Carrying(rest)
      /\ \A r : Telling(todo, r) = One(Tells(e, r)) + Telling(rest, r)
      /\ \A i \in DOMAIN rest : \E j \in DOMAIN todo : rest[i] = todo[j]
      /\ CarriesOut(e) => \A i \in DOMAIN rest : ~CarriesOut(rest[i])
  <2> HIDE DEF todo
  <2>1. e = Head(todo)
    BY DEF Effect, todo
  <2> QED
    BY <1>1, <1>2, <2>1, FirstEffect
<1>4. Ahead(id)' = rest /\ (handler'.about = id => handler'.todo # <<>>)
  BY <1>1, <1>2, RestAhead
<1> HIDE DEF todo
<1>5. SpawnsOnce(id)'
  <2>1. CASE CarriesOut(e)
    BY <1>3, <1>4, <2>1 DEF SpawnsOnce, CarriesOut
  <2>2. CASE tasks' = tasks
    <3>1. SpawnsOnce(id)
      BY DEF Balanced
    <3>2. (\E i \in DOMAIN rest : rest[i].act = "spawn") => \E i \in DOMAIN todo : todo[i].act = "spawn"
      BY <1>3
    <3>3. \A t \in tasks : t.about = id /\ (\E i \in DOMAIN rest : rest[i].act = "spawn")
              => t.copy # copies[id]
      BY <1>2, <3>1, <3>2 DEF SpawnsOnce
    <3> QED
      BY <1>4, <2>2, <3>3 DEF SpawnsOnce
  <2> QED
    BY <2>1, <2>2
<1>6. /\ Carrying(rest) \in Nat /\ Telling(rest, "OK") \in Nat /\ Telling(rest, "ERROR") \in Nat
      /\ One(CarriesOut(e)) \in Nat /\ One(Tells(e, "OK")) \in Nat /\ One(Tells(e, "ERROR")) \in Nat
      /\ Carried(id) \in Nat /\ Results(id, "OK") \in Nat /\ Results(id, "ERROR") \in Nat
  BY CountsTyped DEF Carrying, Telling, One, Carried
<1>7. /\ Orderly(Ahead(id))' /\ Carrying(Ahead(id))' = Carrying(rest)
      /\ Telling(Ahead(id), "OK")' = Telling(rest, "OK")
      /\ Telling(Ahead(id), "ERROR")' = Telling(rest, "ERROR")
  <2>1. Orderly(Ahead(id))'
    BY <1>3, <1>4 DEF Orderly, Carrying, CarriesOut, One
  <2>2. Carrying(Ahead(id))' = Carrying(rest)
    BY <1>4 DEF Carrying, CarriesOut, One
  <2>3. /\ Telling(Ahead(id), "OK")' = Telling(rest, "OK")
        /\ Telling(Ahead(id), "ERROR")' = Telling(rest, "ERROR")
    BY <1>4 DEF Telling, Tells, IsResult, One
  <2> QED
    BY <2>1, <2>2, <2>3
<1>8. /\ Carried(id) + Carrying(todo) + Results(id, "ERROR") + Telling(todo, "ERROR") = copies[id]
      /\ Results(id, "OK") + Telling(todo, "OK")
            = IF Cmd(id) = "DeviceConfig" THEN Carried(id) + Carrying(todo) ELSE 0
  BY <1>2 DEF Balanced, Accounted
<1>9. /\ Carrying(todo) = One(CarriesOut(e)) + Carrying(rest)
      /\ Telling(todo, "OK") = One(Tells(e, "OK")) + Telling(rest, "OK")
      /\ Telling(todo, "ERROR") = One(Tells(e, "ERROR")) + Telling(rest, "ERROR")
      /\ Results(id, "OK")' = Results(id, "OK") + One(Tells(e, "OK"))
      /\ Results(id, "ERROR")' = Results(id, "ERROR") + One(Tells(e, "ERROR"))
  BY <1>3
<1>10. Accounted(id)'
  BY <1>6, <1>7, <1>8, <1>9 DEF Accounted
<1> QED
  BY <1>4, <1>5, <1>7, <1>10 DEF Balanced

(* What remains to show of an effect of the handler.                      *)
LEMMA HandlerKeeps ==
    ASSUME VerdictInv, handler # Idle, handler' = Rest,
           UNCHANGED <<host, received, copies, cut, lost>>,
           RequestsTyped',
           \A id \in Id : id # handler.about =>
              /\ Executions(id)' = Executions(id) /\ Reports(id)' = Reports(id)
              /\ \A r : Results(id, r)' = Results(id, r)
              /\ {t \in tasks : t.about = id}' = {t \in tasks : t.about = id},
           \A id \in Id : id = handler.about /\ Owing(id) /\ Balanced(id) /\ Cmd(id)' = Cmd(id)
              => Balanced(id)'
    PROVE  VerdictInv'
<1>1. Id' = Id
  BY DEF Id
<1>2. BodiesKnown'
  BY <1>1 DEF VerdictInv, BodiesKnown
<1>3. ASSUME NEW id \in Id, Owing(id)'
      PROVE  Balanced(id)'
  <2>1. Owing(id) /\ Cmd(id)' = Cmd(id)
    BY <1>3, OwingStays
  <2>2. Balanced(id)
    BY <2>1 DEF VerdictInv
  <2>3. CASE id = handler.about
    BY <2>1, <2>2, <2>3
  <2>4. CASE id # handler.about
    <3>1. Ahead(id)' = Ahead(id) /\ handler'.about # id
      BY <2>4, RestOfHandler DEF VerdictInv
    <3> QED
      BY <2>1, <2>2, <2>4, <3>1, BalancedStays
  <2> QED
    BY <2>3, <2>4
<1> QED
  BY <1>1, <1>2, <1>3 DEF VerdictInv

LEMMA SendMessageKeeps == VerdictInv /\ SendMessage => VerdictInv'
<1> SUFFICES ASSUME VerdictInv, SendMessage PROVE VerdictInv'
  OBVIOUS
<1>1. PICK e : e = Effect
  OBVIOUS
<1>2. PICK h : h = handler.about
  OBVIOUS
<1> DEFINE m == [about |-> h, message |-> e.message]
<1>3. /\ handler # Idle /\ e.act = "send" /\ sent' = Append(sent, m) /\ handler' = Rest
      /\ UNCHANGED <<host, received, copies, tasks, executed, cut, lost>>
  BY <1>1, <1>2 DEF SendMessage
<1>4. m.about = h /\ m.message = e.message
  OBVIOUS
<1> HIDE DEF m
<1>5. h \in Id /\ Id' = Id /\ IsList(sent)
  BY <1>2, <1>3, RestOfHandler DEF VerdictInv, RequestsTyped, Id
<1>6. RequestsTyped'
  <2>1. /\ IsList(sent') /\ DOMAIN sent' = 1 .. Len(sent) + 1 /\ DOMAIN sent = 1 .. Len(sent)
        /\ Len(sent) \in Nat
        /\ \A i \in 1 .. Len(sent) : sent'[i] = sent[i]
        /\ sent'[Len(sent) + 1] = m
    <3>1. IsList(Append(sent, m)) /\ Append(sent, m) = sent'
      BY <1>3, <1>5, ListGrows
    <3> QED
      BY <1>3, <1>5, <3>1, ListGrows DEF IsList
  <2>2. \A i \in DOMAIN sent' : sent'[i].about \in Id
    BY <1>4, <1>5, <2>1 DEF VerdictInv, RequestsTyped
  <2>3. /\ handler' = [about |-> handler'.about, todo |-> handler'.todo]
        /\ handler' = Idle \/ handler'.about \in Id'
    BY <1>3, RestOfHandler DEF VerdictInv
  <2> QED
    BY <1>3, <1>5, <2>1, <2>2, <2>3 DEF VerdictInv, RequestsTyped, IsList, Id
<1>7. ASSUME NEW id
      PROVE  /\ Executions(id)' = Executions(id) /\ Underway(id)' = Underway(id)
             /\ Reports(id)' = Reports(id) + One(h = id /\ e.message.kind = "notify")
             /\ \A r : Results(id, r)' = Results(id, r) + One(h = id /\ IsResult(e.message, r))
             /\ Reports(id) \in Nat /\ \A r : Results(id, r) \in Nat
  BY <1>3, <1>4, <1>5, MessagesGrowBy DEF Executions, Underway
<1>8. ASSUME NEW id \in Id, id # h
      PROVE  /\ Executions(id)' = Executions(id) /\ Reports(id)' = Reports(id)
             /\ \A r : Results(id, r)' = Results(id, r)
             /\ {t \in tasks : t.about = id}' = {t \in tasks : t.about = id}
  BY <1>3, <1>7, <1>8 DEF One
<1>9. ASSUME NEW id \in Id, id = h, Owing(id), Balanced(id), Cmd(id)' = Cmd(id)
      PROVE  Balanced(id)'
  <2>1. e.message.kind # "notify"
    <3>1. Orderly(handler.todo) /\ handler.todo # <<>>
      BY <1>2, <1>3, <1>9, RestOfHandler DEF Balanced, VerdictInv
    <3>2. e = handler.todo[1] /\ 1 \in DOMAIN handler.todo
      BY <1>1, <3>1, FirstEffect DEF Effect
    <3> QED
      BY <1>3, <3>1, <3>2 DEF Orderly
  <2>2. ~CarriesOut(e) /\ \A r : Tells(e, r) <=> IsResult(e.message, r)
    BY <1>3 DEF CarriesOut, Tells, IsResult
  <2>3. Carried(id)' = Carried(id) + One(CarriesOut(e))
    <3>1. Reports(id)' = Reports(id) /\ One(CarriesOut(e)) = 0
      BY <1>7, <2>1, <2>2 DEF One
    <3> QED
      BY <1>7, <3>1, CountsTyped DEF Carried, VerdictInv
  <2>4. \A r \in {"OK", "ERROR"} : Results(id, r)' = Results(id, r) + One(Tells(e, r))
    BY <1>7, <1>9, <2>2 DEF One
  <2> QED
    BY <1>1, <1>2, <1>3, <1>9, <2>3, <2>4, EffectCounts DEF VerdictInv
<1> QED
  BY <1>2, <1>3, <1>6, <1>8, <1>9, HandlerKeeps

LEMMA CallHookKeeps == VerdictInv /\ CallHook => VerdictInv'
<1> SUFFICES ASSUME VerdictInv, CallHook PROVE VerdictInv'
  OBVIOUS
<1>1. PICK e : e = Effect
  OBVIOUS
<1>2. PICK h : h = handler.about
  OBVIOUS
<1> DEFINE m == [about |-> h, seam |-> e.seam, command |-> e.command]
<1>3. /\ handler # Idle /\ e.act = "execute" /\ executed' = Append(executed, m)
      /\ handler' = Rest
      /\ UNCHANGED <<host, received, copies, tasks, sent, cut, lost>>
  BY <1>1, <1>2 DEF CallHook
<1>4. m.about = h
  OBVIOUS
<1> HIDE DEF m
<1>5. h \in Id /\ Id' = Id /\ IsList(executed)
  BY <1>2, <1>3, RestOfHandler DEF VerdictInv, RequestsTyped, Id
<1>6. RequestsTyped'
  <2>1. /\ IsList(executed') /\ DOMAIN executed' = 1 .. Len(executed) + 1
        /\ DOMAIN executed = 1 .. Len(executed) /\ Len(executed) \in Nat
        /\ \A i \in 1 .. Len(executed) : executed'[i] = executed[i]
        /\ executed'[Len(executed) + 1] = m
    <3>1. IsList(Append(executed, m)) /\ Append(executed, m) = executed'
      BY <1>3, <1>5, ListGrows
    <3> QED
      BY <1>3, <1>5, <3>1, ListGrows DEF IsList
  <2>2. \A i \in DOMAIN executed' : executed'[i].about \in Id
    BY <1>4, <1>5, <2>1 DEF VerdictInv, RequestsTyped
  <2>3. /\ handler' = [about |-> handler'.about, todo |-> handler'.todo]
        /\ handler' = Idle \/ handler'.about \in Id'
    BY <1>3, RestOfHandler DEF VerdictInv
  <2> QED
    BY <1>3, <1>5, <2>1, <2>2, <2>3 DEF VerdictInv, RequestsTyped, IsList, Id
<1>7. ASSUME NEW id
      PROVE  /\ Executions(id)' = Executions(id) + One(h = id) /\ Executions(id) \in Nat
             /\ Underway(id)' = Underway(id) /\ Reports(id)' = Reports(id)
             /\ \A r : Results(id, r)' = Results(id, r)
  BY <1>3, <1>4, <1>5, ExecutionsGrow DEF Reports, Results, Underway
<1>8. ASSUME NEW id \in Id, id # h
      PROVE  /\ Executions(id)' = Executions(id) /\ Reports(id)' = Reports(id)
             /\ \A r : Results(id, r)' = Results(id, r)
             /\ {t \in tasks : t.about = id}' = {t \in tasks : t.about = id}
  BY <1>3, <1>7, <1>8 DEF One
<1>9. ASSUME NEW id \in Id, id = h, Owing(id), Balanced(id), Cmd(id)' = Cmd(id)
      PROVE  Balanced(id)'
  <2>1. CarriesOut(e) /\ \A r : ~Tells(e, r)
    BY <1>3 DEF CarriesOut, Tells
  <2>2. Carried(id)' = Carried(id) + One(CarriesOut(e))
    <3>1. Executions(id)' = Executions(id) + 1 /\ One(CarriesOut(e)) = 1
      BY <1>7, <1>9, <2>1 DEF One
    <3> QED
      BY <1>7, <3>1, CountsTyped DEF Carried, VerdictInv
  <2>3. \A r \in {"OK", "ERROR"} : Results(id, r)' = Results(id, r) + One(Tells(e, r))
    BY <1>7, <2>1, CountsTyped DEF One, VerdictInv
  <2> QED
    BY <1>1, <1>2, <1>3, <1>9, <2>1, <2>2, <2>3, EffectCounts DEF VerdictInv
<1> QED
  BY <1>2, <1>3, <1>6, <1>8, <1>9, HandlerKeeps

LEMMA SendFailsKeeps == VerdictInv /\ SendFails => VerdictInv'
<1> SUFFICES ASSUME VerdictInv, SendFails PROVE VerdictInv'
  OBVIOUS
<1>1. /\ handler # Idle /\ cut' = cut \cup {handler.about} /\ handler' = Idle
      /\ UNCHANGED <<host, received, copies, tasks, sent, executed, lost>>
  BY DEF SendFails
<1>2. /\ Id' = Id /\ handler.about \in Id /\ 0 \notin Id
  BY <1>1, ListGrows DEF VerdictInv, RequestsTyped, Id
<1>3. RequestsTyped'
  BY <1>1, <1>2 DEF VerdictInv, RequestsTyped, IsList, Idle
<1>4. BodiesKnown'
  BY <1>1, <1>2 DEF VerdictInv, BodiesKnown
<1>5. ASSUME NEW id \in Id, Owing(id)'
      PROVE  Balanced(id)'
  <2>1. Owing(id) /\ Cmd(id)' = Cmd(id)
    BY <1>1, <1>5, OwingStays
  <2>2. Balanced(id)
    BY <2>1 DEF VerdictInv
  <2>3. id # handler.about
    BY <1>1, <1>5 DEF Owing
  <2>4. Ahead(id)' = Ahead(id) /\ handler'.about # id
    BY <1>1, <1>2, <2>3 DEF Ahead, Idle
  <2> QED
    BY <1>1, <2>1, <2>2, <2>4, BalancedStays DEF Executions, Reports, Results
<1> QED
  BY <1>2, <1>3, <1>4, <1>5 DEF VerdictInv

LEMMA SpawnExchangeKeeps == VerdictInv /\ SpawnExchange => VerdictInv'
<1> SUFFICES ASSUME VerdictInv, SpawnExchange PROVE VerdictInv'
  OBVIOUS
<1>1. PICK e : e = Effect
  OBVIOUS
<1>2. PICK h : h = handler.about
  OBVIOUS
<1>3. PICK t : t = [about |-> h, copy |-> copies[h], seam |-> e.seam, session |-> e.session,
                    sn |-> e.sn, sink |-> link.number]
  OBVIOUS
<1>4. /\ handler # Idle /\ e.act = "spawn" /\ tasks' = tasks \cup {t} /\ handler' = Rest
      /\ UNCHANGED <<host, received, copies, sent, executed, cut, lost>>
  BY <1>1, <1>2, <1>3 DEF SpawnExchange
<1>5. t.about = h /\ t.copy = copies[h]
  BY <1>3
<1>6. h \in Id /\ Id' = Id
  BY <1>2, <1>4, RestOfHandler DEF VerdictInv, Id
<1>7. RequestsTyped'
  <2>1. IsFiniteSet(tasks')
    BY <1>4, FS_AddElement DEF VerdictInv, RequestsTyped
  <2>2. \A x \in tasks' : x.about \in Id /\ x.copy \in 1 .. copies[x.about]
    BY <1>4, <1>5, <1>6 DEF VerdictInv, RequestsTyped
  <2>3. /\ handler' = [about |-> handler'.about, todo |-> handler'.todo]
        /\ handler' = Idle \/ handler'.about \in Id'
    BY <1>4, RestOfHandler DEF VerdictInv
  <2> QED
    BY <1>4, <1>6, <2>1, <2>2, <2>3 DEF VerdictInv, RequestsTyped, IsList
<1>8. ASSUME NEW id
      PROVE  /\ Executions(id)' = Executions(id) /\ Reports(id)' = Reports(id)
             /\ \A r : Results(id, r)' = Results(id, r)
  BY <1>4 DEF Reports, Results, Executions
<1>9. ASSUME NEW id \in Id, id # h
      PROVE  {x \in tasks : x.about = id}' = {x \in tasks : x.about = id}
  BY <1>4, <1>5, <1>9
<1>10. ASSUME NEW id \in Id, id = h, Owing(id), Balanced(id), Cmd(id)' = Cmd(id)
       PROVE  Balanced(id)'
  <2>1. CarriesOut(e) /\ \A r : ~Tells(e, r)
    BY <1>4 DEF CarriesOut, Tells
  <2>2. t \notin tasks
    <3>1. Orderly(handler.todo) /\ handler.todo # <<>> /\ Ahead(id) = handler.todo
      BY <1>2, <1>4, <1>10, RestOfHandler DEF Balanced, VerdictInv
    <3>2. e = handler.todo[1] /\ 1 \in DOMAIN handler.todo
      BY <1>1, <3>1, FirstEffect DEF Effect
    <3>3. \A x \in tasks : x.about = id => x.copy # copies[id]
      BY <1>4, <1>10, <3>1, <3>2 DEF Balanced, SpawnsOnce
    <3> QED
      BY <1>5, <1>10, <3>3
  <2>3. Underway(id)' = Underway(id) + 1
    <3> DEFINE T == {x \in tasks : x.about = id}
    <3>1. T' = T \cup {t} /\ t \notin T
      BY <1>4, <1>5, <1>10, <2>2
    <3>2. IsFiniteSet(T)
      BY FS_Subset DEF VerdictInv, RequestsTyped
    <3>3. Underway(id) = Cardinality(T) /\ Underway(id)' = Cardinality(T')
      BY DEF Underway
    <3> HIDE DEF T
    <3> QED
      BY <3>1, <3>2, <3>3, FS_AddElement
  <2>4. Carried(id)' = Carried(id) + One(CarriesOut(e))
    <3>1. One(CarriesOut(e)) = 1
      BY <2>1 DEF One
    <3> QED
      BY <1>8, <2>3, <3>1, CountsTyped DEF Carried, VerdictInv
  <2>5. \A r \in {"OK", "ERROR"} : Results(id, r)' = Results(id, r) + One(Tells(e, r))
    BY <1>8, <2>1, CountsTyped DEF One, VerdictInv
  <2> QED
    BY <1>1, <1>2, <1>4, <1>10, <2>1, <2>4, <2>5, EffectCounts DEF VerdictInv
<1> QED
  BY <1>2, <1>4, <1>7, <1>8, <1>9, <1>10, HandlerKeeps

(* The report of an exchange is one notification.                         *)
LEMMA ReportIsOne ==
    ASSUME NEW t, NEW ok
    PROVE  \E m : m.kind = "notify" /\ Report(t, ok) = <<m>>
<1>1. PICK m : m = IF t.seam = "snapshot"
                   THEN BuildUploadSnapshotFinished(t.sn, OwnDevice, t.session,
                                                    IF ok THEN <<"file">> ELSE <<>>)
                   ELSE BuildDeviceUpgradeResult(t.sn, OwnDevice, t.session, ok, "99")
  OBVIOUS
<1>2. Report(t, ok) = <<m>>
  BY <1>1, Zenon DEF Report
<1>3. m.kind = "notify"
  BY <1>1 DEF BuildUploadSnapshotFinished, BuildDeviceUpgradeResult, Notify, ++
<1> QED
  BY <1>2, <1>3

LEMMA ExchangeEndsKeeps ==
    ASSUME VerdictInv, NEW t \in tasks, NEW ok \in BOOLEAN, ExchangeEnds(t, ok)
    PROVE  VerdictInv'
<1>1. PICK m : m.kind = "notify" /\ Report(t, ok) = <<m>>
  BY ReportIsOne
<1>2. PICK e : e = [about |-> t.about, message |-> m]
  OBVIOUS
<1>3. /\ tasks' = tasks \ {t}
      /\ UNCHANGED <<host, received, copies, handler, executed, cut>>
      /\ \/ sent' = Append(sent, e) /\ lost' = lost
         \/ sent' = sent /\ lost' = lost \cup {t.about}
  <2>1. [i \in DOMAIN <<m>> |-> [about |-> t.about, message |-> <<m>>[i]]] = <<e>>
    BY <1>2
  <2>2. sent \o <<e>> = Append(sent, e)
    BY ListGrows DEF VerdictInv, RequestsTyped
  <2> QED
    BY <1>1, <2>1, <2>2 DEF ExchangeEnds
<1>4. Id' = Id /\ t.about \in Id /\ e.about = t.about /\ e.message = m
  BY <1>2, <1>3 DEF VerdictInv, RequestsTyped, Id
<1>5. RequestsTyped'
  <2>1. IsList(sent') /\ \A i \in DOMAIN sent' : sent'[i].about \in Id
    <3>1. CASE sent' = sent
      BY <3>1 DEF VerdictInv, RequestsTyped
    <3>2. CASE sent' = Append(sent, e)
      <4>1. IsList(sent)
        BY DEF VerdictInv, RequestsTyped
      <4>2. IsList(Append(sent, e))
        BY <4>1, ListGrows
      <4>3. /\ DOMAIN sent' = 1 .. Len(sent) + 1 /\ DOMAIN sent = 1 .. Len(sent)
            /\ Len(sent) \in Nat
            /\ \A i \in 1 .. Len(sent) : sent'[i] = sent[i]
            /\ sent'[Len(sent) + 1] = e
        BY <3>2, <4>1, ListGrows
      <4>4. \A i \in DOMAIN sent' : sent'[i].about \in Id
        BY <1>4, <4>3 DEF VerdictInv, RequestsTyped
      <4> QED
        BY <3>2, <4>2, <4>4 DEF IsList
    <3> QED
      BY <1>3, <3>1, <3>2
  <2>2. IsFiniteSet(tasks')
    BY <1>3, FS_RemoveElement DEF VerdictInv, RequestsTyped
  <2>3. lost' \subseteq Id'
    BY <1>3, <1>4 DEF VerdictInv, RequestsTyped
  <2> QED
    BY <1>3, <1>4, <2>1, <2>2, <2>3 DEF VerdictInv, RequestsTyped, IsList
<1>6. BodiesKnown'
  BY <1>3, <1>4 DEF VerdictInv, BodiesKnown
<1>7. ASSUME NEW id, sent' = Append(sent, e)
      PROVE  /\ Reports(id)' = Reports(id) + One(id = t.about) /\ Reports(id) \in Nat
             /\ \A r : Results(id, r)' = Results(id, r)
  <2>1. \A r : ~IsResult(m, r)
    BY <1>1 DEF IsResult
  <2>2. IsList(sent)
    BY DEF VerdictInv, RequestsTyped
  <2>3. ASSUME NEW r
        PROVE  /\ Results(id, r) \in Nat /\ Reports(id) \in Nat
               /\ Results(id, r)' = Results(id, r) + One(e.about = id /\ IsResult(e.message, r))
               /\ Reports(id)' = Reports(id) + One(e.about = id /\ e.message.kind = "notify")
    BY <1>7, <2>2, MessagesGrowBy
  <2>4. e.about = t.about /\ e.message.kind = "notify" /\ \A r : ~IsResult(e.message, r)
    BY <1>1, <1>4, <2>1
  <2>5. Reports(id)' = Reports(id) + One(id = t.about) /\ Reports(id) \in Nat
    BY <2>3, <2>4 DEF One
  <2>6. \A r : Results(id, r)' = Results(id, r)
    BY <2>3, <2>4 DEF One
  <2> QED
    BY <2>5, <2>6
<1>8. ASSUME NEW id \in Id, Owing(id)'
      PROVE  Balanced(id)'
  <2>1. Owing(id) /\ Cmd(id)' = Cmd(id)
    BY <1>3, <1>8, OwingStays
  <2>2. Balanced(id)
    BY <2>1 DEF VerdictInv
  <2>3. Ahead(id)' = Ahead(id) /\ Executions(id)' = Executions(id)
    BY <1>3 DEF Ahead, Executions
  <2>4. CASE id # t.about
    <3>1. Reports(id)' = Reports(id) /\ \A r : Results(id, r)' = Results(id, r)
      <4>1. CASE sent' = sent
        BY <4>1 DEF Reports, Results
      <4>2. CASE sent' = Append(sent, e)
        <5>1. /\ Reports(id)' = Reports(id) + One(id = t.about) /\ Reports(id) \in Nat
              /\ \A r : Results(id, r)' = Results(id, r)
          BY <1>7, <4>2
        <5>2. One(id = t.about) = 0
          BY <2>4 DEF One
        <5> QED
          BY <5>1, <5>2
      <4> QED
        BY <1>3, <4>1, <4>2
    <3>2. {x \in tasks : x.about = id}' = {x \in tasks : x.about = id}
      BY <1>3, <2>4
    <3> QED
      BY <1>3, <2>1, <2>2, <2>3, <3>1, <3>2, BalancedStays
  <2>5. CASE id = t.about
    <3>1. sent' = Append(sent, e)
      BY <1>3, <1>8, <2>5 DEF Owing
    <3>2. Reports(id)' = Reports(id) + 1 /\ \A r : Results(id, r)' = Results(id, r)
      BY <1>7, <2>5, <3>1 DEF One
    <3>3. Underway(id)' = Underway(id) - 1
      <4> DEFINE T == {x \in tasks : x.about = id}
      <4>1. T' = T \ {t} /\ t \in T
        BY <1>3, <2>5
      <4>2. IsFiniteSet(T)
        BY FS_Subset DEF VerdictInv, RequestsTyped
      <4>3. Underway(id) = Cardinality(T) /\ Underway(id)' = Cardinality(T')
        BY DEF Underway
      <4> HIDE DEF T
      <4> QED
        BY <4>1, <4>2, <4>3, FS_RemoveElement
    <3>4. Carried(id)' = Carried(id)
      BY <2>3, <3>2, <3>3, CountsTyped DEF Carried, VerdictInv
    <3>5. Results(id, "OK")' = Results(id, "OK") /\ Results(id, "ERROR")' = Results(id, "ERROR")
      BY <3>2
    <3>6. Orderly(Ahead(id))' /\ Carrying(Ahead(id))' = Carrying(Ahead(id))
          /\ Telling(Ahead(id), "OK")' = Telling(Ahead(id), "OK")
          /\ Telling(Ahead(id), "ERROR")' = Telling(Ahead(id), "ERROR")
      BY <2>2, <2>3 DEF Balanced, Orderly, Carrying, Telling, CarriesOut, Tells, IsResult, One
    <3>7. Accounted(id)'
      BY <1>3, <2>1, <2>2, <3>4, <3>5, <3>6 DEF Balanced, Accounted
    <3>8. SpawnsOnce(id)'
      BY <1>3, <2>2, <2>3 DEF Balanced, SpawnsOnce
    <3> QED
      BY <1>3, <2>2, <3>6, <3>7, <3>8 DEF Balanced
  <2> QED
    BY <2>4, <2>5
<1> QED
  BY <1>4, <1>5, <1>6, <1>8 DEF VerdictInv

LEMMA VerdictSame ==
    ASSUME VerdictInv,
           UNCHANGED <<host, received, copies, handler, tasks, sent, executed, cut, lost>>
    PROVE  VerdictInv'
<1>1. RequestsTyped' /\ BodiesKnown' /\ Id' = Id
  BY DEF VerdictInv, RequestsTyped, BodiesKnown, IsList, Id
<1>2. ASSUME NEW id \in Id, Owing(id)'
      PROVE  Balanced(id)'
  <2>1. Owing(id) /\ Cmd(id)' = Cmd(id)
    BY <1>2, OwingStays
  <2>2. Balanced(id) /\ Ahead(id)' = Ahead(id)
    BY <2>1 DEF VerdictInv, Ahead
  <2> QED
    BY <2>1, <2>2, BalancedStays DEF Executions, Reports, Results
<1> QED
  BY <1>1, <1>2 DEF VerdictInv

LEMMA VerdictStep ==
    ASSUME AbsentIsApart, BodiesWellFormed, VerdictInv, [RequestsNext]_requestsVars
    PROVE  VerdictInv'
<1>1. ASSUME NEW b \in Bodies \cup LaterBodies, NEW manscdp \in BOOLEAN,
             Receive(b, "MESSAGE", TRUE, manscdp)
      PROVE  VerdictInv'
  BY <1>1, ReceiveKeeps
<1>2. ASSUME NEW b \in Bodies \cup LaterBodies, Receive(b, "MESSAGE", FALSE, TRUE)
      PROVE  VerdictInv'
  BY <1>2, ReceiveKeeps
<1>3. ASSUME NEW method \in {"OPTIONS", "CANCEL", "NOTIFY"}, Receive(Nothing, method, TRUE, FALSE)
      PROVE  VerdictInv'
  BY <1>3, ReceiveKeeps
<1>4. ASSUME NEW id \in Id, ReceiveAgain(id)
      PROVE  VerdictInv'
  BY <1>4, ReceiveAgainKeeps
<1>5. CASE Handle
  BY <1>5, SendMessageKeeps, SendFailsKeeps, CallHookKeeps, SpawnExchangeKeeps DEF Handle
<1>6. ASSUME NEW t \in tasks, NEW ok \in BOOLEAN, ExchangeEnds(t, ok)
      PROVE  VerdictInv'
  BY <1>6, ExchangeEndsKeeps
<1>7. CASE ConnectionDrops
  BY <1>7, VerdictSame DEF ConnectionDrops
<1>8. CASE Redial
  BY <1>8, VerdictSame DEF Redial
<1>9. CASE UNCHANGED requestsVars
  BY <1>9, VerdictSame DEF requestsVars
<1>10. ASSUME NEW b \in IF received = <<>> THEN Bodies ELSE LaterBodies
       PROVE  b \in Bodies \cup LaterBodies
  BY <1>10
<1> QED
  BY <1>1, <1>2, <1>3, <1>4, <1>5, <1>6, <1>7, <1>8, <1>9, <1>10 DEF RequestsNext

LEMMA VerdictInit == RequestsInit => VerdictInv
<1> SUFFICES ASSUME RequestsInit PROVE VerdictInv
  OBVIOUS
<1>1. /\ received = <<>> /\ copies = <<>> /\ handler = Idle /\ tasks = {} /\ sent = <<>>
      /\ executed = <<>> /\ cut = {} /\ lost = {}
  BY DEF RequestsInit
<1>2. Id = {} /\ IsList(<<>>)
  BY <1>1 DEF Id, IsList
<1>3. IsFiniteSet({})
  BY FS_EmptySet
<1>4. copies \in [{} -> Nat \ {0}]
  BY <1>1
<1> QED
  BY <1>1, <1>2, <1>3, <1>4 DEF VerdictInv, RequestsTyped, BodiesKnown, Idle

LEMMA VerdictImplies == VerdictInv => OneVerdict
<1> SUFFICES ASSUME VerdictInv, NEW id \in Id, Done(id), id \notin lost,
                    Cmd(id) \in {"DeviceControl", "DeviceConfig"}, ~Unserved(id)
             PROVE  /\ Carried(id) + Results(id, "ERROR") = copies[id]
                    /\ Results(id, "OK") = IF Cmd(id) = "DeviceConfig" THEN Carried(id) ELSE 0
  BY DEF OneVerdict, Cmd, Carried
<1>1. Owing(id) /\ handler.about # id
  BY DEF Owing, Done
<1>2. Accounted(id) /\ Ahead(id) = <<>>
  BY <1>1 DEF VerdictInv, Balanced, Ahead
<1>3. Carrying(<<>>) = 0 /\ Telling(<<>>, "ERROR") = 0 /\ Telling(<<>>, "OK") = 0
  BY DEF Carrying, Telling, One
<1>4. Carried(id) \in Nat /\ Results(id, "ERROR") \in Nat /\ Results(id, "OK") \in Nat
  BY CountsTyped DEF Carried, VerdictInv
<1> QED
  BY <1>2, <1>3, <1>4 DEF Accounted

(* server.rs: every reception of a command, the repeated ones included,   *)
(* ends in exactly one verdict, carried out or refused, and a             *)
(* configuration is reported OK exactly when it was carried out: for any  *)
(* bodies in which commands name their device, any host, and any number   *)
(* of requests, copies and dropped connections.                           *)
THEOREM EveryCommandOneVerdict ==
    ASSUME AbsentIsApart, BodiesWellFormed
    PROVE  RequestsSpec => []OneVerdict
<1>1. VerdictInv /\ [RequestsNext]_requestsVars => VerdictInv'
  BY VerdictStep
<1> QED
  BY <1>1, VerdictInit, VerdictImplies, PTL DEF RequestsSpec

-----------------------------------------------------------------------------
(* The pages of a list (Requests).                                        *)

(* t lists A, nothing twice.                                              *)
Enumerates(t, A) ==
    /\ t \in Seq(A)
    /\ \A a \in A : \E k \in 1 .. Len(t) : t[k] = a
    /\ \A j, k \in 1 .. Len(t) : t[j] = t[k] => j = k

LEMMA EnumerationCounts ==
    ASSUME NEW A, NEW t, Enumerates(t, A)
    PROVE  Len(t) = Cardinality(A)
<1>1. Len(t) \in Nat /\ t \in [1 .. Len(t) -> A]
  BY DEF Enumerates
<1>2. t \in Bijection(1 .. Len(t), A)
  BY <1>1 DEF Enumerates, Bijection, Injection, Surjection, IsInjective
<1>3. ExistsBijection(1 .. Len(t), A)
  BY <1>2 DEF ExistsBijection
<1>4. IsFiniteSet(1 .. Len(t)) /\ Cardinality(1 .. Len(t)) = Len(t)
  BY <1>1, FS_Interval
<1> QED
  BY <1>3, <1>4, FS_Bijection

(* g tells for each element of t the place in s it was kept from.         *)
KeptFrom(t, g, s, Keep) ==
    /\ g \in [1 .. Len(t) -> Keep]
    /\ \A k \in 1 .. Len(t) : t[k] = s[g[k]]
    /\ \A i \in Keep : \E k \in 1 .. Len(t) : g[k] = i
    /\ \A j, k \in 1 .. Len(t) : g[j] = g[k] => j = k

(* Flattening one-element and empty lists keeps the elements of the former.*)
LEMMA KeptItems ==
    ASSUME NEW S, NEW s \in Seq(S), NEW Keep, Keep \subseteq 1 .. Len(s), NEW t,
           t = FlattenSeq([i \in DOMAIN s |-> IF i \in Keep THEN <<s[i]>> ELSE <<>>])
    PROVE  t \in Seq(S) /\ \E g : KeptFrom(t, g, s, Keep)
<1>1. PICK N : N = Len(s)
  OBVIOUS
<1> DEFINE parts == [i \in 1 .. N |-> IF i \in Keep THEN <<s[i]>> ELSE <<>>]
<1>2. N \in Nat /\ DOMAIN s = 1 .. N /\ \A i \in 1 .. N : s[i] \in S
  BY <1>1
<1>3. \A i \in 1 .. N : parts[i] \in Seq(S)
  BY <1>2
<1>4. parts \in Seq(Seq(S)) /\ Len(parts) = N
  BY <1>2, <1>3
<1>5. PICK f \in [0 .. N -> Seq(S)] : Flattens(parts, f)
  BY <1>4, FlattenTable
<1>6. /\ f[0] = <<>>
      /\ \A i \in 1 .. N : f[i] = f[i - 1] \o parts[i]
      /\ FlattenSeq([k \in 1 .. N |-> parts[k]]) = f[N]
  <2>1. N \in 0 .. N
    BY <1>2
  <2> HIDE DEF parts
  <2> QED
    BY <1>4, <1>5, <2>1 DEF Flattens
<1>7. t = f[N]
  <2>1. [k \in 1 .. N |-> parts[k]] = parts
    OBVIOUS
  <2>2. t = FlattenSeq(parts)
    BY <1>2
  <2> HIDE DEF parts
  <2> QED
    BY <1>6, <2>1, <2>2
<1>8. \A i \in 1 .. N : parts[i] = IF i \in Keep THEN <<s[i]>> ELSE <<>>
  OBVIOUS
<1> HIDE DEF parts
<1> DEFINE T == {n \in Nat : n <= N => \E g : KeptFrom(f[n], g, s, Keep \cap (1 .. n))}
<1>9. 0 \in T
  <2>1. f[0] = <<>> /\ Keep \cap (1 .. 0) = {}
    BY <1>6
  <2>2. KeptFrom(f[0], <<>>, s, Keep \cap (1 .. 0))
    BY <2>1 DEF KeptFrom
  <2> QED
    BY <2>2
<1>10. ASSUME NEW n \in Nat, n \in T
       PROVE  n + 1 \in T
  <2> SUFFICES ASSUME n + 1 <= N
               PROVE  \E g : KeptFrom(f[n + 1], g, s, Keep \cap (1 .. n + 1))
    <3>1. n + 1 \in Nat
      OBVIOUS
    <3> QED
      BY <3>1, Zenon
  <2>1. PICK g : KeptFrom(f[n], g, s, Keep \cap (1 .. n))
    <3>1. n <= N
      BY <1>2
    <3> QED
      BY <1>10, <3>1, Zenon
  <2>2. f[n] \in Seq(S) /\ f[n + 1] = f[n] \o parts[n + 1] /\ n + 1 \in 1 .. N /\ s[n + 1] \in S
    <3>1. n + 1 \in 1 .. N /\ (n + 1) - 1 = n /\ n \in 0 .. N
      BY <1>2
    <3>2. f[n + 1] = f[(n + 1) - 1] \o parts[n + 1]
      BY <1>6, <3>1
    <3> QED
      BY <1>2, <3>1, <3>2
  <2>3. CASE n + 1 \notin Keep
    <3>1. f[n + 1] = f[n]
      BY <1>8, <2>2, <2>3, ConcatEmptySeq
    <3>2. Keep \cap (1 .. n + 1) = Keep \cap (1 .. n)
      BY <2>3
    <3> QED
      BY <2>1, <3>1, <3>2
  <2>4. CASE n + 1 \in Keep
    <3>1. PICK L \in Nat : L = Len(f[n])
      BY <2>2
    <3>2. f[n + 1] = f[n] \o <<s[n + 1]>> /\ <<s[n + 1]>> \in Seq(S) /\ Len(<<s[n + 1]>>) = 1
      <4>1. parts[n + 1] = <<s[n + 1]>>
        BY <1>8, <2>2, <2>4
      <4>2. PICK x \in S : x = s[n + 1]
        BY <2>2
      <4>3. <<x>> \in Seq(S) /\ Len(<<x>>) = 1
        OBVIOUS
      <4> QED
        BY <2>2, <4>1, <4>2, <4>3
    <3>3. /\ Len(f[n + 1]) = L + 1
          /\ \A k \in 1 .. L : f[n + 1][k] = f[n][k]
          /\ f[n + 1][L + 1] = s[n + 1]
      <4>1. \A j \in 1 .. 1 : (f[n] \o <<s[n + 1]>>)[L + j] = <<s[n + 1]>>[j]
        BY <2>2, <3>1, <3>2, ConcatShape
      <4>2. (f[n] \o <<s[n + 1]>>)[L + 1] = s[n + 1]
        <5>1. 1 \in 1 .. 1 /\ <<s[n + 1]>>[1] = s[n + 1]
          OBVIOUS
        <5> QED
          BY <4>1, <5>1
      <4> QED
        BY <2>2, <3>1, <3>2, <4>2, ConcatShape
    <3> DEFINE h == [k \in 1 .. L + 1 |-> IF k = L + 1 THEN n + 1 ELSE g[k]]
    <3>4. /\ \A k \in 1 .. L : g[k] \in Keep /\ g[k] \in 1 .. n /\ f[n][k] = s[g[k]]
          /\ \A i \in Keep \cap (1 .. n) : \E k \in 1 .. L : g[k] = i
          /\ \A j, k \in 1 .. L : g[j] = g[k] => j = k
      BY <2>1, <3>1 DEF KeptFrom
    <3>5. h \in [1 .. L + 1 -> Keep \cap (1 .. n + 1)]
      BY <2>4, <3>4
    <3>6. \A k \in 1 .. L + 1 : f[n + 1][k] = s[h[k]]
      BY <3>3, <3>4
    <3>7. ASSUME NEW i \in Keep \cap (1 .. n + 1)
          PROVE  \E k \in 1 .. L + 1 : h[k] = i
      <4>1. CASE i = n + 1
        <5>1. L + 1 \in 1 .. L + 1 /\ h[L + 1] = n + 1
          OBVIOUS
        <5> QED
          BY <4>1, <5>1
      <4>2. CASE i # n + 1
        <5>1. PICK k \in 1 .. L : g[k] = i
          BY <3>4, <4>2
        <5> QED
          BY <5>1
      <4> QED
        BY <4>1, <4>2
    <3>8. \A j, k \in 1 .. L + 1 : h[j] = h[k] => j = k
      BY <3>4
    <3> HIDE DEF h
    <3>9. KeptFrom(f[n + 1], h, s, Keep \cap (1 .. n + 1))
      BY <3>3, <3>5, <3>6, <3>7, <3>8 DEF KeptFrom
    <3> QED
      BY <3>9
  <2> QED
    BY <2>3, <2>4
<1>11. N \in T
  <2> HIDE DEF T
  <2> QED
    BY <1>2, <1>9, <1>10, Induction
<1>12. Keep \cap (1 .. N) = Keep
  BY <1>1
<1>13. N \in 0 .. N /\ N <= N
  BY <1>2
<1>14. f[N] \in Seq(S)
  BY <1>13
<1>15. \E g : KeptFrom(f[N], g, s, Keep \cap (1 .. N))
  BY <1>11, <1>13, Zenon
<1> QED
  BY <1>7, <1>12, <1>14, <1>15

LEMMA CatalogItems ==
    ASSUME ListsDistinct, NEW q, q.cmd = "Catalog"
    PROVE  Enumerates(Channels, Asked(q))
<1>1. Asked(q) = {OwnDevice} \cup {ExtraChannels[i] : i \in DOMAIN ExtraChannels}
  BY DEF Asked
<1> DEFINE A == {OwnDevice} \cup {ExtraChannels[i] : i \in DOMAIN ExtraChannels}
<1>2. PICK n \in Nat : n = Len(ExtraChannels) /\ DOMAIN ExtraChannels = 1 .. n
  BY RequestsAssumption
<1>3. <<OwnDevice>> \in Seq(A) /\ Len(<<OwnDevice>>) = 1 /\ <<OwnDevice>>[1] = OwnDevice
  OBVIOUS
<1>4. ExtraChannels \in Seq(A)
  <2>1. ExtraChannels = [i \in 1 .. n |-> ExtraChannels[i]]
    BY <1>2, RequestsAssumption
  <2> QED
    BY <1>2, <2>1
<1>5. /\ Channels \in Seq(A) /\ Len(Channels) = n + 1 /\ Channels[1] = OwnDevice
      /\ \A i \in 1 .. n : Channels[1 + i] = ExtraChannels[i]
  <2> HIDE DEF A
  <2>1. /\ <<OwnDevice>> \o ExtraChannels \in Seq(A)
        /\ Len(<<OwnDevice>> \o ExtraChannels) = 1 + n
        /\ \A i \in 1 .. 1 : (<<OwnDevice>> \o ExtraChannels)[i] = <<OwnDevice>>[i]
        /\ \A i \in 1 .. n : (<<OwnDevice>> \o ExtraChannels)[1 + i] = ExtraChannels[i]
    BY <1>2, <1>3, <1>4, ConcatShape
  <2> QED
    BY <1>2, <1>3, <2>1 DEF Channels
<1>6. ASSUME NEW a \in A
      PROVE  \E k \in 1 .. Len(Channels) : Channels[k] = a
  <2>1. CASE a = OwnDevice
    BY <1>5, <2>1
  <2>2. CASE a # OwnDevice
    <3>1. PICK i \in 1 .. n : a = ExtraChannels[i]
      BY <1>2, <2>2
    <3>2. 1 + i \in 1 .. Len(Channels) /\ Channels[1 + i] = a
      BY <1>5, <3>1
    <3> QED
      BY <3>2
  <2> QED
    BY <2>1, <2>2
<1>7. \A j, k \in 1 .. Len(Channels) : Channels[j] = Channels[k] => j = k
  <2>1. DOMAIN Channels = 1 .. Len(Channels)
    BY <1>5
  <2> QED
    BY <2>1 DEF ListsDistinct
<1> QED
  BY <1>1, <1>5, <1>6, <1>7 DEF Enumerates

(* The bounds of a RecordInfo query, as the lookup sees them.             *)
BoundOf(t) == IF t \in Nat THEN t ELSE Absent

LEMMA RecordingItems ==
    ASSUME ListsDistinct, AbsentIsApart, NEW q, q.cmd = "RecordInfo", NEW r,
           r.start = BoundOf(q.start), r.end = BoundOf(q.end)
    PROVE  Enumerates(RecordItems(r), Asked(q))
<1> DEFINE Keep == {j \in DOMAIN Segments :
                       q.start \in Nat /\ q.end \in Nat
                       /\ Segments[j].start <= q.end /\ q.start <= Segments[j].end}
           S == ToSet(Segments)
           t == RecordItems(r)
<1>1. Asked(q) = {Segments[i] : i \in Keep}
  BY DEF Asked
<1>2. /\ Segments \in Seq(S) /\ DOMAIN Segments = 1 .. Len(Segments) /\ Len(Segments) \in Nat
      /\ \A i \in 1 .. Len(Segments) : Segments[i].start \in Nat /\ Segments[i].end \in Nat
  <2>1. Segments \in Seq(S)
    BY RequestsAssumption
  <2> HIDE DEF S
  <2>2. DOMAIN Segments = 1 .. Len(Segments) /\ Len(Segments) \in Nat
    BY <2>1
  <2> QED
    BY <2>1, <2>2, RequestsAssumption
<1> HIDE DEF S
<1>3. CASE q.start \in Nat /\ q.end \in Nat
  <2> DEFINE kept == FlattenSeq([i \in DOMAIN Segments |->
                                   IF i \in Keep THEN <<Segments[i]>> ELSE <<>>])
             over(i) == Segments[i].start <= r.end /\ Segments[i].end >= r.start
  <2>1. r.start = q.start /\ r.end = q.end /\ r.start # Absent /\ r.end # Absent
    BY <1>3 DEF BoundOf, AbsentIsApart
  <2>2. \A i \in DOMAIN Segments : over(i) <=> i \in Keep
    BY <1>2, <1>3, <2>1
  <2>3. [i \in DOMAIN Segments |-> IF over(i) THEN <<Segments[i]>> ELSE <<>>]
         = [i \in DOMAIN Segments |-> IF i \in Keep THEN <<Segments[i]>> ELSE <<>>]
    <3> HIDE DEF Keep, over
    <3> QED
      BY <2>2
  <2>4. t = FlattenSeq([i \in DOMAIN Segments |-> IF over(i) THEN <<Segments[i]>> ELSE <<>>])
    BY <2>1, Zenon DEF RecordItems
  <2>5. t = kept
    <3> HIDE DEF Keep, over, t
    <3> QED
      BY <2>3, <2>4, Zenon
  <2>6. Keep \subseteq 1 .. Len(Segments)
    BY <1>2
  <2>7. t \in Seq(S) /\ \E g : KeptFrom(t, g, Segments, Keep)
    <3> HIDE DEF Keep, t
    <3> QED
      BY <1>2, <2>5, <2>6, KeptItems
  <2>8. PICK g : KeptFrom(t, g, Segments, Keep)
    BY <2>7
  <2> HIDE DEF t, kept, over
  <2>9. Len(t) \in Nat /\ t = [k \in 1 .. Len(t) |-> t[k]]
    BY <2>7
  <2>10. \A k \in 1 .. Len(t) : g[k] \in Keep /\ t[k] = Segments[g[k]]
    BY <2>8 DEF KeptFrom
  <2>11. t \in Seq(Asked(q))
    BY <1>1, <2>9, <2>10
  <2>12. ASSUME NEW a \in Asked(q)
         PROVE  \E k \in 1 .. Len(t) : t[k] = a
    <3>1. PICK i \in Keep : a = Segments[i]
      BY <1>1
    <3>2. PICK k \in 1 .. Len(t) : g[k] = i
      BY <2>8 DEF KeptFrom
    <3> QED
      BY <2>10, <3>1, <3>2
  <2>13. ASSUME NEW j \in 1 .. Len(t), NEW k \in 1 .. Len(t), t[j] = t[k]
         PROVE  j = k
    <3>1. g[j] = g[k]
      BY <2>10, <2>13 DEF ListsDistinct
    <3> QED
      BY <2>8, <3>1 DEF KeptFrom
  <2> QED
    BY <2>11, <2>12, <2>13 DEF Enumerates, t
<1>4. CASE ~(q.start \in Nat /\ q.end \in Nat)
  <2>1. r.start = Absent \/ r.end = Absent
    BY <1>4 DEF BoundOf
  <2>2. t = <<>> /\ Keep = {}
    BY <1>4, <2>1 DEF RecordItems
  <2> QED
    BY <1>1, <2>2 DEF Enumerates
<1> QED
  BY <1>3, <1>4

LEMMA MinOfTwo ==
    ASSUME NEW a \in Nat, NEW b \in Nat
    PROVE  Min({a, b}) = IF a <= b THEN a ELSE b
<1>1. \E x \in {a, b} : \A y \in {a, b} : x <= y
  OBVIOUS
<1>2. Min({a, b}) \in {a, b} /\ \A y \in {a, b} : Min({a, b}) <= y
  BY <1>1 DEF Min
<1> QED
  BY <1>2

(* The place k of page p holds item (p - 1) * M + k, and no other place   *)
(* holds it.                                                              *)
LEMMA PlaceOf ==
    ASSUME NEW M \in Nat \ {0}, NEW j \in Nat \ {0}
    PROVE  \E p \in Nat \ {0}, k \in 1 .. M : j = (p - 1) * M + k
<1> DEFINE d == (j - 1) \div M
           r == (j - 1) % M
<1>1. j - 1 \in Nat
  OBVIOUS
<1>2. d \in Nat /\ r \in 0 .. M - 1 /\ j - 1 = d * M + r
  BY <1>1
<1> HIDE DEF d, r
<1>3. d + 1 \in Nat \ {0} /\ r + 1 \in 1 .. M /\ ((d + 1) - 1) = d
  BY <1>2
<1>4. d * M \in Nat
  BY <1>2
<1>5. j = ((d + 1) - 1) * M + (r + 1)
  BY <1>2, <1>3, <1>4
<1> QED
  BY <1>3, <1>5

LEMMA PlacesDiffer ==
    ASSUME NEW M \in Nat \ {0}, NEW p \in Nat \ {0}, NEW q \in Nat \ {0},
           NEW k \in 1 .. M, NEW l \in 1 .. M, (p - 1) * M + k = (q - 1) * M + l
    PROVE  p = q /\ k = l
<1>1. ASSUME NEW a \in Nat \ {0}, NEW b \in Nat \ {0}, a < b, NEW c \in 1 .. M, NEW e \in 1 .. M
      PROVE  (a - 1) * M + c < (b - 1) * M + e
  <2>1. b - 1 - a \in Nat
    BY <1>1
  <2>2. (b - 1 - a) * M \in Nat
    BY <2>1
  <2>3. (a - 1) * M \in Nat
    OBVIOUS
  <2>4. (b - 1) * M = (b - 1 - a) * M + (a - 1) * M + M
    OBVIOUS
  <2> QED
    BY <2>2, <2>3, <2>4
<1>2. ~(p < q) /\ ~(q < p)
  <2>1. (p - 1) * M + k \in Int /\ (q - 1) * M + l \in Int
    OBVIOUS
  <2>2. p < q => (p - 1) * M + k < (q - 1) * M + l
    BY <1>1
  <2>3. q < p => (q - 1) * M + l < (p - 1) * M + k
    BY <1>1
  <2> QED
    BY <2>1, <2>2, <2>3
<1>3. p = q
  BY <1>2
<1>4. (p - 1) * M \in Nat
  OBVIOUS
<1> QED
  BY <1>3, <1>4

(* So many pages of at most M cover L items, and each starts in them.     *)
LEMMA PageCount ==
    ASSUME NEW L \in Nat, NEW M \in Nat \ {0}
    PROVE  /\ (L + M - 1) \div M \in Nat
           /\ ((L + M - 1) \div M) * M >= L
           /\ \A k \in 1 .. (L + M - 1) \div M : (k - 1) * M < L
<1>. DEFINE q == (L + M - 1) \div M
            r == (L + M - 1) % M
<1>1. L + M - 1 \in Nat
  OBVIOUS
<1>2. q \in Nat /\ r \in 0 .. M - 1 /\ q * M + r = L + M - 1
  BY <1>1
<1>. HIDE DEF q, r
<1>3. q * M \in Nat
  BY <1>2
<1>4. q * M >= L
  BY <1>2, <1>3
<1>5. ASSUME NEW k \in 1 .. q
      PROVE  (k - 1) * M < L
  <2>1. q - k \in Nat
    BY <1>2
  <2>2. (q - k) * M \in Nat
    BY <2>1
  <2>3. (k - 1) * M = q * M - (q - k) * M - M
    BY <1>2
  <2>4. (k - 1) * M \in Int
    BY <1>2
  <2> QED
    BY <1>2, <1>3, <2>2, <2>3, <2>4
<1> QED
  BY <1>2, <1>4, <1>5 DEF q

(* Every item of a list is at one place of its pages.                     *)
PagesList(pages, N, A) ==
    /\ N \in Nat \ {0} /\ DOMAIN pages = 1 .. N
    /\ \A p \in 1 .. N : /\ Len(pages[p]) \in Nat /\ Len(pages[p]) <= PageItems
                         /\ DOMAIN pages[p] = 1 .. Len(pages[p])
                         /\ \A k \in 1 .. Len(pages[p]) : pages[p][k] \in A
    /\ \A a \in A : \E p \in 1 .. N : \E k \in 1 .. Len(pages[p]) : pages[p][k] = a
    /\ \A p, q \in 1 .. N : \A k \in 1 .. Len(pages[p]), l \in 1 .. Len(pages[q]) :
          pages[p][k] = pages[q][l] => p = q /\ k = l

LEMMA PagesListAgrees ==
    ASSUME NEW pages, NEW others, NEW N, NEW A, PagesList(pages, N, A),
           DOMAIN others = 1 .. N, \A p \in 1 .. N : others[p] = pages[p]
    PROVE  PagesList(others, N, A)
<1>1. N \in Nat \ {0}
  BY DEF PagesList
<1>2. \A p \in 1 .. N : /\ Len(others[p]) \in Nat /\ Len(others[p]) <= PageItems
                         /\ DOMAIN others[p] = 1 .. Len(others[p])
                         /\ \A k \in 1 .. Len(others[p]) : others[p][k] \in A
  BY DEF PagesList
<1>3. ASSUME NEW a \in A
      PROVE  \E p \in 1 .. N : \E k \in 1 .. Len(others[p]) : others[p][k] = a
  <2>1. PICK p \in 1 .. N : \E k \in 1 .. Len(pages[p]) : pages[p][k] = a
    BY Zenon DEF PagesList
  <2>2. others[p] = pages[p]
    BY <2>1
  <2> QED
    BY <2>1, <2>2
<1>4. ASSUME NEW p \in 1 .. N, NEW q \in 1 .. N, NEW k \in 1 .. Len(others[p]),
             NEW l \in 1 .. Len(others[q]), others[p][k] = others[q][l]
      PROVE  p = q /\ k = l
  <2>1. k \in 1 .. Len(pages[p]) /\ l \in 1 .. Len(pages[q]) /\ pages[p][k] = pages[q][l]
    BY <1>4
  <2> QED
    BY <2>1 DEF PagesList
<1> QED
  BY <1>1, <1>2, <1>3, <1>4, Zenon DEF PagesList

LEMMA PagesOfList ==
    ASSUME NEW A, NEW items, Enumerates(items, A)
    PROVE  \E N : PagesList(Pages(items), N, A)
<1>1. PICK L \in Nat : L = Len(items)
  BY DEF Enumerates
<1>2. PICK M \in Nat \ {0} : M = PageItems
  BY RequestsAssumption
<1>3. /\ items \in Seq(A) /\ \A i \in 1 .. L : items[i] \in A
      /\ \A a \in A : \E k \in 1 .. L : items[k] = a
      /\ \A j, k \in 1 .. L : items[j] = items[k] => j = k
  BY <1>1 DEF Enumerates
<1>4. CASE L = 0
  <2>1. items = <<>> /\ A = {}
    BY <1>1, <1>3, <1>4
  <2>2. Pages(items) = << <<>> >>
    BY <2>1 DEF Pages
  <2>3. PagesList(<< <<>> >>, 1, A)
    BY <1>2, <2>1 DEF PagesList
  <2> QED
    BY <2>2, <2>3
<1>5. CASE L # 0
  <2>1. PICK N : N = (L + M - 1) \div M
    OBVIOUS
  <2>2. N \in Nat /\ N * M >= L /\ \A k \in 1 .. N : (k - 1) * M < L
    BY <2>1, PageCount
  <2>3. N # 0
    BY <1>5, <2>2
  <2>4. PICK pages : pages = Pages(items)
    OBVIOUS
  <2>5. /\ DOMAIN pages = 1 .. N
        /\ \A p \in 1 .. N : pages[p] = SubSeq(items, (p - 1) * M + 1, Min({p * M, L}))
    <3>1. items # <<>>
      BY <1>1, <1>5
    <3>2. pages = Chunks(items)
      BY <2>4, <3>1 DEF Pages
    <3>3. Chunks(items) = [p \in 1 .. (L + M - 1) \div M |->
                               SubSeq(items, (p - 1) * M + 1, Min({p * M, L}))]
      BY <1>1, <1>2, Zenon DEF Chunks
    <3>4. pages = [p \in 1 .. N |-> SubSeq(items, (p - 1) * M + 1, Min({p * M, L}))]
      BY <2>1, <3>2, <3>3, Zenon
    <3> QED
      BY <3>4
  <2>6. ASSUME NEW p \in 1 .. N
        PROVE  /\ Len(pages[p]) \in Nat /\ Len(pages[p]) <= M
               /\ DOMAIN pages[p] = 1 .. Len(pages[p])
               /\ \A k \in 1 .. M : k <= Len(pages[p]) <=> (p - 1) * M + k <= L
               /\ \A k \in 1 .. Len(pages[p]) : /\ (p - 1) * M + k \in 1 .. L
                                                /\ pages[p][k] = items[(p - 1) * M + k]
    <3>1. PICK a \in Nat : a = (p - 1) * M
      OBVIOUS
    <3>2. a < L /\ p * M = a + M
      BY <2>2, <3>1
    <3>3. PICK b \in Nat : b = IF a + M <= L THEN a + M ELSE L
      OBVIOUS
    <3>4. pages[p] = SubSeq(items, a + 1, b)
      <4>1. Min({a + M, L}) = b
        BY <3>3, MinOfTwo
      <4> QED
        BY <2>5, <3>1, <3>2, <4>1
    <3>5. b <= L /\ a < b /\ b - a <= M /\ \A k \in 1 .. M : k <= b - a <=> a + k <= L
      BY <3>2, <3>3
    <3>6. /\ Len(pages[p]) = b - a /\ DOMAIN pages[p] = 1 .. b - a
          /\ \A k \in 1 .. b - a : pages[p][k] = items[a + k]
      <4>1. SubSeq(items, a + 1, b) = [k \in 1 .. (b - (a + 1) + 1) |-> items[a + 1 + k - 1]]
        BY <1>1, <1>3, <3>5 DEF SubSeq
      <4>2. b - (a + 1) + 1 = b - a
        BY <3>5
      <4>3. SubSeq(items, a + 1, b) \in Seq(A) /\ Len(SubSeq(items, a + 1, b)) = b - a
        BY <1>1, <1>3, <3>5
      <4>4. \A k \in 1 .. b - a : a + 1 + k - 1 = a + k
        OBVIOUS
      <4> QED
        BY <3>4, <4>1, <4>2, <4>3, <4>4
    <3> QED
      BY <3>1, <3>5, <3>6
  <2>7. ASSUME NEW x \in A
        PROVE  \E p \in 1 .. N : \E k \in 1 .. Len(pages[p]) : pages[p][k] = x
    <3>1. PICK j \in 1 .. L : items[j] = x
      BY <1>3
    <3>2. PICK p \in Nat \ {0}, k \in 1 .. M : j = (p - 1) * M + k
      <4>1. j \in Nat \ {0}
        BY <3>1
      <4> QED
        BY <4>1, PlaceOf
    <3>3. p \in 1 .. N
      <4>1. ~(p > N)
        <5> SUFFICES ASSUME p > N PROVE FALSE
          OBVIOUS
        <5>1. p - 1 - N \in Nat
          BY <2>2
        <5>2. (p - 1 - N) * M \in Nat /\ N * M \in Nat
          BY <2>2, <5>1
        <5>3. (p - 1) * M = N * M + (p - 1 - N) * M
          BY <2>2
        <5>4. (p - 1) * M \in Int
          OBVIOUS
        <5> QED
          BY <2>2, <3>1, <3>2, <5>2, <5>3, <5>4
      <4> QED
        BY <2>2, <4>1
    <3>4. k <= Len(pages[p]) /\ k \in 1 .. Len(pages[p])
      BY <2>6, <3>1, <3>2, <3>3
    <3> QED
      BY <2>6, <3>1, <3>2, <3>3, <3>4
  <2>8. ASSUME NEW p \in 1 .. N, NEW q \in 1 .. N, NEW k \in 1 .. Len(pages[p]),
               NEW l \in 1 .. Len(pages[q]), pages[p][k] = pages[q][l]
        PROVE  p = q /\ k = l
    <3>1. (p - 1) * M + k = (q - 1) * M + l
      BY <1>3, <2>6, <2>8
    <3>2. k \in 1 .. M /\ l \in 1 .. M /\ p \in Nat \ {0} /\ q \in Nat \ {0}
      <4>1. /\ Len(pages[p]) \in Nat /\ Len(pages[p]) <= M
            /\ Len(pages[q]) \in Nat /\ Len(pages[q]) <= M
        BY <2>6
      <4> QED
        BY <2>2, <4>1
    <3> QED
      BY <3>1, <3>2, PlacesDiffer
  <2>9. \A p \in 1 .. N : \A k \in 1 .. Len(pages[p]) : pages[p][k] \in A
    <3> SUFFICES ASSUME NEW p \in 1 .. N, NEW k \in 1 .. Len(pages[p])
                 PROVE  pages[p][k] \in A
      OBVIOUS
    <3>1. pages[p][k] = items[(p - 1) * M + k] /\ (p - 1) * M + k \in 1 .. L
      BY <2>6
    <3> QED
      BY <1>3, <3>1
  <2>10. PagesList(pages, N, A)
    BY <1>2, <2>2, <2>3, <2>5, <2>6, <2>7, <2>8, <2>9 DEF PagesList
  <2> QED
    BY <2>4, <2>10
<1> QED
  BY <1>4, <1>5

(* The pages that answer a list query.                                    *)
Listing(q, body) ==
    IF q.cmd = "Catalog" THEN CatalogPages(q) ELSE RecordInfoPages(ParseRecordInfoQuery(body))

ListQuery(body) ==
    LET q == ParseQueryDual(body) IN q # Absent /\ q.cmd \in {"Catalog", "RecordInfo"}

InOneForm(body) == "CmdType" \in DOMAIN body => "@CmdType" \notin DOMAIN body

LEMMA NumberedInOneForm ==
    ASSUME BodiesWellFormed, NEW b \in Bodies \cup LaterBodies, NEW sn
    PROVE  InOneForm(Numbered(b, sn))
BY DEF BodiesWellFormed, InOneForm, Numbered, ++

(* Where the query was found, and that the body is nothing else.          *)
LEMMA ListQueryParsed ==
    ASSUME AbsentIsApart, NEW body, InOneForm(body), ListQuery(body)
    PROVE  /\ ParseConfigSnapshot(body) = Absent /\ ParseDeviceControl(body) = Absent
           /\ ParseDeviceConfig(body) = Absent /\ ParseBroadcastNotify(body) = Absent
           /\ \E at : ParseQueryDual(body) = QueryOf(body[at["CmdType"]], body, at)
<1> DEFINE q == ParseQueryDual(body)
<1>1. /\ AsChild["CmdType"] = "CmdType" /\ AsChild["SN"] = "SN" /\ AsChild["DeviceID"] = "DeviceID"
      /\ AsAttribute["CmdType"] = "@CmdType" /\ AsAttribute["SN"] = "@SN"
      /\ AsAttribute["DeviceID"] = "@DeviceID"
  BY DEF AsChild, AsAttribute
<1>2. q # Absent /\ q.cmd \in {"Catalog", "RecordInfo"}
  BY DEF ListQuery
<1>3. \/ {"CmdType", "SN", "DeviceID"} \subseteq DOMAIN body
         /\ q = QueryOf(body["CmdType"], body, AsChild)
      \/ ~({"CmdType", "SN", "DeviceID"} \subseteq DOMAIN body) /\ "@CmdType" \in DOMAIN body
         /\ q = QueryOf(body["@CmdType"], body, AsAttribute)
  BY <1>1, <1>2 DEF ParseQueryDual
<1> HIDE DEF q
<1>4. CASE {"CmdType", "SN", "DeviceID"} \subseteq DOMAIN body
           /\ q = QueryOf(body["CmdType"], body, AsChild)
  <2>1. body["CmdType"] = q.cmd /\ "CmdType" \in DOMAIN body /\ "@CmdType" \notin DOMAIN body
    BY <1>4 DEF QueryOf, InOneForm
  <2>2. Text(body, "CmdType") \in {"Catalog", "RecordInfo"}
    BY <1>2, <2>1 DEF Text
  <2>3. /\ ParseConfigSnapshot(body) = Absent /\ ParseDeviceControl(body) = Absent
        /\ ParseDeviceConfig(body) = Absent
    BY <2>2 DEF ParseConfigSnapshot, ParseDeviceControl, ParseDeviceConfig
  <2>4. ParseBroadcastNotify(body) = Absent
    BY <1>2, <2>1 DEF ParseBroadcastNotify
  <2> QED
    BY <1>1, <1>4, <2>3, <2>4 DEF q
<1>5. CASE ~({"CmdType", "SN", "DeviceID"} \subseteq DOMAIN body) /\ "@CmdType" \in DOMAIN body
           /\ q = QueryOf(body["@CmdType"], body, AsAttribute)
  <2>1. body["@CmdType"] = q.cmd /\ "CmdType" \notin DOMAIN body
    BY <1>5 DEF QueryOf, InOneForm
  <2>2. Text(body, "CmdType") = Absent
    BY <2>1 DEF Text
  <2>3. /\ ParseConfigSnapshot(body) = Absent /\ ParseDeviceControl(body) = Absent
        /\ ParseDeviceConfig(body) = Absent
    BY <2>2 DEF ParseConfigSnapshot, ParseDeviceControl, ParseDeviceConfig, AbsentIsApart
  <2>4. ParseBroadcastNotify(body) = Absent
    BY <1>2, <2>1 DEF ParseBroadcastNotify
  <2> QED
    BY <1>1, <1>5, <2>3, <2>4 DEF q
<1> QED
  BY <1>3, <1>4, <1>5

(* What the pages of a list query are like.                               *)
ListingShape(L, N, q) ==
    /\ N \in Nat \ {0} /\ L = [p \in 1 .. N |-> L[p]]
    /\ \A p \in 1 .. N : /\ L[p].kind = "answer" /\ L[p].cmd = q.cmd /\ L[p].sn = q.sn
                         /\ L[p].sum_num = Cardinality(Asked(q))
    /\ PagesList([p \in 1 .. N |-> L[p].items], N, Asked(q))

LEMMA ListingIsList ==
    ASSUME AbsentIsApart, ListsDistinct, NEW body, InOneForm(body), ListQuery(body)
    PROVE  LET q == ParseQueryDual(body) IN \E N : ListingShape(Listing(q, body), N, q)
<1>1. PICK q : q = ParseQueryDual(body)
  OBVIOUS
<1>2. q # Absent /\ q.cmd \in {"Catalog", "RecordInfo"}
  BY <1>1 DEF ListQuery
<1>3. CASE q.cmd = "Catalog"
  <2>1. Enumerates(Channels, Asked(q))
    BY <1>3, CatalogItems
  <2>2. PICK N : PagesList(Pages(Channels), N, Asked(q))
    BY <2>1, PagesOfList
  <2>3. Len(Channels) = Cardinality(Asked(q))
    BY <2>1, EnumerationCounts
  <2>4. PICK pages : pages = Pages(Channels)
    OBVIOUS
  <2>5. N \in Nat \ {0} /\ DOMAIN pages = 1 .. N
    BY <2>2, <2>4 DEF PagesList
  <2>6. PICK L : L = Listing(q, body)
    OBVIOUS
  <2>7. L = [p \in 1 .. N |-> BuildCatalogResponsePage(q.sn, OwnDevice, pages[p], Len(Channels))]
    BY <1>3, <2>4, <2>5, <2>6, Zenon DEF Listing, CatalogPages
  <2>8. ASSUME NEW p \in 1 .. N
        PROVE  /\ L[p].kind = "answer" /\ L[p].cmd = "Catalog" /\ L[p].sn = q.sn
               /\ L[p].sum_num = Len(Channels) /\ L[p].items = pages[p]
    <3>1. L[p] = BuildCatalogResponsePage(q.sn, OwnDevice, pages[p], Len(Channels))
      BY <2>7
    <3> QED
      BY <3>1 DEF BuildCatalogResponsePage, Answer, ++
  <2>9. PagesList([p \in 1 .. N |-> L[p].items], N, Asked(q))
    <3>1. PICK ps : ps = [p \in 1 .. N |-> L[p].items]
      OBVIOUS
    <3>2. DOMAIN ps = 1 .. N /\ \A p \in 1 .. N : ps[p] = pages[p]
      BY <2>8, <3>1
    <3>3. PagesList(ps, N, Asked(q))
      BY <2>2, <2>4, <3>2, PagesListAgrees
    <3> QED
      BY <3>1, <3>3
  <2>10. L = [p \in 1 .. N |-> L[p]]
    BY <2>7
  <2>11. ListingShape(L, N, q)
    BY <1>3, <2>3, <2>5, <2>8, <2>9, <2>10 DEF ListingShape
  <2> QED
    BY <1>1, <2>6, <2>11
<1>4. CASE q.cmd = "RecordInfo"
  <2>1. PICK at : q = QueryOf(body[at["CmdType"]], body, at)
    BY <1>1, ListQueryParsed
  <2>2. PICK r : r = ParseRecordInfoQuery(body)
    OBVIOUS
  <2>3. r = [q EXCEPT !.start = BoundOf(@), !.end = BoundOf(@)]
    BY <1>1, <1>2, <1>4, <2>2 DEF ParseRecordInfoQuery, BoundOf
  <2>4. r.start = BoundOf(q.start) /\ r.end = BoundOf(q.end) /\ r.sn = q.sn
    BY <2>1, <2>3 DEF QueryOf
  <2>5. PICK items : items = RecordItems(r)
    OBVIOUS
  <2>6. Enumerates(items, Asked(q))
    BY <1>4, <2>4, <2>5, RecordingItems
  <2>7. PICK N : PagesList(Pages(items), N, Asked(q))
    BY <2>6, PagesOfList
  <2>8. Len(items) = Cardinality(Asked(q))
    BY <2>6, EnumerationCounts
  <2>9. PICK pages : pages = Pages(items)
    OBVIOUS
  <2>10. N \in Nat \ {0} /\ DOMAIN pages = 1 .. N
    BY <2>7, <2>9 DEF PagesList
  <2>11. PICK L : L = Listing(q, body)
    OBVIOUS
  <2>12. L = [p \in 1 .. N |-> BuildRecordInfoResponsePage(q.sn, r.device, pages[p], Len(items))]
    <3>1. L = RecordInfoPages(r)
      BY <1>4, <2>2, <2>11 DEF Listing
    <3> QED
      BY <2>4, <2>5, <2>9, <2>10, <3>1, Zenon DEF RecordInfoPages
  <2>13. ASSUME NEW p \in 1 .. N
         PROVE  /\ L[p].kind = "answer" /\ L[p].cmd = "RecordInfo" /\ L[p].sn = q.sn
                /\ L[p].sum_num = Len(items) /\ L[p].items = pages[p]
    <3>1. L[p] = BuildRecordInfoResponsePage(q.sn, r.device, pages[p], Len(items))
      BY <2>12
    <3> QED
      BY <3>1 DEF BuildRecordInfoResponsePage, Answer, ++
  <2>14. PagesList([p \in 1 .. N |-> L[p].items], N, Asked(q))
    <3>1. PICK ps : ps = [p \in 1 .. N |-> L[p].items]
      OBVIOUS
    <3>2. DOMAIN ps = 1 .. N /\ \A p \in 1 .. N : ps[p] = pages[p]
      BY <2>13, <3>1
    <3>3. PagesList(ps, N, Asked(q))
      BY <2>7, <2>9, <3>2, PagesListAgrees
    <3> QED
      BY <3>1, <3>3
  <2>15. L = [p \in 1 .. N |-> L[p]]
    BY <2>12
  <2>16. ListingShape(L, N, q)
    BY <1>4, <2>8, <2>10, <2>13, <2>14, <2>15 DEF ListingShape
  <2> QED
    BY <1>1, <2>11, <2>16
<1> QED
  BY <1>2, <1>3, <1>4

(* What handling a list query does: the final response, then its pages.   *)
PagePlan(body) ==
    LET L == Listing(ParseQueryDual(body), body)
    IN  [j \in 1 .. Len(L) + 1 |-> IF j = 1 THEN Final(200) ELSE Send(L[j - 1])]

PlanShape(plan) ==
    /\ Len(plan) \in Nat \ {0} /\ plan = [k \in 1 .. Len(plan) |-> plan[k]]
    /\ \A k \in 1 .. Len(plan) : plan[k].act = "send"

LEMMA LengthOfList ==
    ASSUME NEW L, NEW N \in Nat, L = [p \in 1 .. N |-> L[p]]
    PROVE  Len(L) = N /\ L \in Seq({L[p] : p \in 1 .. N}) /\ DOMAIN L = 1 .. N
<1> DEFINE S == {L[p] : p \in 1 .. N}
<1>1. L \in [1 .. N -> S]
  OBVIOUS
<1> HIDE DEF S
<1>2. L \in Seq(S)
  BY <1>1
<1> QED
  BY <1>1, <1>2 DEF S

LEMMA ListDispatch ==
    ASSUME AbsentIsApart, ListsDistinct, NEW r, r.method = "MESSAGE", r.note, r.manscdp,
           InOneForm(r.body), ListQuery(r.body)
    PROVE  Dispatch(r) = PagePlan(r.body) /\ PlanShape(PagePlan(r.body))
<1>1. PICK body : body = r.body
  OBVIOUS
<1>2. PICK q : q = ParseQueryDual(body)
  OBVIOUS
<1>3. q # Absent /\ q.cmd \in {"Catalog", "RecordInfo"}
  BY <1>1, <1>2 DEF ListQuery
<1>4. PICK L : L = Listing(q, body)
  OBVIOUS
<1>5. PICK N \in Nat : L = [p \in 1 .. N |-> L[p]]
  <2>1. \E N : ListingShape(L, N, q)
    BY <1>1, <1>2, <1>4, ListingIsList
  <2> QED
    BY <2>1 DEF ListingShape
<1>6. BuildQueryResponse(body, TRUE) = L
  BY <1>2, <1>3, <1>4 DEF BuildQueryResponse, Listing, InfoQueries, Rejected
<1>7. MessageEffects(body, TRUE) = SendAll(L)
  BY <1>1, <1>6, ListQueryParsed DEF MessageEffects
<1>8. PICK rest : rest = [i \in 1 .. N |-> Send(L[i])]
  OBVIOUS
<1>9. SendAll(L) = rest
  BY <1>5, <1>8 DEF SendAll
<1>10. PICK first : first = Final(200)
  OBVIOUS
<1>11. Dispatch(r) = <<first>> \o rest
  BY <1>1, <1>7, <1>9, <1>10 DEF Dispatch
<1>12. PICK D : D = <<first>> \o rest
  OBVIOUS
<1>13. D = [j \in 1 .. N + 1 |-> IF j = 1 THEN first ELSE Send(L[j - 1])]
  <2> DEFINE S == {first} \cup {rest[p] : p \in 1 .. N}
  <2>1. Len(rest) = N /\ rest \in Seq(S)
    <3>1. rest = [p \in 1 .. N |-> rest[p]]
      BY <1>8
    <3>2. Len(rest) = N /\ rest \in Seq({rest[p] : p \in 1 .. N})
      BY <3>1, LengthOfList
    <3> QED
      BY <3>1, <3>2
  <2>2. <<first>> \in Seq(S) /\ Len(<<first>>) = 1
    OBVIOUS
  <2> HIDE DEF S
  <2>3. /\ D \in Seq(S) /\ Len(D) = N + 1
        /\ \A j \in 1 .. N + 1 : D[j] = IF j = 1 THEN first ELSE rest[j - 1]
    <3>1. /\ D \in Seq(S) /\ Len(D) = 1 + N
          /\ \A j \in 1 .. 1 + N : D[j] = IF j <= 1 THEN <<first>>[j] ELSE rest[j - 1]
      BY <1>12, <2>1, <2>2, ConcatProperties
    <3>2. <<first>>[1] = first
      OBVIOUS
    <3> QED
      BY <3>1, <3>2
  <2>4. \A j \in 1 .. N + 1 : j # 1 => rest[j - 1] = Send(L[j - 1])
    BY <1>8
  <2> QED
    BY <2>3, <2>4
<1>14. PagePlan(body) = [j \in 1 .. N + 1 |-> IF j = 1 THEN first ELSE Send(L[j - 1])]
  <2>1. Len(L) = N
    BY <1>5, LengthOfList
  <2> QED
    BY <1>2, <1>4, <1>10, <2>1 DEF PagePlan
<1>15. first.act = "send" /\ \A m : Send(m).act = "send"
  BY <1>10 DEF Final, Send
<1>16. PlanShape(D)
  <2>1. Len(D) = N + 1
    <3>1. N + 1 \in Nat /\ D = [j \in 1 .. N + 1 |-> D[j]]
      BY <1>13
    <3> QED
      BY <3>1, LengthOfList
  <2> QED
    BY <1>13, <1>15, <2>1 DEF PlanShape
<1> QED
  BY <1>1, <1>11, <1>12, <1>13, <1>14, <1>16

(* A list query the device received once and answers to the end.          *)
AsksList(id) ==
    /\ received[id].method = "MESSAGE" /\ received[id].note /\ received[id].manscdp
    /\ ListQuery(received[id].body)
    /\ id \notin cut /\ copies[id] = 1

About(id) == {i \in DOMAIN sent : sent[i].about = id}

(* The first d effects of the plan went out, the k-th at place f[k], and  *)
(* nothing else about the request; the rest is ahead.                     *)
Told(id, plan, d, f) ==
    /\ f \in [1 .. d -> About(id)]
    /\ \A i \in About(id) : \E k \in 1 .. d : f[k] = i
    /\ \A k, l \in 1 .. d : f[k] = f[l] => k = l
    /\ \A k \in 1 .. d : sent[f[k]].message = plan[k].message
    /\ Ahead(id) = [k \in 1 .. Len(plan) - d |-> plan[d + k]]
    /\ handler.about = id => d < Len(plan)

Answering(id) ==
    /\ \A t \in tasks : t.about # id
    /\ \E d \in 0 .. Len(PagePlan(received[id].body)) :
          \E f \in [1 .. d -> About(id)] : Told(id, PagePlan(received[id].body), d, f)

PagingInv ==
    /\ VerdictInv
    /\ \A id \in Id : AsksList(id) => Answering(id)

LEMMA AnsweringStays ==
    ASSUME NEW id, Answering(id), received'[id] = received[id], Ahead(id)' = Ahead(id),
           handler'.about = id => handler.about = id, \A t \in tasks' : t.about # id,
           DOMAIN sent \subseteq DOMAIN sent', \A i \in DOMAIN sent : sent'[i] = sent[i],
           \A i \in DOMAIN sent' : i \notin DOMAIN sent => sent'[i].about # id
    PROVE  Answering(id)'
<1>1. About(id)' = About(id)
  BY DEF About
<1>2. PICK plan : plan = PagePlan(received[id].body)
  OBVIOUS
<1>3. PICK d \in 0 .. Len(plan) : \E f \in [1 .. d -> About(id)] : Told(id, plan, d, f)
  BY <1>2 DEF Answering
<1>4. PICK f \in [1 .. d -> About(id)] : Told(id, plan, d, f)
  BY <1>3
<1>5. PagePlan(received[id].body)' = plan
  BY <1>2
<1>6. \A k \in 1 .. d : sent'[f[k]] = sent[f[k]]
  BY <1>4 DEF About
<1>7. Told(id, plan, d, f)'
  BY <1>1, <1>4, <1>6 DEF Told
<1> QED
  BY <1>1, <1>3, <1>4, <1>5, <1>7 DEF Answering

LEMMA AsksListStays ==
    ASSUME NEW id, received'[id] = received[id], cut \subseteq cut',
           copies'[id] = 1 => copies[id] = 1
    PROVE  AsksList(id)' => AsksList(id)
BY DEF AsksList, ListQuery

(* A list query of the platform has a plan, which is what it is handled by. *)
LEMMA PlanOfQuery ==
    ASSUME AbsentIsApart, BodiesWellFormed, ListsDistinct, BodiesKnown, NEW id \in Id, AsksList(id)
    PROVE  /\ Dispatch(received[id]) = PagePlan(received[id].body)
           /\ PlanShape(PagePlan(received[id].body))
<1>1. PICK b \in Bodies \cup LaterBodies : received[id].body = Numbered(b, id)
  BY DEF BodiesKnown, AsksList
<1>2. InOneForm(received[id].body)
  BY <1>1, NumberedInOneForm
<1> QED
  BY <1>2, ListDispatch DEF AsksList

(* The next effect of a list query is the next of its plan.               *)
AtNext(id, plan) ==
    \E d \in 0 .. Len(plan) - 1 : \E f \in [1 .. d -> About(id)] :
        /\ Told(id, plan, d, f)
        /\ handler.todo = [k \in 1 .. Len(plan) - d |-> plan[d + k]]
        /\ Len(handler.todo) = Len(plan) - d
        /\ Effect = plan[d + 1] /\ Effect.act = "send"

LEMMA NextOfPlan ==
    ASSUME AbsentIsApart, BodiesWellFormed, ListsDistinct, PagingInv,
           handler # Idle, NEW id \in Id, id = handler.about, AsksList(id),
           NEW plan, plan = PagePlan(received[id].body)
    PROVE  PlanShape(plan) /\ AtNext(id, plan)
<1>1. PlanShape(plan)
  BY PlanOfQuery DEF PagingInv, VerdictInv
<1>2. PICK d \in 0 .. Len(plan) : \E f \in [1 .. d -> About(id)] : Told(id, plan, d, f)
  BY DEF PagingInv, Answering
<1>3. PICK f \in [1 .. d -> About(id)] : Told(id, plan, d, f)
  BY <1>2
<1>4. d < Len(plan) /\ Ahead(id) = [k \in 1 .. Len(plan) - d |-> plan[d + k]]
  BY <1>3 DEF Told
<1>5. PICK todo : todo = handler.todo
  OBVIOUS
<1>6. todo = [k \in 1 .. Len(plan) - d |-> plan[d + k]]
  BY <1>4, <1>5 DEF Ahead
<1>7. Len(todo) = Len(plan) - d /\ Head(todo) = plan[d + 1]
  <2>1. Len(plan) - d \in Nat /\ todo = [k \in 1 .. Len(plan) - d |-> todo[k]]
    BY <1>1, <1>4, <1>6 DEF PlanShape
  <2>2. Len(todo) = Len(plan) - d
    BY <2>1, LengthOfList
  <2>3. todo[1] = plan[d + 1]
    BY <1>1, <1>4, <1>6 DEF PlanShape
  <2> QED
    BY <2>2, <2>3
<1>8. plan[d + 1].act = "send" /\ d \in 0 .. Len(plan) - 1
  BY <1>1, <1>4 DEF PlanShape
<1> QED
  BY <1>1, <1>3, <1>5, <1>6, <1>7, <1>8 DEF Effect, AtNext

ListsAnswered == \A id \in Id : AsksList(id) => Answering(id)

LEMMA SendMessagePages ==
    ASSUME AbsentIsApart, BodiesWellFormed, ListsDistinct, PagingInv, SendMessage
    PROVE  ListsAnswered'
<1>1. PICK e : e = Effect
  OBVIOUS
<1>2. PICK h : h = handler.about
  OBVIOUS
<1> DEFINE m == [about |-> h, message |-> e.message]
<1>3. /\ handler # Idle /\ sent' = Append(sent, m) /\ handler' = Rest
      /\ UNCHANGED <<host, received, copies, tasks, executed, cut, lost>>
  BY <1>1, <1>2 DEF SendMessage
<1>4. m.about = h /\ m.message = e.message
  OBVIOUS
<1> HIDE DEF m
<1>5. Id' = Id /\ IsList(sent) /\ RequestsTyped
  BY <1>3 DEF PagingInv, VerdictInv, RequestsTyped, Id
<1>6. PICK n \in Nat :
         /\ DOMAIN sent = 1 .. n /\ DOMAIN sent' = 1 .. n + 1
         /\ \A i \in 1 .. n : sent'[i] = sent[i]
         /\ sent'[n + 1] = m
  <2>1. /\ Len(sent) \in Nat /\ DOMAIN sent = 1 .. Len(sent)
        /\ DOMAIN Append(sent, m) = 1 .. Len(sent) + 1
        /\ \A i \in 1 .. Len(sent) : Append(sent, m)[i] = sent[i]
        /\ Append(sent, m)[Len(sent) + 1] = m
    BY <1>5, ListGrows
  <2> QED
    BY <1>3, <2>1
<1>7. ASSUME NEW id \in Id, AsksList(id)'
      PROVE  Answering(id)'
  <2>1. AsksList(id)
    BY <1>3, <1>7, AsksListStays
  <2>2. Answering(id)
    BY <2>1 DEF PagingInv
  <2>3. CASE id # h
    <3>1. Ahead(id)' = Ahead(id) /\ handler'.about # id
      BY <1>2, <1>3, <1>5, <2>3, RestOfHandler
    <3>2. \A i \in DOMAIN sent' : i \notin DOMAIN sent => sent'[i].about # id
      BY <1>4, <1>6, <2>3
    <3>3. \A t \in tasks' : t.about # id
      BY <1>3, <2>2 DEF Answering
    <3> QED
      BY <1>3, <1>6, <2>2, <3>1, <3>2, <3>3, AnsweringStays
  <2>4. CASE id = h
    <3>1. PICK plan : plan = PagePlan(received[id].body)
      OBVIOUS
    <3>2. PlanShape(plan) /\ AtNext(id, plan)
      <4>1. handler # Idle /\ id = handler.about
        BY <1>2, <1>3, <2>4
      <4> QED
        BY <2>1, <3>1, <4>1, NextOfPlan
    <3>3. PICK N \in Nat : N = Len(plan)
      BY <3>2 DEF PlanShape
    <3>4. PICK d \in 0 .. N - 1 : \E f \in [1 .. d -> About(id)] :
                /\ Told(id, plan, d, f)
                /\ handler.todo = [k \in 1 .. N - d |-> plan[d + k]]
                /\ Len(handler.todo) = N - d
                /\ Effect = plan[d + 1]
      BY <3>2, <3>3 DEF AtNext
    <3>5. PICK f \in [1 .. d -> About(id)] :
                /\ Told(id, plan, d, f)
                /\ handler.todo = [k \in 1 .. N - d |-> plan[d + k]]
                /\ Len(handler.todo) = N - d
                /\ Effect = plan[d + 1]
      BY <3>4
    <3>6. About(id)' = About(id) \cup {n + 1} /\ n + 1 \notin About(id)
      BY <1>4, <1>6, <2>4 DEF About
    <3>7. PICK g : g = [k \in 1 .. d + 1 |-> IF k = d + 1 THEN n + 1 ELSE f[k]]
      OBVIOUS
    <3>8. /\ g \in [1 .. d + 1 -> About(id)'] /\ g[d + 1] = n + 1
          /\ \A k \in 1 .. d : g[k] = f[k] /\ g[k] \in About(id)
          /\ \A k \in 1 .. d + 1 : k \in 1 .. d \/ k = d + 1
      BY <3>5, <3>6, <3>7
    <3>9. \A i \in About(id)' : \E k \in 1 .. d + 1 : g[k] = i
      <4>1. \A i \in About(id) : \E k \in 1 .. d : f[k] = i
        BY <3>5 DEF Told
      <4> QED
        BY <3>6, <3>8, <4>1
    <3>10. \A k, l \in 1 .. d + 1 : g[k] = g[l] => k = l
      <4>1. \A k, l \in 1 .. d : f[k] = f[l] => k = l
        BY <3>5 DEF Told
      <4> QED
        BY <3>6, <3>8, <4>1
    <3>11. \A k \in 1 .. d + 1 : sent'[g[k]].message = plan[k].message
      <4>1. \A k \in 1 .. d : sent[f[k]].message = plan[k].message /\ f[k] \in 1 .. n
        BY <1>6, <3>5 DEF Told, About
      <4>2. m.message = plan[d + 1].message
        BY <1>1, <1>4, <3>5
      <4> QED
        BY <1>6, <3>8, <4>1, <4>2
    <3>12. /\ Ahead(id)' = [k \in 1 .. N - (d + 1) |-> plan[(d + 1) + k]]
           /\ handler'.about = id => d + 1 < N
      <4>1. PICK todo : todo = handler.todo
        OBVIOUS
      <4>2. todo = [k \in 1 .. N - d |-> plan[d + k]] /\ Len(todo) = N - d
        BY <3>5, <4>1
      <4>3. CASE N - d = 1
        <5>1. handler' = Idle
          BY <1>3, <4>1, <4>2, <4>3 DEF Rest
        <5>2. handler'.about # id /\ Idle.todo = <<>>
          BY <5>1, <1>5, ListGrows DEF Idle, Id, RequestsTyped
        <5>3. [k \in 1 .. N - (d + 1) |-> plan[(d + 1) + k]] = <<>>
          BY <4>3
        <5> QED
          BY <5>2, <5>3 DEF Ahead
      <4>4. CASE N - d # 1
        <5>1. handler' = [about |-> id, todo |-> Tail(todo)]
          BY <1>2, <1>3, <1>5, <2>4, <4>1, <4>2, <4>4 DEF Rest, RequestsTyped
        <5>2. Tail(todo) = [k \in 1 .. N - (d + 1) |-> plan[(d + 1) + k]]
          <6>1. N - d \in Nat /\ N - (d + 1) = N - d - 1
            BY <3>3, <3>4
          <6>2. Tail(todo) = [k \in 1 .. N - d - 1 |-> todo[k + 1]]
            BY <4>2, <6>1 DEF Tail
          <6>3. \A k \in 1 .. N - d - 1 : todo[k + 1] = plan[(d + 1) + k]
            BY <4>2, <6>1
          <6> QED
            BY <6>1, <6>2, <6>3
        <5> QED
          BY <3>4, <4>4, <5>1, <5>2 DEF Ahead
      <4> QED
        BY <4>3, <4>4
    <3>13. Told(id, plan, d + 1, g)'
      BY <3>3, <3>8, <3>9, <3>10, <3>11, <3>12 DEF Told
    <3>14. d + 1 \in 0 .. Len(plan) /\ PagePlan(received[id].body)' = plan
      BY <1>3, <3>1, <3>3, <3>4
    <3>15. \A t \in tasks' : t.about # id
      BY <1>3, <2>2 DEF Answering
    <3> QED
      BY <3>8, <3>13, <3>14, <3>15 DEF Answering
  <2> QED
    BY <2>3, <2>4
<1> QED
  BY <1>5, <1>7 DEF ListsAnswered

(* A step that sends nothing and starts nothing about a query it did not  *)
(* take from the platform.                                                *)
LEMMA QuietPages ==
    ASSUME PagingInv, UNCHANGED <<received, sent>>, cut \subseteq cut',
           \A id \in Id : copies'[id] = 1 => copies[id] = 1,
           \A id \in Id : AsksList(id)' /\ AsksList(id) =>
              /\ Ahead(id)' = Ahead(id)
              /\ handler'.about = id => handler.about = id
              /\ \A t \in tasks' : t.about = id => \E u \in tasks : u.about = id
    PROVE  ListsAnswered'
<1>1. Id' = Id
  BY DEF Id
<1>2. ASSUME NEW id \in Id, AsksList(id)'
      PROVE  Answering(id)'
  <2>1. AsksList(id)
    BY <1>2, AsksListStays
  <2>2. Answering(id)
    BY <2>1 DEF PagingInv
  <2>3. \A t \in tasks' : t.about # id
    BY <1>2, <2>1, <2>2 DEF Answering
  <2>4. Ahead(id)' = Ahead(id) /\ (handler'.about = id => handler.about = id)
    BY <1>2, <2>1
  <2> QED
    BY <2>2, <2>3, <2>4, AnsweringStays
<1> QED
  BY <1>1, <1>2 DEF ListsAnswered

LEMMA SendFailsPages == PagingInv /\ SendFails => ListsAnswered'
<1> SUFFICES ASSUME PagingInv, SendFails PROVE ListsAnswered'
  OBVIOUS
<1>1. /\ cut' = cut \cup {handler.about} /\ handler' = Idle
      /\ UNCHANGED <<host, received, copies, tasks, sent, executed, lost>>
  BY DEF SendFails
<1>2. 0 \notin Id
  BY ListGrows DEF PagingInv, VerdictInv, RequestsTyped, Id
<1>3. ASSUME NEW id \in Id, AsksList(id)'
      PROVE  Ahead(id)' = Ahead(id) /\ handler'.about # id
  <2>1. id # handler.about
    BY <1>1, <1>3 DEF AsksList
  <2> QED
    BY <1>1, <1>2, <2>1 DEF Ahead, Idle
<1> QED
  BY <1>1, <1>3, QuietPages

(* A hook is called or an exchange spawned: not for a list query.         *)
LEMMA OtherEffectPages ==
    ASSUME AbsentIsApart, BodiesWellFormed, ListsDistinct, PagingInv, CallHook \/ SpawnExchange
    PROVE  ListsAnswered'
<1>1. /\ handler # Idle /\ handler' = Rest /\ Effect.act # "send"
      /\ UNCHANGED <<host, received, copies, sent, cut, lost>>
      /\ \A t \in tasks' : t \in tasks \/ t.about = handler.about
  BY DEF CallHook, SpawnExchange
<1>2. ASSUME NEW id \in Id, AsksList(id)
      PROVE  id # handler.about
  <2> SUFFICES ASSUME id = handler.about PROVE FALSE
    OBVIOUS
  <2>1. PICK plan : plan = PagePlan(received[id].body)
    OBVIOUS
  <2>2. AtNext(id, plan)
    BY <1>1, <1>2, <2>1, NextOfPlan
  <2> QED
    BY <1>1, <2>2 DEF AtNext
<1>3. ASSUME NEW id \in Id, AsksList(id)
      PROVE  /\ Ahead(id)' = Ahead(id) /\ handler'.about # id
             /\ \A t \in tasks' : t.about = id => t \in tasks
  BY <1>1, <1>2, <1>3, RestOfHandler DEF PagingInv, VerdictInv
<1> QED
  BY <1>1, <1>3, QuietPages

LEMMA ExchangeEndsPages ==
    ASSUME PagingInv, NEW t \in tasks, NEW ok \in BOOLEAN, ExchangeEnds(t, ok)
    PROVE  ListsAnswered'
<1>1. PICK m : m.kind = "notify" /\ Report(t, ok) = <<m>>
  BY ReportIsOne
<1>2. PICK e : e = [about |-> t.about, message |-> m]
  OBVIOUS
<1>3. /\ tasks' = tasks \ {t}
      /\ UNCHANGED <<host, received, copies, handler, executed, cut>>
      /\ sent' = Append(sent, e) \/ sent' = sent
  <2>1. [i \in DOMAIN <<m>> |-> [about |-> t.about, message |-> <<m>>[i]]] = <<e>>
    BY <1>2
  <2>2. sent \o <<e>> = Append(sent, e)
    BY ListGrows DEF PagingInv, VerdictInv, RequestsTyped
  <2> QED
    BY <1>1, <2>1, <2>2 DEF ExchangeEnds
<1>4. ASSUME NEW id \in Id, AsksList(id)'
      PROVE  Answering(id)'
  <2>1. AsksList(id)
    BY <1>3, <1>4, AsksListStays
  <2>2. Answering(id) /\ t.about # id /\ \A x \in tasks' : x.about # id
    BY <1>3, <2>1 DEF PagingInv, Answering
  <2>3. /\ DOMAIN sent \subseteq DOMAIN sent' /\ \A i \in DOMAIN sent : sent'[i] = sent[i]
        /\ \A i \in DOMAIN sent' : i \notin DOMAIN sent => sent'[i].about # id
    <3>1. CASE sent' = Append(sent, e)
      <4>1. IsList(sent)
        BY DEF PagingInv, VerdictInv, RequestsTyped
      <4>2. /\ DOMAIN sent' = 1 .. Len(sent) + 1 /\ DOMAIN sent = 1 .. Len(sent)
            /\ Len(sent) \in Nat
            /\ \A i \in 1 .. Len(sent) : sent'[i] = sent[i]
            /\ sent'[Len(sent) + 1] = e
        BY <3>1, <4>1, ListGrows
      <4> QED
        BY <1>2, <2>2, <4>2
    <3> QED
      BY <1>3, <3>1
  <2>4. Ahead(id)' = Ahead(id)
    BY <1>3 DEF Ahead
  <2> QED
    BY <1>3, <2>2, <2>3, <2>4, AnsweringStays
<1> QED
  BY <1>3, <1>4 DEF ListsAnswered, Id

LEMMA ReceiveAgainPages ==
    ASSUME PagingInv, NEW re \in Id, ReceiveAgain(re)
    PROVE  ListsAnswered'
<1>1. /\ handler = Idle /\ copies' = [copies EXCEPT ![re] = @ + 1]
      /\ handler' = [about |-> re, todo |-> Dispatch(received[re])]
      /\ UNCHANGED <<host, received, tasks, sent, executed, cut, lost>>
  BY DEF ReceiveAgain, Takes
<1>2. copies \in [Id -> Nat \ {0}] /\ RequestsTyped
  BY DEF PagingInv, VerdictInv, RequestsTyped
<1>3. \A id \in Id : copies'[id] = 1 => id # re /\ copies[id] = 1
  BY <1>1, <1>2
<1>4. ASSUME NEW id \in Id, AsksList(id)'
      PROVE  Ahead(id)' = Ahead(id) /\ handler'.about # id
  <2>1. id # re
    BY <1>3, <1>4 DEF AsksList
  <2>2. Ahead(id) = <<>>
    BY <1>1, <1>2, IdleAhead
  <2> QED
    BY <1>1, <2>1, <2>2 DEF Ahead
<1> QED
  BY <1>1, <1>3, <1>4, QuietPages

LEMMA ReceivePages ==
    ASSUME AbsentIsApart, BodiesWellFormed, ListsDistinct, PagingInv, NEW body, NEW method,
           NEW note, NEW manscdp, method = "MESSAGE" => body \in Bodies \cup LaterBodies,
           Receive(body, method, note, manscdp)
    PROVE  ListsAnswered'
<1>1. PICK n : n = Len(received)
  OBVIOUS
<1> DEFINE request == [body |-> Numbered(body, n + 1), method |-> method, note |-> note,
                       manscdp |-> manscdp]
<1>2. request.method = method /\ request.body = Numbered(body, n + 1)
  OBVIOUS
<1>3. RequestsTyped /\ request = [body |-> Numbered(body, n + 1), method |-> method,
                                 note |-> note, manscdp |-> manscdp]
  BY DEF PagingInv, VerdictInv
<1> HIDE DEF request
<1>4. /\ n \in Nat /\ Id = 1 .. n /\ Id' = 1 .. n + 1
      /\ handler = Idle /\ handler' = [about |-> n + 1, todo |-> Dispatch(request)]
      /\ UNCHANGED <<host, tasks, sent, executed, cut, lost>>
      /\ received'[n + 1] = request /\ \A i \in 1 .. n : received'[i] = received[i]
      /\ \A i \in 1 .. n : copies'[i] = copies[i]
  BY <1>1, <1>3, ReceiveAppends
<1>5. ASSUME NEW id \in 1 .. n, AsksList(id)'
      PROVE  Answering(id)'
  <2>1. AsksList(id)
    BY <1>4, <1>5, AsksListStays
  <2>2. Answering(id)
    BY <1>4, <2>1 DEF PagingInv
  <2>3. Ahead(id) = <<>> /\ Ahead(id)' = <<>> /\ handler'.about # id
    BY <1>4, IdleAhead DEF PagingInv, VerdictInv, Ahead
  <2>4. \A t \in tasks' : t.about # id
    BY <1>4, <2>2 DEF Answering
  <2> QED
    BY <1>4, <2>2, <2>3, <2>4, AnsweringStays
<1>6. ASSUME AsksList(n + 1)'
      PROVE  Answering(n + 1)'
  <2>1. /\ request.method = "MESSAGE" /\ request.note /\ request.manscdp /\ ListQuery(request.body)
    BY <1>4, <1>6 DEF AsksList
  <2>2. InOneForm(request.body)
    BY <1>2, <2>1, NumberedInOneForm
  <2>3. PICK plan : plan = PagePlan(request.body)
    OBVIOUS
  <2>4. Dispatch(request) = plan /\ PlanShape(plan)
    BY <2>1, <2>2, <2>3, ListDispatch
  <2>5. PagePlan(received[n + 1].body)' = plan
    BY <1>4, <2>3
  <2>6. (\A t \in tasks' : t.about # n + 1) /\ About(n + 1)' = {}
    <3>1. n + 1 \notin Id
      BY <1>4
    <3>2. \A t \in tasks : t.about \in Id
      BY DEF PagingInv, VerdictInv, RequestsTyped
    <3>3. \A i \in DOMAIN sent : sent[i].about \in Id
      BY DEF PagingInv, VerdictInv, RequestsTyped
    <3> QED
      BY <1>4, <3>1, <3>2, <3>3 DEF About
  <2>7. PICK f : f = [k \in 1 .. 0 |-> 0]
    OBVIOUS
  <2>8. f \in [1 .. 0 -> About(n + 1)']
    BY <2>7
  <2>9. Ahead(n + 1)' = [k \in 1 .. Len(plan) - 0 |-> plan[0 + k]]
    BY <1>4, <2>4 DEF Ahead, PlanShape
  <2>10. Told(n + 1, plan, 0, f)'
    BY <2>4, <2>6, <2>8, <2>9 DEF Told, PlanShape
  <2>11. 0 \in 0 .. Len(plan)
    BY <2>4 DEF PlanShape
  <2> QED
    BY <2>5, <2>6, <2>8, <2>10, <2>11 DEF Answering
<1> QED
  BY <1>4, <1>5, <1>6 DEF ListsAnswered

LEMMA PagingStep ==
    ASSUME AbsentIsApart, BodiesWellFormed, ListsDistinct, PagingInv, [RequestsNext]_requestsVars
    PROVE  PagingInv'
<1>1. VerdictInv'
  BY VerdictStep DEF PagingInv
<1>2. ASSUME NEW b \in Bodies \cup LaterBodies, NEW manscdp \in BOOLEAN,
             Receive(b, "MESSAGE", TRUE, manscdp)
      PROVE  ListsAnswered'
  BY <1>2, ReceivePages
<1>3. ASSUME NEW b \in Bodies \cup LaterBodies, Receive(b, "MESSAGE", FALSE, TRUE)
      PROVE  ListsAnswered'
  BY <1>3, ReceivePages
<1>4. ASSUME NEW method \in {"OPTIONS", "CANCEL", "NOTIFY"}, Receive(Nothing, method, TRUE, FALSE)
      PROVE  ListsAnswered'
  BY <1>4, ReceivePages
<1>5. ASSUME NEW id \in Id, ReceiveAgain(id)
      PROVE  ListsAnswered'
  BY <1>5, ReceiveAgainPages
<1>6. ASSUME Handle
      PROVE  ListsAnswered'
  BY <1>6, SendMessagePages, SendFailsPages, OtherEffectPages DEF Handle
<1>7. ASSUME NEW t \in tasks, NEW ok \in BOOLEAN, ExchangeEnds(t, ok)
      PROVE  ListsAnswered'
  BY <1>7, ExchangeEndsPages
<1>8. ASSUME UNCHANGED <<host, received, copies, handler, tasks, sent, executed, cut, lost>>
      PROVE  ListsAnswered'
  <2>1. ASSUME NEW id \in Id
        PROVE  /\ Ahead(id)' = Ahead(id) /\ handler'.about = handler.about
               /\ tasks' = tasks /\ copies'[id] = copies[id]
    BY <1>8 DEF Ahead
  <2> QED
    BY <1>8, <2>1, QuietPages
<1>9. ASSUME NEW b \in IF received = <<>> THEN Bodies ELSE LaterBodies
      PROVE  b \in Bodies \cup LaterBodies
  BY <1>9
<1>10. ListsAnswered'
  BY <1>2, <1>3, <1>4, <1>5, <1>6, <1>7, <1>8, <1>9
     DEF RequestsNext, ConnectionDrops, Redial, requestsVars
<1> QED
  BY <1>1, <1>10 DEF PagingInv, ListsAnswered

LEMMA PagingInit == RequestsInit => PagingInv
<1> SUFFICES ASSUME RequestsInit PROVE PagingInv
  OBVIOUS
<1>1. Id = {}
  BY DEF RequestsInit, Id
<1> QED
  BY <1>1, VerdictInit DEF PagingInv

(* The lists I[s] are together A, nothing twice and none over the limit.  *)
AddsUp(S, I, A) ==
    LET places == {e \in S \X (1 .. PageItems) : e[2] \in DOMAIN I[e[1]]}
    IN  /\ \A s \in S : Len(I[s]) <= PageItems
        /\ {I[e[1]][e[2]] : e \in places} = A
        /\ \A d, e \in places : I[d[1]][d[2]] = I[e[1]][e[2]] => d = e

(* Each s in S is the place g[p] of one list.                             *)
OnePlaceEach(g, N, S) ==
    /\ g \in [1 .. N -> S] /\ \A s \in S : \E p \in 1 .. N : g[p] = s
    /\ \A p, q \in 1 .. N : g[p] = g[q] => p = q

LEMMA PlacesAddUp ==
    ASSUME NEW N, NEW A, NEW lists, PagesList(lists, N, A),
           NEW S, NEW g, OnePlaceEach(g, N, S),
           NEW I, \A p \in 1 .. N : I[g[p]] = lists[p]
    PROVE  AddsUp(S, I, A)
<1>0. /\ g \in [1 .. N -> S] /\ \A s \in S : \E p \in 1 .. N : g[p] = s
      /\ \A p, q \in 1 .. N : g[p] = g[q] => p = q
  BY DEF OnePlaceEach
<1> DEFINE places == {e \in S \X (1 .. PageItems) : e[2] \in DOMAIN I[e[1]]}
<1>1. /\ N \in Nat \ {0} /\ PageItems \in Nat
      /\ \A p \in 1 .. N : /\ Len(lists[p]) \in Nat /\ Len(lists[p]) <= PageItems
                           /\ DOMAIN lists[p] = 1 .. Len(lists[p])
  BY RequestsAssumption DEF PagesList
<1>2. \A s \in S : Len(I[s]) <= PageItems
  BY <1>0, <1>1
<1>3. ASSUME NEW e \in places
      PROVE  \E p \in 1 .. N : \E k \in 1 .. Len(lists[p]) :
                e = <<g[p], k>> /\ I[e[1]][e[2]] = lists[p][k]
  <2>1. e \in S \X (1 .. PageItems) /\ e[2] \in DOMAIN I[e[1]]
    OBVIOUS
  <2>2. e = <<e[1], e[2]>> /\ e[1] \in S
    BY <2>1
  <2>3. PICK p \in 1 .. N : g[p] = e[1]
    BY <1>0, <2>2
  <2>4. I[e[1]] = lists[p] /\ e[2] \in 1 .. Len(lists[p])
    BY <1>1, <2>1, <2>3
  <2> QED
    BY <2>2, <2>3, <2>4
<1>4. ASSUME NEW p \in 1 .. N, NEW k \in 1 .. Len(lists[p])
      PROVE  \E e \in places : I[e[1]][e[2]] = lists[p][k]
  <2>1. PICK e : e = <<g[p], k>>
    OBVIOUS
  <2>2. k \in 1 .. PageItems /\ k \in DOMAIN lists[p]
    BY <1>1
  <2>3. e \in S \X (1 .. PageItems) /\ e[1] = g[p] /\ e[2] = k
    BY <1>0, <2>1, <2>2
  <2> QED
    BY <2>2, <2>3
<1> HIDE DEF places
<1>5. \A p \in 1 .. N : \A k \in 1 .. Len(lists[p]) : lists[p][k] \in A
  BY DEF PagesList
<1>6. \A a \in A : \E p \in 1 .. N : \E k \in 1 .. Len(lists[p]) : lists[p][k] = a
  BY DEF PagesList
<1>7. {I[e[1]][e[2]] : e \in places} = A
  <2>1. ASSUME NEW e \in places
        PROVE  I[e[1]][e[2]] \in A
    BY <1>3, <1>5
  <2>2. ASSUME NEW a \in A
        PROVE  \E e \in places : I[e[1]][e[2]] = a
    BY <1>4, <1>6
  <2> QED
    BY <2>1, <2>2
<1>8. ASSUME NEW d \in places, NEW e \in places, I[d[1]][d[2]] = I[e[1]][e[2]]
      PROVE  d = e
  <2>1. PICK p \in 1 .. N : \E k \in 1 .. Len(lists[p]) :
            d = <<g[p], k>> /\ I[d[1]][d[2]] = lists[p][k]
    BY <1>3
  <2>2. PICK k \in 1 .. Len(lists[p]) : d = <<g[p], k>> /\ I[d[1]][d[2]] = lists[p][k]
    BY <2>1
  <2>3. PICK q \in 1 .. N : \E l \in 1 .. Len(lists[q]) :
            e = <<g[q], l>> /\ I[e[1]][e[2]] = lists[q][l]
    BY <1>3
  <2>4. PICK l \in 1 .. Len(lists[q]) : e = <<g[q], l>> /\ I[e[1]][e[2]] = lists[q][l]
    BY <2>3
  <2>5. p = q /\ k = l
    BY <1>8, <2>2, <2>4 DEF PagesList
  <2> QED
    BY <2>2, <2>4, <2>5
<1> QED
  BY <1>2, <1>7, <1>8 DEF places, AddsUp

AreTheAnswers(id, q, L, N, g) ==
    /\ ListingShape(L, N, q) /\ OnePlaceEach(g, N, Answers(id, q.cmd))
    /\ \A p \in 1 .. N : sent[g[p]].message = L[p]

(* The answers to a list query answered to the end are its pages.         *)
LEMMA AnswersArePages ==
    ASSUME AbsentIsApart, BodiesWellFormed, ListsDistinct, PagingInv, NEW id \in Id, AsksList(id),
           handler.about # id, NEW q, q = ParseQueryDual(received[id].body)
    PROVE  \E L, N, g : AreTheAnswers(id, q, L, N, g)
<1>1. PICK body : body = received[id].body
  OBVIOUS
<1>2. PICK L : L = Listing(q, body)
  OBVIOUS
<1>3. ListQuery(body) /\ InOneForm(body)
  <2>1. PICK b \in Bodies \cup LaterBodies : body = Numbered(b, id)
    BY <1>1 DEF PagingInv, VerdictInv, BodiesKnown, AsksList
  <2> QED
    BY <1>1, <2>1, NumberedInOneForm DEF AsksList
<1>4. PICK N : ListingShape(L, N, q)
  BY <1>1, <1>2, <1>3, ListingIsList
<1>5. /\ N \in Nat \ {0} /\ L = [p \in 1 .. N |-> L[p]]
      /\ \A p \in 1 .. N : L[p].kind = "answer" /\ L[p].cmd = q.cmd
  BY <1>4 DEF ListingShape
<1>6. PICK plan : plan = PagePlan(body)
  OBVIOUS
<1>7. plan = [j \in 1 .. N + 1 |-> IF j = 1 THEN Final(200) ELSE Send(L[j - 1])]
  <2>1. Len(L) = N
    BY <1>5, LengthOfList
  <2> QED
    BY <1>1, <1>2, <1>6, <2>1 DEF PagePlan
<1>8. Len(plan) = N + 1
  <2>1. N + 1 \in Nat /\ plan = [j \in 1 .. N + 1 |-> plan[j]]
    BY <1>5, <1>7
  <2> QED
    BY <2>1, LengthOfList
<1>9. PICK d \in 0 .. N + 1 : \E f \in [1 .. d -> About(id)] : Told(id, plan, d, f)
  BY <1>1, <1>6, <1>8 DEF PagingInv, Answering
<1>10. PICK f \in [1 .. d -> About(id)] : Told(id, plan, d, f)
  BY <1>9
<1>11. d = N + 1
  <2>1. <<>> = [k \in 1 .. (N + 1) - d |-> plan[d + k]]
    BY <1>8, <1>10 DEF Told, Ahead
  <2>2. ~(1 \in 1 .. (N + 1) - d)
    BY <2>1
  <2> QED
    BY <1>5, <2>2
<1>12. /\ \A i \in About(id) : \E k \in 1 .. N + 1 : f[k] = i
       /\ \A k, l \in 1 .. N + 1 : f[k] = f[l] => k = l
       /\ \A k \in 1 .. N + 1 : f[k] \in About(id) /\ sent[f[k]].message = plan[k].message
  BY <1>10, <1>11 DEF Told
<1>13. sent[f[1]].message.kind = "final"
  <2>1. plan[1] = Final(200) /\ 1 \in 1 .. N + 1
    BY <1>5, <1>7
  <2> QED
    BY <1>12, <2>1 DEF Final, Send
<1>14. ASSUME NEW p \in 1 .. N
       PROVE  p + 1 \in 1 .. N + 1 /\ sent[f[p + 1]].message = L[p]
  <2>1. p + 1 \in 1 .. N + 1 /\ p + 1 # 1 /\ (p + 1) - 1 = p
    BY <1>5
  <2>2. plan[p + 1] = Send(L[p])
    BY <1>7, <2>1
  <2> QED
    BY <1>12, <2>1, <2>2 DEF Send
<1>15. PICK g : g = [p \in 1 .. N |-> f[p + 1]]
  OBVIOUS
<1>16. \A p \in 1 .. N : g[p] = f[p + 1] /\ sent[g[p]].message = L[p] /\ g[p] \in Answers(id, q.cmd)
  BY <1>5, <1>12, <1>14, <1>15 DEF Answers, About
<1>17. ASSUME NEW i \in Answers(id, q.cmd)
       PROVE  \E p \in 1 .. N : g[p] = i
  <2>1. i \in About(id) /\ sent[i].message.kind = "answer"
    BY DEF Answers, About
  <2>2. PICK k \in 1 .. N + 1 : f[k] = i
    BY <1>12, <2>1
  <2>3. k # 1
    BY <1>13, <2>1, <2>2
  <2>4. k - 1 \in 1 .. N /\ (k - 1) + 1 = k
    BY <1>5, <2>3
  <2> QED
    BY <1>16, <2>2, <2>4
<1>18. ASSUME NEW p \in 1 .. N, NEW r \in 1 .. N, g[p] = g[r]
       PROVE  p = r
  <2>1. f[p + 1] = f[r + 1] /\ p + 1 \in 1 .. N + 1 /\ r + 1 \in 1 .. N + 1
    BY <1>14, <1>16, <1>18
  <2>2. p + 1 = r + 1
    BY <1>12, <2>1
  <2> QED
    BY <1>5, <2>2
<1>19. g \in [1 .. N -> Answers(id, q.cmd)]
  BY <1>15, <1>16
<1>20. OnePlaceEach(g, N, Answers(id, q.cmd))
  BY <1>17, <1>18, <1>19 DEF OnePlaceEach
<1>21. AreTheAnswers(id, q, L, N, g)
  BY <1>4, <1>16, <1>20 DEF AreTheAnswers
<1> QED
  BY <1>21

LEMMA PagingImplies ==
    ASSUME AbsentIsApart, BodiesWellFormed, ListsDistinct, PagingInv
    PROVE  PagesAccumulate
<1> SUFFICES ASSUME NEW id \in Id, Done(id), copies[id] = 1, NEW q,
                    q = ParseQueryDual(received[id].body), q # Absent,
                    q.cmd \in {"Catalog", "RecordInfo"}
             PROVE  LET pages == Answers(id, q.cmd)
                        places == {e \in pages \X (1 .. PageItems) :
                                       e[2] \in DOMAIN sent[e[1]].message.items}
                    IN  /\ pages # {}
                        /\ \A p \in pages : /\ sent[p].message.sn = q.sn
                                            /\ sent[p].message.sum_num = Cardinality(Asked(q))
                                            /\ Len(sent[p].message.items) <= PageItems
                        /\ {sent[e[1]].message.items[e[2]] : e \in places} = Asked(q)
                        /\ \A d, e \in places :
                              sent[d[1]].message.items[d[2]] = sent[e[1]].message.items[e[2]]
                                  => d = e
  BY SMTT(30) DEF PagesAccumulate
<1> DEFINE pages == Answers(id, q.cmd)
           places == {e \in pages \X (1 .. PageItems) : e[2] \in DOMAIN sent[e[1]].message.items}
<1>1. AsksList(id) /\ handler.about # id
  BY DEF Done, AsksList, ListQuery
<1>2. PICK L, N, g :
         /\ ListingShape(L, N, q) /\ OnePlaceEach(g, N, pages)
         /\ \A p \in 1 .. N : sent[g[p]].message = L[p]
  BY <1>1, AnswersArePages DEF AreTheAnswers
<1>3. /\ N \in Nat \ {0}
      /\ \A p \in 1 .. N : L[p].sn = q.sn /\ L[p].sum_num = Cardinality(Asked(q))
      /\ PagesList([p \in 1 .. N |-> L[p].items], N, Asked(q))
  BY <1>2 DEF ListingShape
<1>4. PICK I : I = [i \in pages |-> sent[i].message.items]
  OBVIOUS
<1>5. PICK lists : lists = [p \in 1 .. N |-> L[p].items]
  OBVIOUS
<1> HIDE DEF pages
<1>6. /\ g \in [1 .. N -> pages] /\ \A i \in pages : \E p \in 1 .. N : g[p] = i
      /\ \A p \in 1 .. N : I[g[p]] = lists[p]
  BY <1>2, <1>4, <1>5 DEF OnePlaceEach
<1>7. PICK spots : spots = {e \in pages \X (1 .. PageItems) : e[2] \in DOMAIN I[e[1]]}
  OBVIOUS
<1>8. /\ \A s \in pages : Len(I[s]) <= PageItems
      /\ {I[e[1]][e[2]] : e \in spots} = Asked(q)
      /\ \A d, e \in spots : I[d[1]][d[2]] = I[e[1]][e[2]] => d = e
  <2>1. PagesList(lists, N, Asked(q))
    BY <1>3, <1>5
  <2>2. AddsUp(pages, I, Asked(q))
    <3>1. OnePlaceEach(g, N, pages) /\ \A p \in 1 .. N : I[g[p]] = lists[p]
      BY <1>2, <1>6
    <3> QED
      BY <2>1, <3>1, PlacesAddUp
  <2> QED
    BY <1>7, <2>2 DEF AddsUp
<1>9. \A e \in pages \X (1 .. PageItems) : I[e[1]] = sent[e[1]].message.items
  BY <1>4
<1>10. places = spots
  BY <1>7, <1>9
<1>11. \A e \in spots : sent[e[1]].message.items[e[2]] = I[e[1]][e[2]]
  BY <1>7, <1>9
<1> HIDE DEF places
<1>12. {sent[e[1]].message.items[e[2]] : e \in places} = Asked(q)
  BY <1>8, <1>10, <1>11
<1>13. \A d, e \in places :
          sent[d[1]].message.items[d[2]] = sent[e[1]].message.items[e[2]] => d = e
  BY <1>8, <1>10, <1>11
<1>14. pages # {}
  <2>1. 1 \in 1 .. N
    BY <1>3
  <2> QED
    BY <1>6, <2>1
<1>15. \A p \in pages : /\ sent[p].message.sn = q.sn
                        /\ sent[p].message.sum_num = Cardinality(Asked(q))
                        /\ Len(sent[p].message.items) <= PageItems
  BY <1>2, <1>3, <1>4, <1>6, <1>8
<1> QED
  BY <1>12, <1>13, <1>14, <1>15 DEF places, pages

(* server.rs, "every page carries the TOTAL SumNum, the platform          *)
(* accumulates by SN": the pages that answer a catalog or a recording     *)
(* query are together the whole list, nothing missing and nothing twice,  *)
(* under one SN and one total, none over the limit: for any lists without *)
(* repetitions, any page size and any number of requests, repeated        *)
(* requests and dropped connections.                                      *)
THEOREM ListAnswersAddUp ==
    ASSUME AbsentIsApart, BodiesWellFormed, ListsDistinct
    PROVE  RequestsSpec => []PagesAccumulate
<1>1. PagingInv /\ [RequestsNext]_requestsVars => PagingInv'
  BY PagingStep
<1>2. PagingInv => PagesAccumulate
  BY PagingImplies
<1> QED
  BY <1>1, <1>2, PagingInit, PTL DEF RequestsSpec


-----------------------------------------------------------------------------
(* The types of the message handler (Requests).                            *)

(* Hooks and exchanges are those the code calls and spawns.               *)
EffectTyped(e) ==
    /\ e.act = "execute" => e.seam \in {"control", "config"}
    /\ e.act = "spawn" => e.seam \in {"snapshot", "upgrade"}

EffectsTyped(todo) == IsList(todo) /\ \A i \in DOMAIN todo : EffectTyped(todo[i])

(* Any sequence is a list, whatever its elements.                         *)
LEMMA SeqIsList == ASSUME NEW S, NEW s \in Seq(S) PROVE IsList(s)
<1>1. PICK n \in Nat : n = Len(s)
  OBVIOUS
<1>2. s = [i \in 1 .. n |-> s[i]]
  BY <1>1
<1>3. n = Len(s) /\ s \in Seq({s[i] : i \in 1 .. n}) /\ DOMAIN s = 1 .. n
  BY <1>2, LengthOfList
<1> QED
  BY <1>3 DEF IsList

(* What two lists make together.                                          *)
LEMMA TypedJoin ==
    ASSUME NEW s, NEW t, EffectsTyped(s), EffectsTyped(t), s # <<>>
    PROVE  EffectsTyped(s \o t) /\ s \o t # <<>>
<1>1. PICK S : S = {s[i] : i \in DOMAIN s} \cup {t[i] : i \in DOMAIN t}
  OBVIOUS
<1>2. s \in Seq(S) /\ t \in Seq(S)
  <2>1. s \in Seq({s[i] : i \in DOMAIN s}) /\ t \in Seq({t[i] : i \in DOMAIN t})
    BY DEF EffectsTyped, IsList
  <2> QED
    BY <1>1, <2>1
<1>3. \A e \in S : EffectTyped(e)
  BY <1>1 DEF EffectsTyped
<1>4. PICK u : u = s \o t
  OBVIOUS
<1>5. u \in Seq(S) /\ Len(u) = Len(s) + Len(t)
  BY <1>2, <1>4, ConcatProperties
<1>6. \A i \in DOMAIN u : u[i] \in S
  BY <1>5
<1>7. Len(s) \in Nat \ {0} /\ Len(t) \in Nat
  BY <1>2
<1>8. u # <<>>
  BY <1>5, <1>7
<1> QED
  BY <1>3, <1>4, <1>5, <1>6, <1>8, SeqIsList DEF EffectsTyped

(* Lists of none, of one and of two effects.                              *)
LEMMA FewTyped ==
    /\ EffectsTyped(<<>>)
    /\ \A e : EffectTyped(e) => EffectsTyped(<<e>>) /\ <<e>> # <<>>
    /\ \A e, f : EffectTyped(e) /\ EffectTyped(f) => EffectsTyped(<<e, f>>) /\ <<e, f>> # <<>>
<1>1. EffectsTyped(<<>>)
  BY DEF EffectsTyped, IsList
<1>2. ASSUME NEW e, EffectTyped(e)
      PROVE  EffectsTyped(<<e>>) /\ <<e>> # <<>>
  <2>1. PICK u : u = <<e>>
    OBVIOUS
  <2>2. u \in Seq({e}) /\ DOMAIN u = 1 .. 1 /\ u[1] = e /\ u # <<>>
    BY <2>1
  <2>3. IsList(u)
    BY <2>2, SeqIsList
  <2> QED
    BY <1>2, <2>1, <2>2, <2>3 DEF EffectsTyped
<1>3. ASSUME NEW e, NEW f, EffectTyped(e), EffectTyped(f)
      PROVE  EffectsTyped(<<e, f>>) /\ <<e, f>> # <<>>
  <2>1. PICK u : u = <<e, f>>
    OBVIOUS
  <2>2. u \in Seq({e, f}) /\ DOMAIN u = 1 .. 2 /\ u[1] = e /\ u[2] = f /\ u # <<>>
    BY <2>1
  <2>3. IsList(u)
    BY <2>2, SeqIsList
  <2> QED
    BY <1>3, <2>1, <2>2, <2>3 DEF EffectsTyped
<1> QED
  BY <1>1, <1>2, <1>3

LEMMA EffectKinds ==
    /\ \A m : EffectTyped(Send(m)) /\ \A status : EffectTyped(Final(status))
    /\ \A c : \A seam \in {"control", "config"} : EffectTyped(Execute(seam, c))
    /\ \A c, s : \A seam \in {"snapshot", "upgrade"} : EffectTyped(Spawn(seam, c, s))
BY DEF EffectTyped, Send, Final, Execute, Spawn

(* Pages come numbered from one, whatever they list.                      *)
LEMMA PagesNumbered ==
    ASSUME NEW S, NEW items \in Seq(S)
    PROVE  \E n \in Nat : DOMAIN Pages(items) = 1 .. n
<1>1. CASE items = <<>>
  BY <1>1 DEF Pages
<1>2. CASE items # <<>>
  <2>1. PICK n : n = (Len(items) + PageItems - 1) \div PageItems
    OBVIOUS
  <2>2. Len(items) \in Nat /\ PageItems \in Nat \ {0}
    BY RequestsAssumption
  <2>3. n \in Nat
    BY <2>1, <2>2, PageCount
  <2>4. DOMAIN Pages(items) = 1 .. n
    BY <1>2, <2>1, Zenon DEF Pages, Chunks
  <2> QED
    BY <2>3, <2>4
<1> QED
  BY <1>1, <1>2

(* The lists that are paged are lists.                                    *)
LEMMA ChannelsListed == \E S : Channels \in Seq(S)
<1>1. PICK S : S = {OwnDevice} \cup ToSet(ExtraChannels)
  OBVIOUS
<1>2. ExtraChannels \in Seq(ToSet(ExtraChannels)) /\ <<OwnDevice>> \in Seq({OwnDevice})
  BY RequestsAssumption
<1>3. ExtraChannels \in Seq(S) /\ <<OwnDevice>> \in Seq(S)
  BY <1>1, <1>2
<1> QED
  BY <1>3, ConcatProperties DEF Channels

LEMMA RecordingsListed == ASSUME NEW q PROVE \E S : RecordItems(q) \in Seq(S)
<1>1. PICK S : S = ToSet(Segments)
  OBVIOUS
<1>2. Segments \in Seq(S)
  BY <1>1, RequestsAssumption
<1>3. CASE q.start # Absent /\ q.end # Absent
  <2>1. PICK Keep : Keep = {i \in DOMAIN Segments :
                                Segments[i].start <= q.end /\ Segments[i].end >= q.start}
    OBVIOUS
  <2>2. PICK t : t = RecordItems(q)
    OBVIOUS
  <2>3. Keep \subseteq 1 .. Len(Segments)
    BY <1>2, <2>1
  <2>4. [i \in DOMAIN Segments |-> IF i \in Keep THEN <<Segments[i]>> ELSE <<>>]
        = [i \in DOMAIN Segments |->
              IF Segments[i].start <= q.end /\ Segments[i].end >= q.start
              THEN <<Segments[i]>> ELSE <<>>]
    BY <2>1, Zenon
  <2>5. t = FlattenSeq([i \in DOMAIN Segments |-> IF i \in Keep THEN <<Segments[i]>> ELSE <<>>])
    BY <1>3, <2>2, <2>4, Zenon DEF RecordItems
  <2>6. t \in Seq(S)
    BY <1>2, <2>3, <2>5, KeptItems, Zenon
  <2> QED
    BY <2>2, <2>6
<1>4. CASE ~(q.start # Absent /\ q.end # Absent)
  BY <1>4 DEF RecordItems
<1> QED
  BY <1>3, <1>4

(* An answer is some number of messages.                                  *)
LEMMA AnswersNumbered ==
    ASSUME NEW b, NEW manscdp
    PROVE  \E n \in Nat : DOMAIN BuildQueryResponse(b, manscdp) = 1 .. n
<1>1. PICK q, r : q = ParseQueryDual(b) /\ r = ParseRecordInfoQuery(b)
  OBVIOUS
<1>2. PICK a : a = BuildQueryResponse(b, manscdp)
  OBVIOUS
<1>3. CASE ~manscdp \/ q = Absent
  BY <1>1, <1>3 DEF BuildQueryResponse
<1>4. ASSUME manscdp, q # Absent, q.cmd = "Catalog"
      PROVE  \E n \in Nat : DOMAIN a = 1 .. n
  <2>1. PICK n \in Nat : DOMAIN Pages(Channels) = 1 .. n
    BY ChannelsListed, PagesNumbered
  <2>2. a = CatalogPages(q)
    BY <1>1, <1>2, <1>4 DEF BuildQueryResponse, InfoQueries, Rejected
  <2>3. DOMAIN a = 1 .. n
    BY <2>1, <2>2 DEF CatalogPages
  <2> QED
    BY <2>3
<1>5. ASSUME manscdp, q # Absent, q.cmd = "RecordInfo"
      PROVE  \E n \in Nat : DOMAIN a = 1 .. n
  <2>1. PICK n \in Nat : DOMAIN Pages(RecordItems(r)) = 1 .. n
    BY RecordingsListed, PagesNumbered
  <2>2. a = RecordInfoPages(r)
    BY <1>1, <1>2, <1>5 DEF BuildQueryResponse, InfoQueries, Rejected
  <2>3. DOMAIN a = 1 .. n
    BY <2>1, <2>2 DEF RecordInfoPages
  <2> QED
    BY <2>3
<1>6. ASSUME manscdp, q # Absent, q.cmd \notin {"Catalog", "RecordInfo"}
      PROVE  a = <<>> \/ \E m : a = <<m>>
  <2>1. q.cmd # "Catalog" /\ q.cmd # "RecordInfo"
    BY <1>6
  <2>2. \/ a = <<>> \/ a = <<BuildPresetListResponse(q.sn, OwnDevice, <<>>)>>
        \/ a = <<BuildDeviceInfoResponse(q.sn, OwnDevice, "config")>>
        \/ a = <<BuildDeviceStatusResponse(q.sn, q.device, "OFF")>>
        \/ a = <<InfoQueryResponse(q)>> \/ a = <<ConfigDownload(q)>>
        \/ a = <<BuildControlRejectResponse(q.cmd, q.sn, q.device)>>
    BY <1>1, <1>2, <1>6, <2>1 DEF BuildQueryResponse
  <2> QED
    BY <2>2, Zenon
<1>7. \A m : DOMAIN <<m>> = 1 .. 1
  OBVIOUS
<1>8. DOMAIN <<>> = 1 .. 0 /\ 0 \in Nat /\ 1 \in Nat
  OBVIOUS
<1> QED
  BY <1>2, <1>3, <1>4, <1>5, <1>6, <1>7, <1>8

LEMMA SendAllTyped ==
    ASSUME NEW b, NEW manscdp
    PROVE  EffectsTyped(SendAll(BuildQueryResponse(b, manscdp)))
<1>1. PICK a : a = BuildQueryResponse(b, manscdp)
  OBVIOUS
<1>2. PICK n \in Nat : DOMAIN a = 1 .. n
  BY <1>1, AnswersNumbered
<1>3. PICK t : t = SendAll(a)
  OBVIOUS
<1>4. t = [i \in 1 .. n |-> Send(a[i])]
  BY <1>2, <1>3 DEF SendAll
<1>5. t = [i \in 1 .. n |-> t[i]]
  BY <1>4
<1>6. t \in Seq({t[i] : i \in 1 .. n}) /\ DOMAIN t = 1 .. n
  BY <1>5, LengthOfList
<1>7. \A i \in 1 .. n : t[i] = Send(a[i])
  BY <1>4
<1> QED
  BY <1>1, <1>3, <1>6, <1>7, SeqIsList, EffectKinds DEF EffectsTyped

(* What a request makes the handler do.                                   *)
LEMMA MessageTyped ==
    ASSUME NEW b, NEW manscdp
    PROVE  EffectsTyped(MessageEffects(b, manscdp))
<1>1. ASSUME NEW c PROVE EffectsTyped(SnapshotEffects(c))
  BY FewTyped, EffectKinds DEF SnapshotEffects, ConfigOK
<1>2. ASSUME NEW c PROVE EffectsTyped(UpgradeEffects(c))
  BY FewTyped, EffectKinds DEF UpgradeEffects
<1>3. ASSUME NEW c PROVE EffectsTyped(ControlEffects(c))
  BY FewTyped, EffectKinds DEF ControlEffects
<1>4. ASSUME NEW c PROVE EffectsTyped(ConfigEffects(c))
  BY FewTyped, EffectKinds DEF ConfigEffects, ConfigOK
<1>5. ASSUME NEW n PROVE EffectsTyped(BroadcastEffects(n))
  <2>1. PICK e, f, g : /\ e = Final(200) /\ g = Send([kind |-> "invite"])
                       /\ f = Send(BuildBroadcastResponse(n.sn, OwnDevice, "audio_sink" \in host))
    OBVIOUS
  <2>2. EffectsTyped(<<e, f>>) /\ <<e, f>> # <<>> /\ EffectsTyped(<<g>>) /\ EffectsTyped(<<>>)
    BY <2>1, FewTyped, EffectKinds
  <2>3. BroadcastEffects(n) = <<e, f>> \o IF "audio_sink" \in host THEN <<g>> ELSE <<>>
    BY <2>1, Zenon DEF BroadcastEffects
  <2>4. EffectsTyped(IF "audio_sink" \in host THEN <<g>> ELSE <<>>)
    BY <2>2
  <2> QED
    BY <2>2, <2>3, <2>4, TypedJoin, Zenon
<1>6. EffectsTyped(SendAll(BuildQueryResponse(b, manscdp)))
  BY SendAllTyped
<1> QED
  BY <1>1, <1>2, <1>3, <1>4, <1>5, <1>6, Zenon DEF MessageEffects

LEMMA DispatchTyped ==
    ASSUME NEW r
    PROVE  EffectsTyped(Dispatch(r)) /\ Dispatch(r) # <<>>
<1>1. CASE ~r.note
  BY <1>1, FewTyped, EffectKinds DEF Dispatch
<1>2. CASE r.note
  <2>1. PICK t : t = IF r.method = "MESSAGE" THEN MessageEffects(r.body, r.manscdp) ELSE <<>>
    OBVIOUS
  <2>2. EffectsTyped(t)
    BY <2>1, MessageTyped, FewTyped
  <2>3. PICK s : s = <<Final(200)>>
    OBVIOUS
  <2>4. EffectsTyped(s) /\ s # <<>>
    BY <2>3, FewTyped, EffectKinds
  <2>5. Dispatch(r) = s \o t
    BY <1>2, <2>1, <2>3, Zenon DEF Dispatch
  <2>6. EffectsTyped(s \o t) /\ s \o t # <<>>
    BY <2>2, <2>4, TypedJoin
  <2> QED
    BY <2>5, <2>6, Zenon
<1> QED
  BY <1>1, <1>2

(* As much as the types of a step rest on.                                *)
LinkTyped ==
    /\ link \in [stream : BOOLEAN, number : Nat, up : BOOLEAN]
    /\ link.up \/ link.number <= MaxDrops

TypesInv ==
    /\ VerdictInv
    /\ RequestsTypeOK
    /\ LinkTyped
    /\ EffectsTyped(handler.todo)

(* The parts of RequestsTypeOK.                                           *)
WireTyped ==
    /\ \A i \in Id : received[i].method \in {"MESSAGE", "OPTIONS", "CANCEL", "NOTIFY"}
                     /\ received[i].note \in BOOLEAN /\ received[i].manscdp \in BOOLEAN
    /\ DOMAIN copies = Id /\ \A i \in Id : copies[i] \in 1 .. MaxCopies

HandlerTyped ==
    /\ handler = Idle \/ (handler.about \in Id /\ handler.todo # <<>>)
    /\ EffectsTyped(handler.todo)

TasksTyped ==
    \A t \in tasks : t.about \in Id /\ t.seam \in {"snapshot", "upgrade"}
                     /\ t.sink \in 1 .. link.number

HooksTyped ==
    \A i \in DOMAIN executed : executed[i].about \in Id /\ executed[i].seam \in {"control", "config"}

LEMMA TypesParts ==
    TypesInv <=> /\ VerdictInv /\ host \in Hosts
                 /\ WireTyped /\ HandlerTyped /\ TasksTyped /\ HooksTyped
                 /\ LinkTyped /\ link.number \in 1 .. MaxDrops + 1
<1>1. VerdictInv => /\ \A i \in DOMAIN sent : sent[i].about \in Id
                    /\ cut \subseteq Id /\ lost \subseteq Id
  BY DEF VerdictInv, RequestsTyped
<1>2. LinkTyped => link.stream \in BOOLEAN /\ link.up \in BOOLEAN
  BY DEF LinkTyped
<1> QED
  BY <1>1, <1>2 DEF TypesInv, RequestsTypeOK, WireTyped, HandlerTyped, TasksTyped, HooksTyped

(* The effect in hand, and what remains after it.                         *)
LEMMA RestTyped ==
    ASSUME RequestsTyped, HandlerTyped, handler # Idle
    PROVE  /\ EffectTyped(Effect) /\ handler.about \in Id
           /\ handler' = Rest /\ UNCHANGED received => HandlerTyped'
<1>1. PICK todo : todo = handler.todo
  OBVIOUS
<1>2. /\ todo # <<>> /\ handler.about \in Id /\ EffectsTyped(todo)
      /\ handler = [about |-> handler.about, todo |-> todo]
  BY <1>1 DEF HandlerTyped, RequestsTyped
<1>3. PICK S : S = {todo[i] : i \in DOMAIN todo}
  OBVIOUS
<1>4. todo \in Seq(S) /\ \A e \in S : EffectTyped(e)
  BY <1>2, <1>3 DEF EffectsTyped, IsList
<1>5. Effect = todo[1] /\ todo[1] \in S
  BY <1>1, <1>2, <1>4 DEF Effect
<1>6. ASSUME handler' = Rest, UNCHANGED received
      PROVE  HandlerTyped'
  <2>1. Id' = Id
    BY <1>6 DEF Id
  <2>2. CASE Len(todo) = 1
    <3>1. handler' = Idle /\ Idle.todo = <<>>
      BY <1>1, <1>6, <2>2 DEF Rest, Idle
    <3> QED
      BY <3>1, FewTyped DEF HandlerTyped
  <2>3. CASE Len(todo) # 1
    <3>1. PICK u : u = Tail(todo)
      OBVIOUS
    <3>2. u \in Seq(S) /\ u # <<>>
      <4>1. Len(todo) \in Nat /\ Len(todo) # 0
        BY <1>2, <1>4
      <4>2. u \in Seq(S) /\ Len(u) = Len(todo) - 1
        BY <1>2, <1>4, <3>1
      <4>3. Len(u) # 0
        BY <2>3, <4>1, <4>2
      <4> QED
        BY <4>1, <4>2, <4>3
    <3>3. handler' = [about |-> handler.about, todo |-> u]
      BY <1>1, <1>2, <1>6, <2>3, <3>1 DEF Rest
    <3>4. handler'.about = handler.about /\ handler'.todo = u
      BY <3>3
    <3>5. \A i \in DOMAIN u : EffectTyped(u[i])
      BY <1>4, <3>2
    <3>6. EffectsTyped(u)
      BY <3>2, <3>5, SeqIsList DEF EffectsTyped
    <3> QED
      BY <1>2, <2>1, <3>2, <3>4, <3>6 DEF HandlerTyped
  <2> QED
    BY <2>2, <2>3
<1> QED
  BY <1>2, <1>4, <1>5, <1>6

(* The parts a step leaves alone.                                         *)
LEMMA PartsSame ==
    /\ WireTyped /\ UNCHANGED <<received, copies>> => WireTyped'
    /\ HandlerTyped /\ UNCHANGED <<received, handler>> => HandlerTyped'
    /\ HooksTyped /\ UNCHANGED <<received, executed>> => HooksTyped'
    /\ TasksTyped /\ UNCHANGED <<received, tasks, link>> => TasksTyped'
    /\ LinkTyped /\ UNCHANGED link => LinkTyped'
<1>1. UNCHANGED received => Id' = Id
  BY DEF Id
<1> QED
  BY <1>1 DEF WireTyped, HandlerTyped, HooksTyped, TasksTyped, LinkTyped

(* One step of the platform or of the SIP loop.                           *)
LEMMA ReceiveTyped ==
    ASSUME TypesInv, NEW body, NEW method \in {"MESSAGE", "OPTIONS", "CANCEL", "NOTIFY"},
           NEW note \in BOOLEAN, NEW manscdp \in BOOLEAN, Receive(body, method, note, manscdp)
    PROVE  WireTyped' /\ HandlerTyped' /\ HooksTyped' /\ TasksTyped' /\ LinkTyped'
<1>1. /\ RequestsTyped /\ WireTyped /\ HooksTyped /\ TasksTyped /\ LinkTyped
  BY TypesParts DEF VerdictInv
<1>2. PICK n, request :
          /\ n = Len(received)
          /\ request = [body |-> Numbered(body, n + 1), method |-> method, note |-> note,
                        manscdp |-> manscdp]
  OBVIOUS
<1>3. /\ n \in Nat /\ Id = 1 .. n /\ Id' = 1 .. n + 1
      /\ handler' = [about |-> n + 1, todo |-> Dispatch(request)]
      /\ UNCHANGED <<host, tasks, sent, executed, cut, lost>>
      /\ \A i \in 1 .. n : received'[i] = received[i]
      /\ received'[n + 1] = request
      /\ copies' \in [Id' -> Nat \ {0}] /\ copies'[n + 1] = 1
      /\ \A i \in 1 .. n : copies'[i] = copies[i]
  <2>1. /\ n \in Nat /\ Id = 1 .. n /\ Id' = 1 .. n + 1
        /\ handler' = [about |-> n + 1, todo |-> Dispatch(request)]
        /\ UNCHANGED <<host, tasks, sent, executed, cut, lost>>
    BY <1>1, <1>2, ReceiveAppends
  <2>2. received'[n + 1] = request /\ \A i \in 1 .. n : received'[i] = received[i]
    BY <1>1, <1>2, ReceiveAppends
  <2>3. /\ copies' \in [Id' -> Nat \ {0}] /\ copies'[n + 1] = 1
        /\ \A i \in 1 .. n : copies'[i] = copies[i]
    BY <1>1, <1>2, ReceiveAppends
  <2> QED
    BY <2>1, <2>2, <2>3
<1>4. UNCHANGED link
  BY DEF Receive
<1>5. WireTyped'
  <2>1. request.method = method /\ request.note = note /\ request.manscdp = manscdp
    BY <1>2
  <2>2. 1 \in 1 .. MaxCopies
    BY RequestsAssumption
  <2>3. ASSUME NEW i \in Id'
        PROVE  /\ received'[i].method \in {"MESSAGE", "OPTIONS", "CANCEL", "NOTIFY"}
               /\ received'[i].note \in BOOLEAN /\ received'[i].manscdp \in BOOLEAN
               /\ copies'[i] \in 1 .. MaxCopies
    <3>1. CASE i = n + 1
      BY <1>3, <2>1, <2>2, <3>1
    <3>2. CASE i \in 1 .. n
      BY <1>1, <1>3, <3>2 DEF WireTyped
    <3> QED
      BY <1>3, <3>1, <3>2
  <2>4. DOMAIN copies' = Id'
    BY <1>3
  <2> QED
    BY <2>3, <2>4 DEF WireTyped
<1>6. HandlerTyped'
  <2>1. handler'.about = n + 1 /\ handler'.todo = Dispatch(request) /\ n + 1 \in Id'
    BY <1>3
  <2> QED
    BY <2>1, DispatchTyped DEF HandlerTyped
<1>7. Id \subseteq Id'
  BY <1>3
<1> QED
  BY <1>1, <1>3, <1>4, <1>5, <1>6, <1>7, PartsSame DEF HooksTyped, TasksTyped

LEMMA ReceiveAgainTyped ==
    ASSUME TypesInv, NEW id \in Id, ReceiveAgain(id)
    PROVE  WireTyped' /\ HandlerTyped' /\ HooksTyped' /\ TasksTyped' /\ LinkTyped'
<1>1. /\ RequestsTyped /\ WireTyped /\ HooksTyped /\ TasksTyped /\ LinkTyped
  BY TypesParts DEF VerdictInv
<1>2. /\ copies[id] < MaxCopies /\ copies' = [copies EXCEPT ![id] = @ + 1]
      /\ UNCHANGED <<received, link, tasks, executed>> /\ Id' = Id
  BY DEF ReceiveAgain, Id
<1>3. WireTyped'
  <2>1. copies \in [Id -> Nat \ {0}] /\ \A i \in Id : copies[i] \in 1 .. MaxCopies
    BY <1>1 DEF WireTyped, RequestsTyped
  <2>2. copies[id] + 1 \in 1 .. MaxCopies
    BY <1>2, <2>1, RequestsAssumption
  <2>3. DOMAIN copies' = Id /\ \A i \in Id : copies'[i] \in 1 .. MaxCopies
    BY <1>2, <2>1, <2>2
  <2> QED
    BY <1>1, <1>2, <2>3 DEF WireTyped
<1>4. HandlerTyped'
  <2>1. handler' = [about |-> id, todo |-> Dispatch(received[id])]
    BY DEF ReceiveAgain, Takes
  <2>2. handler'.about = id /\ handler'.todo = Dispatch(received[id])
    BY <2>1
  <2> QED
    BY <1>2, <2>2, DispatchTyped DEF HandlerTyped
<1> QED
  BY <1>1, <1>2, <1>3, <1>4, PartsSame

LEMMA SendMessageTyped ==
    ASSUME TypesInv, SendMessage
    PROVE  WireTyped' /\ HandlerTyped' /\ HooksTyped' /\ TasksTyped' /\ LinkTyped'
<1>1. /\ RequestsTyped /\ WireTyped /\ HandlerTyped /\ HooksTyped /\ TasksTyped /\ LinkTyped
  BY TypesParts DEF VerdictInv
<1>2. handler # Idle /\ handler' = Rest /\ UNCHANGED <<received, copies, link, tasks, executed>>
  BY DEF SendMessage
<1> QED
  BY <1>1, <1>2, RestTyped, PartsSame

LEMMA SendFailsTyped ==
    ASSUME TypesInv, SendFails
    PROVE  WireTyped' /\ HandlerTyped' /\ HooksTyped' /\ TasksTyped' /\ LinkTyped'
<1>1. /\ WireTyped /\ HooksTyped /\ TasksTyped /\ LinkTyped
  BY TypesParts
<1>2. handler' = Idle /\ UNCHANGED <<received, copies, link, tasks, executed>>
  BY DEF SendFails
<1>3. HandlerTyped'
  <2>1. Idle.todo = <<>>
    BY DEF Idle
  <2> QED
    BY <1>2, <2>1, FewTyped DEF HandlerTyped
<1> QED
  BY <1>1, <1>2, <1>3, PartsSame

LEMMA CallHookTyped ==
    ASSUME TypesInv, CallHook
    PROVE  WireTyped' /\ HandlerTyped' /\ HooksTyped' /\ TasksTyped' /\ LinkTyped'
<1>1. /\ RequestsTyped /\ WireTyped /\ HandlerTyped /\ HooksTyped /\ TasksTyped /\ LinkTyped
  BY TypesParts DEF VerdictInv
<1>2. PICK e, x : /\ e = Effect
                  /\ x = [about |-> handler.about, seam |-> e.seam, command |-> e.command]
  OBVIOUS
<1>3. /\ handler # Idle /\ handler' = Rest /\ e.act = "execute"
      /\ executed' = Append(executed, x)
      /\ UNCHANGED <<received, copies, link, tasks>>
  BY <1>2 DEF CallHook
<1>4. EffectTyped(e) /\ handler.about \in Id /\ HandlerTyped'
  BY <1>1, <1>2, <1>3, RestTyped
<1>5. x.about \in Id /\ x.seam \in {"control", "config"}
  BY <1>2, <1>3, <1>4 DEF EffectTyped
<1>6. HooksTyped'
  <2>1. IsList(executed) /\ Id' = Id
    BY <1>1, <1>3 DEF RequestsTyped, Id
  <2>2. /\ Len(executed) \in Nat /\ DOMAIN executed = 1 .. Len(executed)
        /\ DOMAIN executed' = 1 .. Len(executed) + 1
        /\ \A i \in 1 .. Len(executed) : executed'[i] = executed[i]
        /\ executed'[Len(executed) + 1] = x
    BY <1>3, <2>1, ListGrows
  <2>3. \A i \in DOMAIN executed' : i \in DOMAIN executed \/ executed'[i] = x
    BY <2>2
  <2> QED
    BY <1>1, <1>5, <2>1, <2>2, <2>3 DEF HooksTyped
<1> QED
  BY <1>1, <1>3, <1>4, <1>6, PartsSame

LEMMA SpawnExchangeTyped ==
    ASSUME TypesInv, SpawnExchange
    PROVE  WireTyped' /\ HandlerTyped' /\ HooksTyped' /\ TasksTyped' /\ LinkTyped'
<1>1. /\ RequestsTyped /\ WireTyped /\ HandlerTyped /\ HooksTyped /\ TasksTyped /\ LinkTyped
      /\ link.number \in 1 .. MaxDrops + 1
  BY TypesParts DEF VerdictInv
<1>2. PICK e, x : /\ e = Effect
                  /\ x = [about |-> handler.about, copy |-> copies[handler.about],
                          seam |-> e.seam, session |-> e.session, sn |-> e.sn,
                          sink |-> link.number]
  OBVIOUS
<1>3. /\ handler # Idle /\ handler' = Rest /\ e.act = "spawn" /\ tasks' = tasks \cup {x}
      /\ UNCHANGED <<received, copies, link, executed>>
  BY <1>2 DEF SpawnExchange
<1>4. EffectTyped(e) /\ handler.about \in Id /\ HandlerTyped'
  BY <1>1, <1>2, <1>3, RestTyped
<1>5. x.about \in Id /\ x.seam \in {"snapshot", "upgrade"} /\ x.sink = link.number
  BY <1>2, <1>3, <1>4 DEF EffectTyped
<1>6. link.number \in 1 .. link.number
  BY <1>1, RequestsAssumption
<1>7. TasksTyped'
  <2>1. Id' = Id
    BY <1>3 DEF Id
  <2> QED
    BY <1>1, <1>3, <1>5, <1>6, <2>1 DEF TasksTyped
<1> QED
  BY <1>1, <1>3, <1>4, <1>7, PartsSame

LEMMA ExchangeEndsTyped ==
    ASSUME TypesInv, NEW t \in tasks, NEW ok \in BOOLEAN, ExchangeEnds(t, ok)
    PROVE  WireTyped' /\ HandlerTyped' /\ HooksTyped' /\ TasksTyped' /\ LinkTyped'
<1>1. /\ WireTyped /\ HandlerTyped /\ HooksTyped /\ TasksTyped /\ LinkTyped
  BY TypesParts
<1>2. tasks' = tasks \ {t} /\ UNCHANGED <<received, copies, handler, link, executed>> /\ Id' = Id
  BY DEF ExchangeEnds, Id
<1>3. TasksTyped'
  BY <1>1, <1>2 DEF TasksTyped
<1> QED
  BY <1>1, <1>2, <1>3, PartsSame

(* The connection goes and comes back.                                    *)
LEMMA LinkSteps ==
    ASSUME TypesInv, ConnectionDrops \/ Redial
    PROVE  /\ WireTyped' /\ HandlerTyped' /\ HooksTyped' /\ TasksTyped' /\ LinkTyped'
           /\ link'.number \in 1 .. MaxDrops + 1
<1>1. /\ WireTyped /\ HandlerTyped /\ HooksTyped /\ TasksTyped /\ LinkTyped
      /\ link.number \in 1 .. MaxDrops + 1
  BY TypesParts
<1>2. UNCHANGED <<received, copies, handler, tasks, executed>> /\ Id' = Id
  BY DEF ConnectionDrops, Redial, Id
<1>3. MaxDrops \in Nat /\ link.number \in Nat
  BY <1>1, RequestsAssumption DEF LinkTyped
<1>4. LinkTyped' /\ link'.number \in link.number .. MaxDrops + 1
  <2>1. CASE ConnectionDrops
    <3>1. link' = [link EXCEPT !.up = FALSE] /\ link.number <= MaxDrops
      BY <2>1 DEF ConnectionDrops
    <3>2. link' \in [stream : BOOLEAN, number : Nat, up : BOOLEAN] /\ link'.number = link.number
      BY <1>1, <3>1 DEF LinkTyped
    <3> QED
      BY <1>1, <1>3, <3>1, <3>2 DEF LinkTyped
  <2>2. CASE Redial
    <3>1. link' = [link EXCEPT !.number = @ + 1, !.up = TRUE] /\ ~link.up
      BY <2>2 DEF Redial
    <3>2. /\ link' \in [stream : BOOLEAN, number : Nat, up : BOOLEAN]
          /\ link'.number = link.number + 1 /\ link'.up
      <4>1. PICK s, n, u : link = [stream |-> s, number |-> n, up |-> u]
                           /\ s \in BOOLEAN /\ n \in Nat /\ u \in BOOLEAN
        BY <1>1 DEF LinkTyped
      <4>2. link' = [stream |-> s, number |-> n + 1, up |-> TRUE] /\ link.number = n
        BY <3>1, <4>1
      <4>3. n + 1 \in Nat
        BY <4>1
      <4> QED
        BY <4>1, <4>2, <4>3
    <3>3. link.number <= MaxDrops
      BY <1>1, <3>1 DEF LinkTyped
    <3> QED
      BY <1>3, <3>2, <3>3 DEF LinkTyped
  <2> QED
    BY <2>1, <2>2
<1>5. TasksTyped'
  <2>1. \A n \in 1 .. link.number : n \in 1 .. link'.number
    BY <1>3, <1>4
  <2> QED
    BY <1>1, <1>2, <2>1 DEF TasksTyped
<1>6. link'.number \in 1 .. MaxDrops + 1
  BY <1>1, <1>3, <1>4
<1> QED
  BY <1>1, <1>2, <1>4, <1>5, <1>6, PartsSame

LEMMA TypesStep ==
    ASSUME AbsentIsApart, BodiesWellFormed, TypesInv, [RequestsNext]_requestsVars
    PROVE  TypesInv'
<1> DEFINE Parts == WireTyped /\ HandlerTyped /\ HooksTyped /\ TasksTyped /\ LinkTyped
<1>1. VerdictInv' /\ host' \in Hosts
  <2>1. VerdictInv /\ host \in Hosts
    BY TypesParts
  <2>2. VerdictInv'
    BY <2>1, VerdictStep
  <2>3. UNCHANGED host
    BY DEF RequestsNext, Receive, ReceiveAgain, Handle, SendMessage, SendFails, CallHook,
           SpawnExchange, ExchangeEnds, ConnectionDrops, Redial, requestsVars
  <2> QED
    BY <2>1, <2>2, <2>3
<1>2. link.number \in 1 .. MaxDrops + 1
  BY TypesParts
<1>3. ASSUME NEW body, NEW method \in {"MESSAGE", "OPTIONS", "CANCEL", "NOTIFY"},
             NEW note \in BOOLEAN, NEW manscdp \in BOOLEAN, Receive(body, method, note, manscdp)
      PROVE  Parts' /\ UNCHANGED link
  BY <1>3, ReceiveTyped DEF Receive
<1>4. ASSUME NEW id \in Id, ReceiveAgain(id)
      PROVE  Parts' /\ UNCHANGED link
  BY <1>4, ReceiveAgainTyped DEF ReceiveAgain
<1>5. ASSUME Handle
      PROVE  Parts' /\ UNCHANGED link
  <2>1. UNCHANGED link
    BY <1>5 DEF Handle, SendMessage, SendFails, CallHook, SpawnExchange
  <2> QED
    BY <1>5, <2>1, SendMessageTyped, SendFailsTyped, CallHookTyped, SpawnExchangeTyped DEF Handle
<1>6. ASSUME NEW t \in tasks, NEW ok \in BOOLEAN, ExchangeEnds(t, ok)
      PROVE  Parts' /\ UNCHANGED link
  BY <1>6, ExchangeEndsTyped DEF ExchangeEnds
<1>7. ASSUME ConnectionDrops \/ Redial
      PROVE  Parts' /\ link'.number \in 1 .. MaxDrops + 1
  BY <1>7, LinkSteps
<1>8. ASSUME UNCHANGED requestsVars
      PROVE  Parts' /\ UNCHANGED link
  BY <1>8, TypesParts, PartsSame DEF requestsVars
<1> HIDE DEF Parts
<1>9. Parts' /\ (UNCHANGED link \/ link'.number \in 1 .. MaxDrops + 1)
  BY <1>3, <1>4, <1>5, <1>6, <1>7, <1>8 DEF RequestsNext
<1>10. Parts' /\ link'.number \in 1 .. MaxDrops + 1
  BY <1>2, <1>9
<1>11. /\ \A i \in DOMAIN sent' : sent'[i].about \in Id'
       /\ cut' \subseteq Id' /\ lost' \subseteq Id'
  BY <1>1 DEF VerdictInv, RequestsTyped
<1>12. link'.stream \in BOOLEAN /\ link'.up \in BOOLEAN
  BY <1>10 DEF Parts, LinkTyped
<1>13. RequestsTypeOK'
  BY <1>1, <1>10, <1>11, <1>12
     DEF Parts, RequestsTypeOK, WireTyped, HandlerTyped, TasksTyped, HooksTyped
<1> QED
  BY <1>1, <1>10, <1>13 DEF Parts, TypesInv, HandlerTyped

LEMMA TypesInit == RequestsInit => TypesInv
<1> SUFFICES ASSUME RequestsInit
             PROVE  TypesInv
  OBVIOUS
<1>1. VerdictInv
  BY VerdictInit
<1>2. /\ host \in Hosts /\ received = <<>> /\ copies = <<>> /\ handler = Idle
      /\ tasks = {} /\ sent = <<>> /\ executed = <<>> /\ cut = {} /\ lost = {}
      /\ \E stream \in BOOLEAN : link = [stream |-> stream, number |-> 1, up |-> TRUE]
  BY DEF RequestsInit
<1>3. Id = {} /\ DOMAIN copies = {}
  BY <1>2 DEF Id
<1>4. WireTyped /\ TasksTyped /\ HooksTyped
  BY <1>2, <1>3 DEF WireTyped, TasksTyped, HooksTyped
<1>5. HandlerTyped
  <2>1. Idle.todo = <<>>
    BY DEF Idle
  <2> QED
    BY <1>2, <2>1, FewTyped DEF HandlerTyped
<1>6. LinkTyped /\ link.number \in 1 .. MaxDrops + 1
  BY <1>2, RequestsAssumption DEF LinkTyped
<1> QED
  BY <1>1, <1>2, <1>4, <1>5, <1>6, TypesParts

(* The message handler, its exchanges and its connection keep their types,*)
(* for any host, bodies, lists and page size and any bounds: what is called*)
(* and spawned is always a hook and an exchange the code has, about a      *)
(* request that came, and a list of effects in hand is never empty.       *)
THEOREM RequestsTypeCorrect ==
    ASSUME AbsentIsApart, BodiesWellFormed
    PROVE  RequestsSpec => []RequestsTypeOK
<1>1. TypesInv /\ [RequestsNext]_requestsVars => TypesInv'
  BY TypesStep
<1>2. TypesInv => RequestsTypeOK
  BY DEF TypesInv
<1> QED
  BY <1>1, <1>2, TypesInit, PTL DEF RequestsSpec
===============================================================================
