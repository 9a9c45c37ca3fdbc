-------------------------- MODULE Registration_proofs --------------------------
(***************************************************************************)
(* Proofs about Registration for every number of startup attempts, every   *)
(* failure threshold and every bound on the exchanges.                     *)
(***************************************************************************)
EXTENDS Registration, TLAPS

(* Where the loop is tells which exchange it may be waiting for.           *)
Control ==
    /\ loop \in {"backoff", "stopped"} => exchange = NoExchange
    /\ exchange.cause = "startup" => loop = "registering"
    /\ exchange.cause \in {"refresh", "silence", "failures", "shutdown"} =>
          loop = "serving"
    /\ exchange.op = "deregister" <=> exchange.cause = "shutdown"
    /\ loop = "backoff" => attempt < MaxAttempts

(* An exchange spends at most two numbers and spawns at most one keepalive. *)
Budget ==
    /\ loop # "stopped" /\ exchange.op # "deregister" => begun <= MaxExchanges
    /\ exchange = NoExchange => cseq <= 2 * begun + 1 /\ keepalives <= begun
    /\ exchange # NoExchange => keepalives < begun
    /\ exchange.leg = "initial" => cseq <= 2 * begun - 1
    /\ exchange.leg = "authed" => cseq <= 2 * begun

(* What is on the wire was sent, with numbers up to the client's, and the   *)
(* platform granted what it accepted.                                       *)
Wire ==
    /\ \A q \in requests : q.exchange <= begun /\ q.cseq <= cseq
    /\ \A a \in inbox : a.request \in requests
    /\ \A a \in inbox : a.code = "ok" /\ a.request.op = "register" => granted
    /\ exchange.op = "deregister" => \E q \in requests : q.op = "deregister"

(* The failure counter is at the threshold only while the loop reacts.      *)
Reacting == failures < TimeoutCount \/ exchange.cause = "failures"

(* The inductive invariant.                                                 *)
IInv ==
    /\ TypeOK
    /\ Control
    /\ Budget
    /\ Wire
    /\ Reacting
    /\ RegistrationIsGranted
    /\ RegisteredIsKeptAlive
    /\ NumbersInOrder
    /\ DeregisterIsLast
-------------------------------------------------------------------------------
(* An exchange is recognised by any of its fields.                           *)
LEMMA ExchangeFields ==
    ASSUME TypeOK
    PROVE  \/ /\ exchange = NoExchange
              /\ exchange.op = "none"
              /\ exchange.cause = "none"
              /\ exchange.leg = "none"
           \/ /\ exchange # NoExchange
              /\ exchange \in [op : Op, cause : Cause, leg : Leg]
              /\ exchange.op \in Op
              /\ exchange.cause \in Cause
              /\ exchange.leg \in Leg
BY DEF TypeOK, NoExchange, Op, Cause, Leg

(* However an exchange of the run loop's ends, with a result the platform    *)
(* granted if it is a success.                                               *)
LEMMA RegisterEndsKeeps ==
    ASSUME IInv, NEW ok \in BOOLEAN, RegisterEnds(ok), ok => granted,
           cseq' \in {cseq, cseq + 1},
           inbox' \subseteq inbox,
           UNCHANGED <<requests, unanswered, granted>>
    PROVE  IInv'
<1> USE DEF IInv
<1>1. /\ exchange # NoExchange
      /\ exchange.op = "register"
      /\ exchange.cause \in {"startup", "refresh", "silence", "failures"}
      /\ exchange.leg \in Leg
      /\ exchange' = NoExchange
      /\ loop # "stopped"
      /\ begun <= MaxExchanges
  BY ExchangeFields DEF RegisterEnds, Control, Budget, NoExchange, Cause, TypeOK
<1>2. /\ begun \in Nat /\ cseq \in Nat /\ keepalives \in Nat /\ MaxExchanges \in Nat
      /\ cseq <= 2 * begun
      /\ keepalives < begun
  BY <1>1, RegistrationAssumption DEF Budget, TypeOK, Leg
<1>3. /\ SpawnedKeepalives(ok) \in {0, 1}
      /\ SpawnedKeepalives(ok) = 1 => ok
      /\ keepalives' = keepalives + SpawnedKeepalives(ok)
      /\ keepalives' \in Nat
      /\ keepalives' >= keepalives
      /\ keepalives' <= begun
  BY <1>2 DEF SpawnedKeepalives, RegisterEnds
<1>4. TypeOK'
  <2>1. loop' \in {"serving", "backoff"} /\ attempt' = attempt /\ accepted' \in BOOLEAN
    BY DEF RegisterEnds, LoopAfter
  <2>2. registered' \in BOOLEAN
    BY DEF RegisterEnds, RegisteredAfter, TypeOK
  <2>3. failures' \in 0 .. TimeoutCount
    BY RegistrationAssumption DEF RegisterEnds, FailuresAfter, TypeOK
  <2>4. begun' = begun /\ cseq' \in 1 .. MaxCSeq /\ keepalives' \in 0 .. MaxExchanges
    BY <1>1, <1>2, <1>3 DEF RegisterEnds, TypeOK, MaxCSeq
  <2>5. QED
    BY <1>1, <2>1, <2>2, <2>3, <2>4 DEF TypeOK, RegisterEnds
<1>5. Control'
  BY <1>1 DEF Control, RegisterEnds, LoopAfter, NoExchange
<1>6. Budget'
  BY <1>1, <1>2, <1>3 DEF Budget, RegisterEnds, NoExchange
<1>7. Wire'
  <2>1. \A q \in requests : q.exchange \in Nat /\ q.cseq \in Nat
    BY DEF TypeOK, Request
  <2>2. QED
    BY <1>1, <1>2, <2>1 DEF Wire, RegisterEnds, NoExchange
<1>8. Reacting'
  BY <1>1, RegistrationAssumption DEF Reacting, RegisterEnds, FailuresAfter, Judges, TypeOK
<1>9. RegistrationIsGranted'
  BY <1>2, <1>3 DEF RegistrationIsGranted, RegisterEnds, RegisteredAfter
<1>10. RegisteredIsKeptAlive'
  <2>1. CASE Judges(exchange.cause) /\ ok /\ ~registered
    BY <1>2, <2>1 DEF RegisteredIsKeptAlive, RegisterEnds, SpawnedKeepalives
  <2>2. CASE ~(Judges(exchange.cause) /\ ok /\ ~registered)
    <3>1. keepalives' = keepalives /\ (registered' => registered) /\ mode' = mode
      BY <1>2, <2>2 DEF RegisterEnds, SpawnedKeepalives, RegisteredAfter, TypeOK
    <3>2. QED
      BY <3>1 DEF RegisteredIsKeptAlive
  <2>3. QED
    BY <2>1, <2>2
<1>11. NumbersInOrder'
  BY DEF NumbersInOrder
<1>12. DeregisterIsLast'
  BY <1>1 DEF DeregisterIsLast
<1>13. QED
  BY <1>4, <1>5, <1>6, <1>7, <1>8, <1>9, <1>10, <1>11, <1>12

(* However de-registration ends.                                             *)
LEMMA DeregisterEndsKeeps ==
    ASSUME IInv, DeregisterEnds,
           cseq' \in {cseq, cseq + 1},
           inbox' \subseteq inbox,
           UNCHANGED <<requests, unanswered, granted>>
    PROVE  IInv'
<1> USE DEF IInv
<1>1. /\ exchange # NoExchange
      /\ exchange.leg \in Leg
      /\ exchange' = NoExchange
      /\ loop' = "stopped"
  BY ExchangeFields DEF DeregisterEnds, NoExchange
<1>2. /\ begun \in Nat /\ cseq \in Nat /\ keepalives \in Nat /\ MaxExchanges \in Nat
      /\ begun <= MaxExchanges + 1
      /\ cseq <= 2 * begun
      /\ keepalives < begun
  BY <1>1, RegistrationAssumption DEF Budget, TypeOK, Leg
<1>3. TypeOK'
  BY <1>1, <1>2 DEF TypeOK, DeregisterEnds, status, MaxCSeq
<1>4. Control' /\ Budget'
  BY <1>1, <1>2 DEF Control, Budget, DeregisterEnds, status, NoExchange
<1>5. Wire'
  <2>1. \A q \in requests : q.exchange \in Nat /\ q.cseq \in Nat
    BY DEF TypeOK, Request
  <2>2. QED
    BY <1>1, <1>2, <2>1 DEF Wire, DeregisterEnds, NoExchange
<1>6. Reacting'
  BY DEF Reacting, DeregisterEnds, Control
<1>7. RegistrationIsGranted' /\ RegisteredIsKeptAlive'
  BY DEF RegistrationIsGranted, RegisteredIsKeptAlive, DeregisterEnds, status
<1>8. NumbersInOrder' /\ DeregisterIsLast'
  BY <1>1 DEF NumbersInOrder, DeregisterIsLast, DeregisterEnds
<1>9. QED
  BY <1>3, <1>4, <1>5, <1>6, <1>7, <1>8
(* An exchange that begins on an idle loop, in a startup attempt, or (the    *)
(* de-registration) in place of the refresh that the signal cut off.         *)
LEMMA BeginKeeps ==
    ASSUME IInv, NEW op \in Op, NEW cause \in Cause, Begin(op, cause),
           begun <= MaxExchanges,
           exchange = NoExchange \/ exchange.op = "register",
           op = "register" => begun < MaxExchanges /\ loop # "stopped",
           op = "deregister" <=> cause = "shutdown",
           op = "deregister" => mode # "none" /\ loop = "serving",
           IF cause = "startup" THEN loop = "registering" ELSE loop = "serving",
           failures' \in 0 .. TimeoutCount,
           failures' < TimeoutCount \/ cause = "failures",
           inbox' \subseteq inbox,
           UNCHANGED <<loop, attempt, cseq, registered, accepted, keepalives, mode,
                       granted>>
    PROVE  IInv'
<1> USE DEF IInv
<1> DEFINE q == [exchange |-> begun + 1, op |-> op, leg |-> "initial", cseq |-> cseq]
<1>1. /\ exchange' = [op |-> op, cause |-> cause, leg |-> "initial"]
      /\ exchange' # NoExchange
      /\ exchange'.op = op /\ exchange'.cause = cause /\ exchange'.leg = "initial"
      /\ begun' = begun + 1
      /\ requests' = requests \cup {q}
      /\ unanswered' = unanswered \cup {q}
  BY DEF Begin, Send, NoExchange
<1>2. /\ begun \in Nat /\ cseq \in Nat /\ keepalives \in Nat /\ MaxExchanges \in Nat
      /\ cseq <= 2 * begun + 1
      /\ keepalives <= begun
  BY ExchangeFields, RegistrationAssumption DEF Budget, TypeOK, Leg
<1>3. q \in Request
  BY <1>2 DEF Request, TypeOK, Leg
<1>4. TypeOK'
  <2>1. exchange' \in [op : Op, cause : Cause, leg : Leg]
    BY <1>1 DEF Leg
  <2>2. begun' \in 0 .. MaxExchanges + 1
    BY <1>1, <1>2
  <2>3. requests' \subseteq Request /\ unanswered' \subseteq requests'
    BY <1>1, <1>3 DEF TypeOK
  <2>4. QED
    BY <2>1, <2>2, <2>3 DEF TypeOK
<1>5. Control'
  BY <1>1 DEF Control, Cause
<1>6. Budget'
  BY <1>1, <1>2 DEF Budget, Op
<1>7. \A p \in requests : p.exchange \in Nat /\ p.cseq \in Nat
  BY DEF TypeOK, Request
<1>8. \A p \in requests : p.exchange <= begun /\ p.cseq <= cseq
  BY DEF Wire
<1>9. Wire'
  <2>1. \A p \in requests' : p.exchange <= begun' /\ p.cseq <= cseq'
    BY <1>1, <1>2, <1>7, <1>8
  <2>2. \A a \in inbox' : /\ a.request \in requests'
                         /\ a.code = "ok" /\ a.request.op = "register" => granted'
    BY <1>1 DEF Wire
  <2>3. exchange'.op = "deregister" => \E p \in requests' : p.op = "deregister"
    <3>1. q \in requests' /\ q.op = exchange'.op
      BY <1>1
    <3>2. QED
      BY <3>1
  <2>4. QED
    BY <1>1, <2>1, <2>2, <2>3 DEF Wire
<1>10. Reacting'
  BY <1>1 DEF Reacting
<1>11. RegistrationIsGranted' /\ RegisteredIsKeptAlive'
  BY DEF RegistrationIsGranted, RegisteredIsKeptAlive
<1>12. NumbersInOrder'
  BY <1>1, <1>2, <1>7, <1>8 DEF NumbersInOrder
<1>13. DeregisterIsLast'
  <2>1. \A p \in requests : p.op # "deregister"
    BY ExchangeFields DEF DeregisterIsLast, NoExchange
  <2>2. QED
    BY <1>1, <2>1 DEF DeregisterIsLast
<1>14. QED
  BY <1>4, <1>5, <1>6, <1>9, <1>10, <1>11, <1>12, <1>13
(* A response nothing waits for is counted, and the count may start an       *)
(* exchange.                                                                 *)
LEMMA CountedKeeps ==
    ASSUME IInv, Idle, NEW code, ResponseCounted(code),
           inbox' \subseteq inbox,
           UNCHANGED <<loop, attempt, cseq, registered, accepted, keepalives, mode,
                       granted>>
    PROVE  IInv'
<1>1. /\ failures \in Nat /\ TimeoutCount \in Nat \ {0}
      /\ failures < TimeoutCount
      /\ loop = "serving"
      /\ exchange = NoExchange
      /\ begun \in Nat
  BY RegistrationAssumption DEF Idle, IInv, Reacting, NoExchange, TypeOK
<1>2. CASE Trips /\ failures' = failures + 1 /\ BeginRegister("failures")
  <2>1. /\ Begin("register", "failures")
        /\ begun < MaxExchanges
        /\ failures' \in 0 .. TimeoutCount
    BY <1>1, <1>2 DEF BeginRegister
  <2>2. "register" \in Op /\ "failures" \in Cause
    BY DEF Op, Cause
  <2>3. begun <= MaxExchanges
    BY <1>1, <2>1, RegistrationAssumption
  <2>4. QED
    BY <1>1, <2>1, <2>2, <2>3, BeginKeeps
<1>3. CASE /\ failures' \in 0 .. TimeoutCount
           /\ failures' < TimeoutCount
           /\ UNCHANGED <<exchange, begun, requests, unanswered>>
  BY <1>3 DEF IInv, TypeOK, Control, Budget, Wire, Reacting, RegistrationIsGranted,
              RegisteredIsKeptAlive, NumbersInOrder, DeregisterIsLast
<1>4. QED
  <2>1. CASE code = "ok"
    BY <1>1, <1>3, <2>1 DEF ResponseCounted
  <2>2. CASE code # "ok" /\ ~Trips
    BY <1>1, <1>3, <2>2 DEF ResponseCounted, Trips
  <2>3. CASE code # "ok" /\ Trips
    BY <1>2, <2>3 DEF ResponseCounted
  <2>4. QED
    BY <2>1, <2>2, <2>3

-------------------------------------------------------------------------------
LEMMA InvInit == Init => IInv
<1> SUFFICES ASSUME Init PROVE IInv
  OBVIOUS
<1>1. TypeOK
  <2>1. /\ attempt \in 1 .. MaxAttempts
        /\ begun \in 0 .. MaxExchanges + 1
        /\ cseq \in 1 .. MaxCSeq
        /\ keepalives \in 0 .. MaxExchanges
        /\ failures \in 0 .. TimeoutCount
    BY RegistrationAssumption DEF Init, MaxCSeq
  <2>2. QED
    BY <2>1 DEF Init, TypeOK
<1>2. Control /\ Budget /\ Wire /\ Reacting
  BY RegistrationAssumption DEF Init, Control, Budget, Wire, Reacting, NoExchange
<1>3. /\ RegistrationIsGranted
      /\ RegisteredIsKeptAlive
      /\ NumbersInOrder
      /\ DeregisterIsLast
  BY DEF Init, RegistrationIsGranted, RegisteredIsKeptAlive, NumbersInOrder,
         DeregisterIsLast
<1>4. QED
  BY <1>1, <1>2, <1>3 DEF IInv

(* A response that moves the exchange on to its second leg.                  *)
LEMMA ChallengedKeeps ==
    ASSUME IInv, NEW a \in inbox, Challenged(a)
    PROVE  IInv'
<1> USE DEF IInv
<1> DEFINE q == [exchange |-> begun, op |-> exchange.op, leg |-> "authed",
                 cseq |-> cseq + 1]
<1>1. /\ exchange \in [op : Op, cause : Cause, leg : Leg]
      /\ exchange # NoExchange
      /\ exchange.op \in Op
      /\ exchange.leg = "initial"
  BY ExchangeFields DEF Challenged, Matches
<1>2. /\ exchange' = [exchange EXCEPT !.leg = "authed"]
      /\ exchange' \in [op : Op, cause : Cause, leg : Leg]
      /\ exchange' # NoExchange
      /\ exchange'.op = exchange.op
      /\ exchange'.cause = exchange.cause
      /\ exchange'.leg = "authed"
      /\ cseq' = cseq + 1
      /\ requests' = requests \cup {q}
      /\ unanswered' = unanswered \cup {q}
      /\ inbox' \subseteq inbox
  BY <1>1 DEF Challenged, Send, NextNumber, Received, NoExchange, Leg
<1>3. UNCHANGED <<loop, attempt, begun, registered, accepted, keepalives, failures,
                  mode, granted>>
  BY DEF Challenged, status
<1>4. /\ begun \in Nat /\ cseq \in Nat /\ keepalives \in Nat /\ MaxExchanges \in Nat
      /\ begun >= 1
      /\ begun <= MaxExchanges + 1
      /\ cseq >= 1
      /\ cseq <= 2 * begun - 1
      /\ keepalives < begun
  BY <1>1, RegistrationAssumption DEF Budget, TypeOK
<1>5. q \in Request
  BY <1>1, <1>4 DEF Request, Leg, MaxCSeq
<1>6. TypeOK'
  BY <1>2, <1>3, <1>4, <1>5 DEF TypeOK, MaxCSeq
<1>7. Control'
  BY <1>1, <1>2, <1>3 DEF Control
<1>8. Budget'
  BY <1>1, <1>2, <1>3, <1>4 DEF Budget
<1>9. \A p \in requests : /\ p.exchange \in Nat /\ p.cseq \in Nat
                          /\ p.exchange <= begun /\ p.cseq <= cseq
  BY DEF TypeOK, Request, Wire
<1>10. Wire'
  <2>1. \A p \in requests' : p.exchange <= begun' /\ p.cseq <= cseq'
    BY <1>2, <1>3, <1>4, <1>9
  <2>2. \A b \in inbox' : /\ b.request \in requests'
                          /\ b.code = "ok" /\ b.request.op = "register" => granted'
    BY <1>2, <1>3 DEF Wire
  <2>3. exchange'.op = "deregister" => \E p \in requests' : p.op = "deregister"
    BY <1>2 DEF Wire
  <2>4. QED
    BY <2>1, <2>2, <2>3 DEF Wire
<1>11. Reacting' /\ RegistrationIsGranted' /\ RegisteredIsKeptAlive'
  BY <1>2, <1>3 DEF Reacting, RegistrationIsGranted, RegisteredIsKeptAlive
<1>12. NumbersInOrder'
  BY <1>2, <1>3, <1>4, <1>9 DEF NumbersInOrder
<1>13. DeregisterIsLast'
  BY <1>2, <1>3 DEF DeregisterIsLast, Wire
<1>14. QED
  BY <1>6, <1>7, <1>8, <1>10, <1>11, <1>12, <1>13

(* The signal taken with nothing to de-register: the exchange in progress,   *)
(* if any, is dropped.                                                       *)
LEMMA StoppingKeeps ==
    ASSUME IInv, mode # "none",
           exchange = NoExchange \/ exchange.cause \in {"startup", "refresh"},
           loop' = "stopped", exchange' = NoExchange,
           UNCHANGED <<attempt, begun, cseq, registered, accepted, keepalives,
                       failures, mode, requests, unanswered, inbox, granted>>
    PROVE  IInv'
<1> USE DEF IInv
<1>1. TypeOK'
  BY DEF TypeOK
<1>2. Control'
  BY DEF Control, NoExchange
<1>3. Budget'
  <2>1. /\ begun \in Nat /\ cseq \in Nat /\ keepalives \in Nat
        /\ cseq <= 2 * begun + 1
        /\ keepalives <= begun
    BY ExchangeFields, RegistrationAssumption DEF Budget, TypeOK, Leg
  <2>2. QED
    BY <2>1 DEF Budget, NoExchange
<1>4. Wire' /\ Reacting'
  BY DEF Wire, Reacting, NoExchange
<1>5. RegistrationIsGranted' /\ RegisteredIsKeptAlive' /\ NumbersInOrder'
  BY DEF RegistrationIsGranted, RegisteredIsKeptAlive, NumbersInOrder
<1>6. DeregisterIsLast'
  BY DEF DeregisterIsLast
<1>7. QED
  BY <1>1, <1>2, <1>3, <1>4, <1>5, <1>6

(* Every action keeps the invariant.                                         *)
LEMMA InvStep == IInv /\ [Next]_vars => IInv'
<1> SUFFICES ASSUME IInv, [Next]_vars PROVE IInv'
  OBVIOUS
<1>1. ASSUME NEW a \in inbox, ResponseReceived(a) PROVE IInv'
  <2>1. CASE ResponseSkipped(a)
    <3>1. /\ inbox' \subseteq inbox
          /\ UNCHANGED <<loop, attempt, exchange, begun, cseq, registered, accepted,
                         keepalives, failures, mode, requests, unanswered, granted>>
      BY <2>1 DEF ResponseSkipped, Received, status
    <3>2. QED
      BY <3>1 DEF IInv, TypeOK, Control, Budget, Wire, Reacting, RegistrationIsGranted,
                  RegisteredIsKeptAlive, NumbersInOrder, DeregisterIsLast
  <2>2. CASE Challenged(a)
    BY <2>2, ChallengedKeeps
  <2>3. CASE ChallengeUnusable(a)
    <3>1. cseq' \in {cseq, cseq + 1} /\ inbox' \subseteq inbox
      BY <2>3 DEF ChallengeUnusable, NextNumber, Received
    <3>2. UNCHANGED <<requests, unanswered, granted>>
      BY <2>3 DEF ChallengeUnusable
    <3>3. RegisterEnds(FALSE) \/ DeregisterEnds
      BY <2>3 DEF ChallengeUnusable
    <3>4. QED
      BY <3>1, <3>2, <3>3, RegisterEndsKeeps, DeregisterEndsKeeps
  <2>4. CASE RegisterAccepted(a)
    <3>1. /\ cseq' \in {cseq, cseq + 1}
          /\ inbox' \subseteq inbox
          /\ UNCHANGED <<requests, unanswered, granted>>
          /\ RegisterEnds(TRUE)
      BY <2>4 DEF RegisterAccepted, Received
    <3>2. a.request \in requests /\ a.code = "ok" /\ a.request.op \in Op
      BY <2>4 DEF RegisterAccepted, IInv, Wire, TypeOK, Request
    <3>3. exchange.op = "register" /\ loop # "stopped"
      BY <3>1 DEF RegisterEnds, IInv, Control, NoExchange
    <3>4. granted
      BY <3>2, <3>3 DEF IInv, Wire, DeregisterIsLast, Op
    <3>5. QED
      BY <3>1, <3>4, RegisterEndsKeeps
  <2>5. CASE AcceptanceUnverified(a)
    <3>1. /\ cseq' \in {cseq, cseq + 1}
          /\ inbox' \subseteq inbox
          /\ UNCHANGED <<requests, unanswered, granted>>
          /\ RegisterEnds(FALSE)
      BY <2>5 DEF AcceptanceUnverified, Received
    <3>2. QED
      BY <3>1, RegisterEndsKeeps
  <2>6. CASE RegisterRefused(a)
    <3>1. /\ cseq' \in {cseq, cseq + 1}
          /\ inbox' \subseteq inbox
          /\ UNCHANGED <<requests, unanswered, granted>>
          /\ RegisterEnds(FALSE)
      BY <2>6 DEF RegisterRefused, Received
    <3>2. QED
      BY <3>1, RegisterEndsKeeps
  <2>7. CASE DeregisterAnswered(a)
    <3>1. /\ cseq' \in {cseq, cseq + 1}
          /\ inbox' \subseteq inbox
          /\ UNCHANGED <<requests, unanswered, granted>>
          /\ DeregisterEnds
      BY <2>7 DEF DeregisterAnswered, Received
    <3>2. QED
      BY <3>1, DeregisterEndsKeeps
  <2>8. CASE LateResponse(a)
    <3>1. /\ Idle
          /\ inbox' \subseteq inbox
          /\ ResponseCounted(a.code)
          /\ UNCHANGED <<loop, attempt, cseq, registered, accepted, keepalives, mode,
                         granted>>
      BY <2>8 DEF LateResponse, Received, status
    <3>2. QED
      BY <3>1, CountedKeeps
  <2>9. QED
    BY <1>1, <2>1, <2>2, <2>3, <2>4, <2>5, <2>6, <2>7, <2>8 DEF ResponseReceived
<1>2. ASSUME ResponseMissing PROVE IInv'
  <2>1. /\ RegisterEnds(FALSE) \/ DeregisterEnds
        /\ cseq' = cseq /\ inbox' = inbox
        /\ UNCHANGED <<requests, unanswered, granted>>
    BY <1>2 DEF ResponseMissing, wire
  <2>2. QED
    BY <2>1, RegisterEndsKeeps, DeregisterEndsKeeps
<1>3. ASSUME StartupAttempt \/ RefreshTick \/ SilenceDetected PROVE IInv'
  <2>1. PICK cause \in {"startup", "refresh", "silence"} :
           /\ BeginRegister(cause)
           /\ IF cause = "startup" THEN loop = "registering" ELSE loop = "serving"
    BY <1>3 DEF StartupAttempt, RefreshTick, SilenceDetected, Idle
  <2>2. /\ exchange = NoExchange
        /\ failures' = failures /\ inbox' = inbox
        /\ UNCHANGED <<loop, attempt, cseq, registered, accepted, keepalives, mode,
                       granted>>
    BY <1>3 DEF StartupAttempt, RefreshTick, SilenceDetected, Idle, status
  <2>3. /\ Begin("register", cause)
        /\ begun < MaxExchanges
        /\ begun <= MaxExchanges
        /\ "register" \in Op /\ cause \in Cause /\ cause # "shutdown"
        /\ loop # "stopped"
    BY <2>1, RegistrationAssumption DEF BeginRegister, Op, Cause, IInv, TypeOK
  <2>4. failures' \in 0 .. TimeoutCount /\ failures' < TimeoutCount
    BY <2>2 DEF IInv, TypeOK, Reacting, NoExchange
  <2>5. QED
    BY <2>1, <2>2, <2>3, <2>4, BeginKeeps
<1>4. ASSUME BackoffElapses PROVE IInv'
  <2>1. /\ loop = "backoff"
        /\ loop' = "registering"
        /\ attempt' = attempt + 1
        /\ UNCHANGED <<exchange, begun, cseq, registered, accepted, keepalives,
                       failures, mode, requests, unanswered, inbox, granted>>
    BY <1>4 DEF BackoffElapses, status, wire
  <2>2. attempt' \in 1 .. MaxAttempts
    BY <2>1, RegistrationAssumption DEF IInv, TypeOK, Control
  <2>3. TypeOK'
    BY <2>1, <2>2 DEF IInv, TypeOK
  <2>4. Control' /\ Budget' /\ Wire' /\ Reacting'
    BY <2>1 DEF IInv, Control, Budget, Wire, Reacting, NoExchange
  <2>5. QED
    BY <2>1, <2>3, <2>4 DEF IInv, RegistrationIsGranted, RegisteredIsKeptAlive,
                            NumbersInOrder, DeregisterIsLast
<1>5. ASSUME NEW code \in {"ok", "other"}, KeepaliveAnswered(code) PROVE IInv'
  <2>1. /\ Idle
        /\ inbox' \subseteq inbox
        /\ ResponseCounted(code)
        /\ UNCHANGED <<loop, attempt, cseq, registered, accepted, keepalives, mode,
                       granted>>
    BY <1>5 DEF KeepaliveAnswered, status
  <2>2. QED
    BY <2>1, CountedKeeps
<1>6. ASSUME NEW m \in {"fast", "deregister"}, RequestShutdown(m) PROVE IInv'
  BY <1>6 DEF RequestShutdown, status, wire, IInv, TypeOK, Control, Budget, Wire,
              Reacting, RegistrationIsGranted, RegisteredIsKeptAlive, NumbersInOrder,
              DeregisterIsLast
<1>7. ASSUME StartupInterrupted PROVE IInv'
  <2>1. /\ mode # "none"
        /\ loop = "backoff" \/ exchange.cause = "startup"
        /\ loop' = "stopped"
        /\ exchange' = NoExchange
        /\ UNCHANGED <<attempt, begun, cseq, registered, accepted, keepalives,
                       failures, mode, requests, unanswered, inbox, granted>>
    BY <1>7 DEF StartupInterrupted, status, wire
  <2>2. exchange = NoExchange \/ exchange.cause = "startup"
    BY <2>1 DEF IInv, Control
  <2>3. QED
    BY <2>1, <2>2, StoppingKeeps
<1>8. ASSUME ShutdownTaken PROVE IInv'
  <2>1. /\ mode # "none"
        /\ loop = "serving"
        /\ exchange = NoExchange \/ exchange.cause = "refresh"
        /\ UNCHANGED <<attempt, cseq, registered, accepted, keepalives, failures,
                       mode, inbox, granted>>
    BY <1>8 DEF ShutdownTaken, TakesSignal, Idle, status, IInv, Control
  <2>2. CASE BeginDeregister
    <3>1. Begin("deregister", "shutdown") /\ loop' = loop
      BY <2>2 DEF BeginDeregister
    <3>2. /\ "deregister" \in Op /\ "shutdown" \in Cause
          /\ exchange = NoExchange \/ exchange.op = "register"
      BY <2>1, ExchangeFields DEF Op, Cause, IInv, Control
    <3>3. begun <= MaxExchanges
      BY <2>1, <3>2 DEF IInv, Budget, NoExchange
    <3>4. failures' \in 0 .. TimeoutCount /\ failures' < TimeoutCount
      BY <2>1 DEF IInv, TypeOK, Reacting, NoExchange
    <3>5. QED
      BY <2>1, <3>1, <3>2, <3>3, <3>4, BeginKeeps
  <2>3. CASE /\ loop' = "stopped"
             /\ exchange' = NoExchange
             /\ UNCHANGED <<begun, requests, unanswered>>
    BY <2>1, <2>3, StoppingKeeps
  <2>4. QED
    BY <1>8, <2>2, <2>3 DEF ShutdownTaken
<1>9. ASSUME KeepaliveStops PROVE IInv'
  <2>1. /\ mode # "none"
        /\ keepalives > 0
        /\ keepalives' = keepalives - 1
        /\ UNCHANGED <<loop, attempt, exchange, begun, cseq, registered, accepted,
                       failures, mode, requests, unanswered, inbox, granted>>
    BY <1>9 DEF KeepaliveStops, wire
  <2>2. TypeOK'
    BY <2>1, RegistrationAssumption DEF IInv, TypeOK
  <2>3. keepalives' \in Nat /\ keepalives \in Nat /\ begun \in Nat
    BY <2>1, RegistrationAssumption DEF IInv, TypeOK
  <2>4. Budget'
    BY <2>1, <2>3 DEF IInv, Budget
  <2>5. RegistrationIsGranted' /\ RegisteredIsKeptAlive'
    BY <2>1 DEF IInv, RegistrationIsGranted, RegisteredIsKeptAlive
  <2>6. QED
    BY <2>1, <2>2, <2>4, <2>5
    DEF IInv, Control, Wire, Reacting, NumbersInOrder, DeregisterIsLast
<1>10. ASSUME NEW q \in unanswered, NEW code \in Code, PlatformAnswers(q, code)
       PROVE  IInv'
  <2>1. /\ inbox' = inbox \cup {[request |-> q, code |-> code]}
        /\ unanswered' \subseteq unanswered
        /\ granted' = (granted \/ (code = "ok" /\ q.op = "register"))
        /\ UNCHANGED <<loop, attempt, exchange, begun, cseq, registered, accepted,
                       keepalives, failures, mode, requests>>
    BY <1>10 DEF PlatformAnswers, status
  <2>2. q \in requests /\ q \in Request
    BY DEF IInv, TypeOK
  <2>3. TypeOK'
    BY <2>1, <2>2 DEF IInv, TypeOK, Response
  <2>4. Wire'
    <3>1. \A a \in inbox' :
             \/ a \in inbox
             \/ a.request = q /\ a.code = code
      BY <2>1
    <3>2. \A a \in inbox' :
             /\ a.request \in requests
             /\ a.code = "ok" /\ a.request.op = "register" => granted'
      BY <2>1, <2>2, <3>1 DEF IInv, Wire
    <3>3. QED
      BY <2>1, <3>2 DEF IInv, Wire
  <2>5. RegistrationIsGranted'
    BY <2>1 DEF IInv, RegistrationIsGranted
  <2>6. QED
    BY <2>1, <2>3, <2>4, <2>5
    DEF IInv, Control, Budget, Reacting, RegisteredIsKeptAlive, NumbersInOrder,
        DeregisterIsLast
<1>11. ASSUME UNCHANGED vars PROVE IInv'
  BY <1>11 DEF vars, IInv, TypeOK, Control, Budget, Wire, Reacting,
               RegistrationIsGranted, RegisteredIsKeptAlive, NumbersInOrder,
               DeregisterIsLast
<1>12. QED
  BY <1>1, <1>2, <1>3, <1>4, <1>5, <1>6, <1>7, <1>8, <1>9, <1>10, <1>11
  DEF Next, Triggers, Interrupted
-------------------------------------------------------------------------------
(* The types of all variables; in particular the client's number and the     *)
(* count of keepalives stay within what the exchanges begun allow.           *)
THEOREM TypeCorrect == Spec => []TypeOK
<1>1. IInv => TypeOK
  BY DEF IInv
<1>2. QED
  BY InvInit, InvStep, <1>1, PTL DEF Spec

(* No refusal, challenge, timeout or stray response makes the device believe *)
(* itself registered.                                                        *)
THEOREM GrantPrecedesRegistration == Spec => []RegistrationIsGranted
<1>1. IInv => RegistrationIsGranted
  BY DEF IInv
<1>2. QED
  BY InvInit, InvStep, <1>1, PTL DEF Spec

(* Whatever path led to `registered`, a keepalive task runs until shutdown.  *)
THEOREM RegisteredBeats == Spec => []RegisteredIsKeptAlive
<1>1. IInv => RegisteredIsKeptAlive
  BY DEF IInv
<1>2. QED
  BY InvInit, InvStep, <1>1, PTL DEF Spec

(* CSeq numbers follow the order of sending, and a request with credentials  *)
(* has a number never sent before.                                           *)
THEOREM NumbersNeverGoBack == Spec => []NumbersInOrder
<1>1. IInv => NumbersInOrder
  BY DEF IInv
<1>2. QED
  BY InvInit, InvStep, <1>1, PTL DEF Spec

(* An idle loop has reacted to every run of keepalive failures.              *)
THEOREM DetectorTrips == Spec => []FailuresReact
<1>1. IInv => FailuresReact
  BY DEF IInv, Reacting, FailuresReact, Idle, NoExchange
<1>2. QED
  BY InvInit, InvStep, <1>1, PTL DEF Spec

(* Nothing is sent after a de-registration.                                  *)
THEOREM DeregistrationIsFinal == Spec => []DeregisterIsLast
<1>1. IInv => DeregisterIsLast
  BY DEF IInv
<1>2. QED
  BY InvInit, InvStep, <1>1, PTL DEF Spec

(* A registered device told to de-register has sent the de-registration by   *)
(* the step in which it stops.                                               *)
THEOREM DeregistersBeforeStop == Spec => StopsDeregistered
<1> DEFINE Sent == \E q \in requests : q.op = "deregister"
           Step == loop = "serving" /\ loop' = "stopped"
                   /\ mode = "deregister" /\ registered => Sent
<1>1. ASSUME IInv, [Next]_vars PROVE Step
  <2>1. SUFFICES ASSUME loop = "serving", loop' = "stopped", mode = "deregister",
                        registered
                 PROVE  Sent
    OBVIOUS
  <2>2. CASE DeregisterEnds
    BY <1>1, <2>2 DEF DeregisterEnds, IInv, Wire
  <2>3. ~ShutdownTaken
    BY <2>1 DEF ShutdownTaken, Deregisters, BeginDeregister
  <2>4. ~StartupInterrupted
    BY <1>1, <2>1 DEF StartupInterrupted, IInv, Control
  <2>5. \A ok \in BOOLEAN : ~RegisterEnds(ok)
    BY <2>1 DEF RegisterEnds, LoopAfter
  <2>6. CASE UNCHANGED loop
    BY <2>1, <2>6
  <2>7. CASE \E a \in inbox : ResponseReceived(a)
    BY <2>2, <2>5, <2>6, <2>7
    DEF ResponseReceived, ResponseSkipped, Challenged, ChallengeUnusable,
        RegisterAccepted, AcceptanceUnverified, RegisterRefused, DeregisterAnswered,
        LateResponse
  <2>8. CASE ResponseMissing
    BY <2>2, <2>5, <2>8 DEF ResponseMissing
  <2>9. CASE Triggers
    BY <2>1, <2>6, <2>9
    DEF Triggers, StartupAttempt, BackoffElapses, RefreshTick, SilenceDetected,
        KeepaliveAnswered
  <2>10. CASE \/ \E m \in {"fast", "deregister"} : RequestShutdown(m)
              \/ KeepaliveStops
              \/ \E q \in unanswered, code \in Code : PlatformAnswers(q, code)
              \/ UNCHANGED vars
    BY <2>6, <2>10 DEF RequestShutdown, KeepaliveStops, PlatformAnswers, vars
  <2>11. QED
    BY <1>1, <2>3, <2>4, <2>7, <2>8, <2>9, <2>10 DEF Next, Interrupted
<1>2. ASSUME IInv, [Next]_vars PROVE [Step]_vars
  BY <1>1, <1>2
<1>3. QED
  BY <1>2, InvInit, InvStep, PTL DEF Spec, StopsDeregistered
===============================================================================
