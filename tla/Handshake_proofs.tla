---------------------------- MODULE Handshake_proofs ----------------------------
(***************************************************************************)
(* Proofs about the GB 35114 handshake of Handshake, for any number of     *)
(* exchanges, restarts and challenges and both orders of sign2.            *)
(*                                                                         *)
(* The argument is about random1.  The platform draws a new one for every  *)
(* challenge; a device that was not restarted answers each at most once,   *)
(* and newer ones only with newer Authorizations.  So the order of random1 *)
(* is the order of everything that happens to the key.                     *)
(***************************************************************************)
EXTENDS Handshake, TLAPS

(* The REGISTERs of the device are answered one at a time. *)
SingleWorker == \A v, w \in Workers : v = w

Rand(h) == Param(h, "random1")
Rand2(h) == Param(h, "random2")
Vkek(h) == Param(h, "cryptkey").vkek

Asks(m)   == m.kind = "response" /\ m.status = 401
Grants(m) == m.kind = "response" /\ m.status = 200

Drawn == Key \ {Absent}

MaybeNat == Nat \cup {Absent}
MaybeScheme == Schemes \cup {Absent}

-------------------------------------------------------------------------------
(* What holds through restarts.                                            *)

Phases == {"idle", "want_401", "want_200", "registered", "unverified"}
DeviceShape ==
    [phase : Phases, cseq : Nat, mode : MaybeScheme, random1 : MaybeNat,
     random2 : MaybeNat, vkek : MaybeNat, keepalive : BOOLEAN,
     exchanges : Nat, restarts : Nat]

Shapes ==
    /\ device \in DeviceShape
    /\ session = [mode |-> session.mode, random1 |-> session.random1,
                  announced |-> session.announced, vkek |-> session.vkek,
                  last_auth |-> session.last_auth, last_info |-> session.last_info]
    /\ drawn \in [random2 : Nat, random1 : Nat, vkek : Nat]
    /\ job = [w \in Workers |-> job[w]]

(* An exchange spends at most two numbers and draws one random2. *)
Budget ==
    /\ device.exchanges <= MaxExchanges
    /\ drawn.random1 <= MaxChallenges
    /\ LET e == device.exchanges IN
       CASE device.phase = "want_401" -> device.cseq <= 2 * e - 1 /\ drawn.random2 < e
         [] device.phase = "want_200" -> device.cseq <= 2 * e /\ drawn.random2 <= e
         [] OTHER -> device.cseq <= 2 * e + 1 /\ drawn.random2 <= e

Sent(cseq, authz) ==
    \E m \in wire : IsAuthorization(m) /\ m.cseq = cseq /\ m.authz = authz

(* A SecurityInfo made for an Authorization. *)
Sealed(info, authz) ==
    /\ info.scheme = configured
    /\ Vkek(info) \in Drawn
    /\ info.scheme = "Bidirection" => /\ Rand(info) = Rand(authz)
                                      /\ Rand2(info) = Rand2(authz)

MessageOK(m) ==
    /\ m.kind \in {"register", "response"}
    /\ m.cseq \in Nat
    /\ IsAuthorization(m) => Rand(m.authz) \in 1 .. drawn.random1
    /\ Asks(m) => m.header.scheme = configured /\ Rand(m.header) \in 1 .. drawn.random1
    /\ Grants(m) => Sent(m.cseq, m.answers) /\ Sealed(m.header, m.answers)

Wire == \A m \in wire : MessageOK(m)

Jobs ==
    \A w \in Workers :
        job[w] # NoJob => /\ Sent(job[w].cseq, job[w].authz)
                          /\ Sealed(job[w].info, job[w].authz)
                          /\ job[w].vkek = Vkek(job[w].info)

(* The session holds the last random1 drawn, and answers again only what it *)
(* answered.                                                                *)
Session ==
    /\ session.random1 = IF drawn.random1 = 0 THEN Absent ELSE drawn.random1
    /\ session.mode \in {configured, Absent}
    /\ session.last_auth # NoHeader =>
          \E g \in wire : /\ Grants(g)
                          /\ g.answers = session.last_auth
                          /\ g.header = session.last_info

Core == TypeOK /\ Shapes /\ Budget /\ Wire /\ Jobs /\ Session /\ OwnHandshakeKey

-------------------------------------------------------------------------------
(* What holds of a device that was not restarted.                          *)

(* Nothing on the wire is ahead of the device. *)
Numbers == \A m \in wire : m.cseq <= device.cseq

(* A challenge to a later REGISTER than an Authorization is a newer one: a   *)
(* device that answers it does not go back.                                  *)
NewerChallenges ==
    \A a, c \in wire :
        IsAuthorization(a) /\ Asks(c) /\ c.cseq >= a.cseq =>
            Rand(c.header) > Rand(a.authz)

AnsweredOnce ==
    \A a, b \in wire :
        IsAuthorization(a) /\ IsAuthorization(b) /\ Rand(a.authz) = Rand(b.authz) => a = b

(* The Authorization the device waits for, or was granted, is its newest.    *)
Newest ==
    /\ device.phase \in {"want_200", "registered"} =>
          \A a \in wire : IsAuthorization(a) => Rand(a.authz) <= device.random1
    /\ device.phase = "want_200" =>
          \A a \in wire : IsAuthorization(a) /\ a.cseq = device.cseq =>
              Rand(a.authz) = device.random1

(* What is being answered is newer than all that was answered. *)
JobsNewer ==
    \A g \in wire, w \in Workers :
        Grants(g) /\ job[w] # NoJob => Rand(g.answers) < Rand(job[w].authz)

(* The answer to the session's own challenge is remembered. *)
Remembered ==
    \A g \in wire :
        Grants(g) /\ Rand(g.answers) = session.random1 => session.last_auth = g.answers

(* The session's key is that of the newest answer. *)
NewestKey ==
    \A g \in wire :
        Grants(g) => \/ Vkek(g.header) = session.vkek
                     \/ \E h \in wire : Grants(h) /\ Rand(h.answers) > Rand(g.answers)

OneAnswer ==
    \A m, n \in wire :
        Grants(m) /\ Grants(n) /\ m.answers = n.answers => m.header = n.header

(* A registered device took its key from the answer to its newest random1.   *)
TakenFrom ==
    device.phase = "registered" =>
        \E g \in wire : /\ Grants(g)
                        /\ Rand(g.answers) = device.random1
                        /\ Vkek(g.header) = device.vkek

Settled ==
    settled => /\ device.vkek = session.vkek
               /\ device.vkek \in Drawn
               /\ \A w \in Workers : job[w] = NoJob

Unrestarted ==
    /\ Numbers /\ NewerChallenges /\ AnsweredOnce /\ Newest /\ JobsNewer /\ Remembered
    /\ NewestKey /\ OneAnswer /\ TakenFrom /\ Settled

IInv == Core /\ (device.restarts = 0 => Unrestarted)

-------------------------------------------------------------------------------
(* What the headers carry.                                                 *)

(* The Authorization names the challenge's scheme and random1.               *)
LEMMA AuthorizationCarries ==
    ASSUME NEW ch, NEW random2, NEW sign1, ch.scheme \in Schemes
    PROVE  LET h == BuildAuthorization(ch, random2, sign1) IN
           /\ h.scheme = ch.scheme
           /\ Rand(h) = ch.random1
           /\ Rand2(h) = random2
BY DEF BuildAuthorization, AuthFields, Rand, Rand2, Param, Schemes

LEMMA ChallengeCarries ==
    ASSUME NEW mode, NEW random1
    PROVE  /\ BuildChallenge(mode, random1).scheme = mode
           /\ Rand(BuildChallenge(mode, random1)) = random1
BY DEF BuildChallenge, Rand, Param

(* SecurityInfo always carries the key; under Bidirection it echoes both     *)
(* randoms of the Authorization.                                             *)
LEMMA InfoCarries ==
    ASSUME NEW aa, NEW vkek, aa.scheme \in Schemes
    PROVE  LET h == SecurityInfoFor(aa, vkek) IN
           /\ h.scheme = aa.scheme
           /\ Vkek(h) = vkek
           /\ h.scheme = "Bidirection" => Rand(h) = aa.random1 /\ Rand2(h) = aa.random2
<1>. DEFINE key == EncryptVkek(Cert, vkek)
            sig == SignMessage(ServerId, Sign2Payload(aa.random1, aa.random2, DeviceId, key))
            h == BuildSecurityInfo(aa.scheme, aa, key, sig)
<1>1. h = SecurityInfoFor(aa, vkek)
  BY DEF SecurityInfoFor
<1>2. h.scheme = aa.scheme
  BY DEF BuildSecurityInfo
<1>3. Param(h, "cryptkey") = key
  BY DEF BuildSecurityInfo, Param, InfoFields
<1>4. key.vkek = vkek
  BY DEF EncryptVkek
<1>5. aa.scheme = "Bidirection" => Rand(h) = aa.random1 /\ Rand2(h) = aa.random2
  BY DEF BuildSecurityInfo, Param, InfoFields, Rand, Rand2
<1> QED
  BY <1>1, <1>2, <1>3, <1>4, <1>5 DEF Vkek

LEMMA ParsedChallenge ==
    ASSUME NEW h, ParseChallenge(h) # Malformed
    PROVE  /\ ParseChallenge(h) = [scheme |-> h.scheme, random1 |-> Rand(h)]
           /\ h.scheme \in Schemes
BY DEF ParseChallenge, Rand

LEMMA ParsedAuthorization ==
    ASSUME NEW h, ParseAuthorization(h) # Malformed
    PROVE  /\ ParseAuthorization(h).scheme = h.scheme
           /\ ParseAuthorization(h).random1 = Rand(h)
           /\ ParseAuthorization(h).random2 = Rand2(h)
           /\ h.scheme \in Schemes
BY DEF ParseAuthorization, Rand, Rand2

LEMMA ParsedInfo ==
    ASSUME NEW h, ParseSecurityInfo(h) # Malformed
    PROVE  /\ ParseSecurityInfo(h).scheme = h.scheme
           /\ ParseSecurityInfo(h).random1 = Rand(h)
           /\ ParseSecurityInfo(h).random2 = Rand2(h)
           /\ ParseSecurityInfo(h).cryptkey.vkek = Vkek(h)
BY DEF ParseSecurityInfo, Rand, Rand2, Vkek

-------------------------------------------------------------------------------
(* What the actions do, in terms of what the messages carry.               *)

LEMMA StartEffect ==
    ASSUME Core, StartExchange
    PROVE  \E c : /\ wire' = wire \cup {c}
                  /\ c.kind = "register" /\ c.cseq = device.cseq
                  /\ ~IsAuthorization(c)
<1>. DEFINE c == Register(device.cseq, BuildCapability(IF IncludeCert THEN DeviceId ELSE Absent))
<1>1. wire' = wire \cup {c}
  BY DEF StartExchange, Send
<1>2. c.kind = "register" /\ c.cseq = device.cseq
  BY DEF Register
<1>3. c.authz.scheme = "Capability"
  BY DEF Register, BuildCapability
<1> QED
  BY <1>1, <1>2, <1>3 DEF IsAuthorization, Schemes

LEMMA ChallengedEffect ==
    ASSUME Core, NEW m \in wire, Challenged(m)
    PROVE  /\ Asks(m) /\ m.cseq = device.cseq /\ Rand(m.header) \in Nat
           /\ device.phase = "want_401"
           /\ device' = [device EXCEPT !.phase = "want_200", !.cseq = @ + 1,
                                       !.mode = m.header.scheme,
                                       !.random1 = Rand(m.header),
                                       !.random2 = drawn.random2 + 1]
           /\ drawn' = [drawn EXCEPT !.random2 = @ + 1]
           /\ m.header.scheme \in Schemes
           /\ \E a : /\ wire' = wire \cup {a}
                     /\ a.kind = "register" /\ a.cseq = device.cseq + 1
                     /\ IsAuthorization(a)
                     /\ Rand(a.authz) = Rand(m.header)
<1>. DEFINE ch == ParseChallenge(m.header)
            random2 == drawn.random2 + 1
            sign1 == SignMessage(DeviceId, SignAuthPayload(ch.random1, random2, ServerId))
            a == Register(device.cseq + 1, BuildAuthorization(ch, random2, sign1))
<1>1. /\ Asks(m) /\ m.cseq = device.cseq
      /\ device.phase = "want_401"
      /\ ch # Malformed
      /\ device' = [device EXCEPT !.phase = "want_200", !.cseq = NextCSeq(@),
                                  !.mode = ch.scheme, !.random1 = ch.random1,
                                  !.random2 = random2]
      /\ drawn' = [drawn EXCEPT !.random2 = random2]
      /\ wire' = wire \cup {a}
  BY DEF Challenged, Asks, Send, NextCSeq
<1>2. /\ ch.scheme = m.header.scheme /\ ch.random1 = Rand(m.header)
      /\ ch.scheme \in Schemes
  BY <1>1, ParsedChallenge
<1>3. a.kind = "register" /\ a.cseq = device.cseq + 1
      /\ a.authz = BuildAuthorization(ch, random2, sign1)
  BY DEF Register
<1>4. a.authz.scheme = ch.scheme /\ Rand(a.authz) = ch.random1
  BY <1>2, <1>3, AuthorizationCarries
<1>5. IsAuthorization(a)
  BY <1>2, <1>3, <1>4 DEF IsAuthorization
<1>6. Rand(m.header) \in Nat
  BY <1>1 DEF Core, Wire, MessageOK
<1>7. device' = [device EXCEPT !.phase = "want_200", !.cseq = @ + 1,
                               !.mode = m.header.scheme, !.random1 = Rand(m.header),
                               !.random2 = drawn.random2 + 1]
  BY <1>1, <1>2 DEF NextCSeq
<1> QED
  BY <1>1, <1>2, <1>3, <1>4, <1>5, <1>6, <1>7

LEMMA AcceptedEffect ==
    ASSUME Core, NEW m \in wire, Accepted(m)
    PROVE  /\ Grants(m) /\ m.cseq = device.cseq /\ device.phase = "want_200"
           /\ \/ /\ device' = [device EXCEPT !.phase = "registered", !.cseq = @ + 1,
                                             !.vkek = Vkek(m.header), !.keepalive = TRUE]
                 /\ m.header.scheme = "Bidirection" =>
                       Rand(m.header) = device.random1 /\ Rand2(m.header) = device.random2
                 /\ settled' \in BOOLEAN
              \/ /\ device' = [device EXCEPT !.phase = "idle"]
                 /\ settled' = FALSE
<1>. DEFINE si == ParseSecurityInfo(m.header)
<1>1. Grants(m) /\ m.cseq = device.cseq /\ device.phase = "want_200"
  BY DEF Accepted, Grants
<1>2. CASE VerifyOk(si)
  <2>1. /\ device' = [device EXCEPT !.phase = "registered", !.cseq = NextCSeq(@),
                                    !.vkek = si.cryptkey.vkek, !.keepalive = TRUE]
        /\ settled' = VerifyOk(si)
    BY <1>2 DEF Accepted
  <2>2. /\ si.scheme = m.header.scheme /\ si.random1 = Rand(m.header)
        /\ si.random2 = Rand2(m.header) /\ si.cryptkey.vkek = Vkek(m.header)
    BY <1>2, ParsedInfo DEF VerifyOk
  <2>3. m.header.scheme = "Bidirection" =>
           Rand(m.header) = device.random1 /\ Rand2(m.header) = device.random2
    BY <1>2, <2>2 DEF VerifyOk, EchoesMatch
  <2>4. settled' = TRUE
    BY <1>2, <2>1
  <2> QED
    BY <1>1, <2>1, <2>2, <2>3, <2>4 DEF NextCSeq
<1>3. CASE ~VerifyOk(si)
  <2>1. device' = [device EXCEPT !.phase = "idle"] /\ settled' = VerifyOk(si)
    BY <1>3 DEF Accepted
  <2> QED
    BY <1>1, <1>3, <2>1
<1> QED
  BY <1>2, <1>3

LEMMA ChallengeEffect ==
    ASSUME Core, NEW m \in wire, Challenge(m)
    PROVE  /\ drawn.random1 < MaxChallenges
           /\ drawn' = [drawn EXCEPT !.random1 = @ + 1]
           /\ session' = [mode |-> configured, random1 |-> drawn.random1 + 1,
                          announced |-> session'.announced, vkek |-> session.vkek,
                          last_auth |-> NoHeader, last_info |-> NoHeader]
           /\ \E c : /\ wire' = wire \cup {c}
                     /\ Asks(c) /\ c.cseq = m.cseq
                     /\ c.header.scheme = configured
                     /\ Rand(c.header) = drawn.random1 + 1
<1>. DEFINE h == BuildChallenge(configured, drawn.random1 + 1)
            c == Response(m.cseq, 401, h, m.authz)
<1>1. wire' = wire \cup {c}
  BY DEF Challenge, Answer, Send
<1>2. c.kind = "response" /\ c.status = 401 /\ c.cseq = m.cseq /\ c.header = h
  BY DEF Response
<1>3. h.scheme = configured /\ Rand(h) = drawn.random1 + 1
  BY ChallengeCarries
<1>4. session' = [mode |-> configured, random1 |-> drawn.random1 + 1,
                  announced |-> session'.announced, vkek |-> session.vkek,
                  last_auth |-> NoHeader, last_info |-> NoHeader]
  <2>1. session = [mode |-> session.mode, random1 |-> session.random1,
                   announced |-> session.announced, vkek |-> session.vkek,
                   last_auth |-> session.last_auth, last_info |-> session.last_info]
    BY DEF Core, Shapes, DeviceShape, Phases
  <2>2. session' = ChallengedSession(m.authz)
    BY DEF Challenge
  <2> QED
    BY <2>1, <2>2 DEF ChallengedSession
<1> QED
  BY <1>1, <1>2, <1>3, <1>4 DEF Challenge, Asks

LEMMA NoHeaderIsNoAuthorization == NoHeader.scheme \notin Schemes
BY DEF NoHeader, Schemes

LEMMA RepeatsEffect ==
    ASSUME Core, NEW w \in Workers, NEW m \in wire, VerifyRepeats(w, m)
    PROVE  /\ IsAuthorization(m)
           /\ \E g, g0 : /\ wire' = wire \cup {g}
                         /\ g0 \in wire /\ Grants(g0)
                         /\ g0.answers = m.authz /\ g0.header = g.header
                         /\ Grants(g) /\ g.cseq = m.cseq /\ g.answers = m.authz
<1>. DEFINE g == Response(m.cseq, 200, session.last_info, m.authz)
<1>1. wire' = wire \cup {g} /\ IsAuthorization(m) /\ m.authz = session.last_auth
  BY DEF VerifyRepeats, Answer, Send, IsRetransmission
<1>2. /\ g.kind = "response" /\ g.status = 200 /\ g.cseq = m.cseq
      /\ g.header = session.last_info /\ g.answers = m.authz
  BY DEF Response
<1>3. session.last_auth # NoHeader
  BY <1>1, NoHeaderIsNoAuthorization DEF IsAuthorization
<1>4. PICK g0 \in wire : /\ Grants(g0) /\ g0.answers = session.last_auth
                         /\ g0.header = session.last_info
  BY <1>3 DEF Core, Session
<1> QED
  BY <1>1, <1>2, <1>4 DEF Grants

LEMMA RejectsEffect ==
    ASSUME Core, NEW w \in Workers, NEW m \in wire, VerifyRejects(w, m)
    PROVE  \E r : /\ wire' = wire \cup {r}
                  /\ r.kind = "response" /\ r.cseq = m.cseq
                  /\ ~IsAuthorization(r) /\ ~Asks(r) /\ ~Grants(r)
<1>. DEFINE r == Response(m.cseq, 403, NoHeader, m.authz)
<1>1. wire' = wire \cup {r}
  BY DEF VerifyRejects, Answer, Send
<1>2. r.kind = "response" /\ r.status = 403 /\ r.cseq = m.cseq
  BY DEF Response
<1> QED
  BY <1>1, <1>2 DEF Grants, Asks, IsAuthorization

LEMMA BeginsEffect ==
    ASSUME Core, NEW w \in Workers, NEW m \in wire, VerifyBegins(w, m)
    PROVE  /\ IsAuthorization(m)
           /\ m.authz # session.last_auth
           /\ Rand(m.authz) = drawn.random1 /\ Rand(m.authz) = session.random1
           /\ drawn' = [drawn EXCEPT !.vkek = @ + 1]
           /\ job[w] = NoJob
           /\ \A v \in Workers : v # w => job'[v] = job[v]
           /\ job' = [v \in Workers |-> job'[v]]
           /\ job'[w].authz = m.authz /\ job'[w].cseq = m.cseq
           /\ job'[w].vkek = Vkek(job'[w].info)
           /\ job'[w].vkek \in Drawn
           /\ Sealed(job'[w].info, m.authz)
<1>. DEFINE aa == ParseAuthorization(m.authz)
            vkek == drawn.vkek + 1
            info == SecurityInfoFor(aa, vkek)
            new == [authz |-> m.authz, cseq |-> m.cseq, vkek |-> vkek, info |-> info]
<1>1. /\ IsAuthorization(m) /\ m.authz # session.last_auth
      /\ AuthorizationValid(aa) /\ vkek \in Key
      /\ drawn' = [drawn EXCEPT !.vkek = vkek]
      /\ job' = [job EXCEPT ![w] = new] /\ job[w] = NoJob
  BY DEF VerifyBegins, IsRetransmission
<1>2. /\ aa.scheme \in Schemes /\ aa.random1 = Rand(m.authz) /\ aa.random2 = Rand2(m.authz)
  BY <1>1, ParsedAuthorization DEF AuthorizationValid
<1>3. aa.scheme = configured /\ aa.random1 = session.random1
  BY <1>1 DEF AuthorizationValid, Core, Session
<1>4. Rand(m.authz) \in 1 .. drawn.random1
  BY <1>1 DEF Core, Wire, MessageOK
<1>5. Rand(m.authz) = drawn.random1 /\ Rand(m.authz) = session.random1
  BY <1>2, <1>3, <1>4 DEF Core, Session, Shapes
<1>6. vkek \in Drawn
  BY <1>1, HandshakeAssumption DEF Core, Shapes, DeviceShape, Phases, Drawn
<1>7. /\ info.scheme = aa.scheme /\ Vkek(info) = vkek
      /\ info.scheme = "Bidirection" => Rand(info) = aa.random1 /\ Rand2(info) = aa.random2
  BY <1>2, InfoCarries
<1>8. Sealed(info, m.authz)
  BY <1>2, <1>3, <1>6, <1>7 DEF Sealed
<1>9. /\ job'[w] = new
      /\ \A v \in Workers : v # w => job'[v] = job[v]
      /\ job' = [v \in Workers |-> job'[v]]
  <2>1. job = [v \in Workers |-> job[v]]
    BY DEF Core, Shapes, DeviceShape, Phases
  <2> QED
    BY <1>1, <2>1
<1> QED
  BY <1>1, <1>5, <1>6, <1>7, <1>8, <1>9

LEMMA CommitsEffect ==
    ASSUME Core, NEW w \in Workers, VerifyCommits(w)
    PROVE  /\ job[w] # NoJob
           /\ job'[w] = NoJob
           /\ \A v \in Workers : v # w => job'[v] = job[v]
           /\ job' = [v \in Workers |-> job'[v]]
           /\ session' = [mode |-> session.mode, random1 |-> session.random1,
                          announced |-> session.announced, vkek |-> job[w].vkek,
                          last_auth |-> job[w].authz, last_info |-> job[w].info]
           /\ \E g : /\ wire' = wire \cup {g}
                     /\ Grants(g) /\ g.cseq = job[w].cseq
                     /\ g.answers = job[w].authz /\ g.header = job[w].info
<1>. DEFINE g == Response(job[w].cseq, 200, job[w].info, job[w].authz)
<1>1. job[w] # NoJob /\ wire' = wire \cup {g} /\ job' = [job EXCEPT ![w] = NoJob]
  BY DEF VerifyCommits, Answer, Send
<1>2. /\ g.kind = "response" /\ g.status = 200 /\ g.cseq = job[w].cseq
      /\ g.header = job[w].info /\ g.answers = job[w].authz
  BY DEF Response
<1>3. session = [mode |-> session.mode, random1 |-> session.random1,
                 announced |-> session.announced, vkek |-> session.vkek,
                 last_auth |-> session.last_auth, last_info |-> session.last_info]
  BY DEF Core, Shapes, DeviceShape, Phases
<1>4. job = [v \in Workers |-> job[v]]
  BY DEF Core, Shapes, DeviceShape, Phases
<1>5. session' = [mode |-> session.mode, random1 |-> session.random1,
                  announced |-> session.announced, vkek |-> job[w].vkek,
                  last_auth |-> job[w].authz, last_info |-> job[w].info]
  BY <1>3 DEF VerifyCommits
<1> QED
  BY <1>1, <1>2, <1>4, <1>5 DEF Grants

-------------------------------------------------------------------------------
(* Core is inductive.                                                      *)

LEMMA Frame ==
    ASSUME [Next]_vars
    PROVE  configured' = configured /\ wire \subseteq wire'
<1>1. CASE StartExchange \/ ExchangeFails \/ Restart
  BY <1>1 DEF StartExchange, ExchangeFails, Restart, Send
<1>2. CASE Keepalive \/ (\E fresh \in BOOLEAN : PlatformRequest(fresh)) \/ UNCHANGED vars
  BY <1>2 DEF Keepalive, PlatformRequest, vars
<1>3. ASSUME NEW w \in Workers, VerifyCommits(w)
      PROVE  configured' = configured /\ wire \subseteq wire'
  BY <1>3 DEF VerifyCommits, Answer, Send
<1>4. ASSUME NEW m \in wire, DeviceReceives(m)
      PROVE  configured' = configured /\ wire \subseteq wire'
  BY <1>4 DEF DeviceReceives, Challenged, AcceptedWithoutChallenge, Accepted, Send
<1>5. ASSUME NEW m \in wire, PlatformReceives(m)
      PROVE  configured' = configured /\ wire \subseteq wire'
  BY <1>5 DEF PlatformReceives, Challenge, VerifyRepeats, VerifyRejects, VerifyBegins,
              Answer, Send
<1> QED
  BY <1>1, <1>2, <1>3, <1>4, <1>5 DEF Next

LEMMA SentStays ==
    ASSUME wire \subseteq wire', NEW c, NEW a, Sent(c, a)
    PROVE  Sent(c, a)'
BY DEF Sent, IsAuthorization

LEMMA SealedStays ==
    ASSUME configured' = configured, NEW i, NEW a, Sealed(i, a)
    PROVE  Sealed(i, a)'
BY DEF Sealed

LEMMA OldMessages ==
    ASSUME wire \subseteq wire', configured' = configured,
           drawn.random1 \in Nat, drawn'.random1 \in Nat, drawn.random1 <= drawn'.random1,
           NEW m, MessageOK(m)
    PROVE  MessageOK(m)'
<1>1. \A r : r \in 1 .. drawn.random1 => r \in 1 .. drawn'.random1
  OBVIOUS
<1>2. Grants(m) => Sent(m.cseq, m.answers)' /\ Sealed(m.header, m.answers)'
  BY SentStays, SealedStays DEF MessageOK
<1> QED
  BY <1>1, <1>2 DEF MessageOK, IsAuthorization, Asks, Grants

LEMMA WireGains ==
    ASSUME Core, NEW x, wire' = wire \cup {x}, configured' = configured,
           drawn'.random1 \in Nat, drawn.random1 <= drawn'.random1, MessageOK(x)'
    PROVE  Wire'
<1>1. drawn.random1 \in Nat
  BY DEF Core, Shapes, DeviceShape, Phases
<1>2. \A m \in wire : MessageOK(m)'
  BY <1>1, OldMessages DEF Core, Wire
<1> QED
  BY <1>2 DEF Wire

LEMMA WireKept ==
    ASSUME Core, UNCHANGED <<wire, configured>>,
           drawn'.random1 \in Nat, drawn.random1 <= drawn'.random1
    PROVE  Wire'
<1>1. drawn.random1 \in Nat
  BY DEF Core, Shapes, DeviceShape, Phases
<1> QED
  BY <1>1, OldMessages DEF Core, Wire

LEMMA JobsKept ==
    ASSUME Core, wire \subseteq wire', configured' = configured,
           \A w \in Workers : job'[w] = job[w] \/ job'[w] = NoJob
    PROVE  Jobs'
<1>1. \A w \in Workers : job'[w] # NoJob => job'[w] = job[w]
  OBVIOUS
<1> QED
  BY <1>1 DEF Core, Jobs, Sent, Sealed, IsAuthorization

LEMMA SessionKept ==
    ASSUME Core, wire \subseteq wire', configured' = configured, session' = session,
           drawn'.random1 = drawn.random1
    PROVE  Session'
BY DEF Core, Session, Grants

LEMMA OwnKeyKept ==
    ASSUME OwnHandshakeKey, wire \subseteq wire', configured' = configured,
           device' = device \/ device'.phase # "registered"
    PROVE  OwnHandshakeKey'
BY DEF OwnHandshakeKey

LEMMA CoreInit == Init => Core
<1> SUFFICES ASSUME Init
             PROVE  Core
  OBVIOUS
<1> USE DEF Init, Booted, NoSession
<1>1. TypeOK
  <2>1. Absent \in Key
    BY DEF Key
  <2>2. 1 \in 1 .. 2 * MaxExchanges + 1
    BY HandshakeAssumption
  <2>3. \A w \in Workers : job[w].vkek = Absent
    BY DEF NoJob
  <2> QED
    BY <2>1, <2>2, <2>3 DEF TypeOK
<1>2. Shapes
  <2>1. device \in DeviceShape
    BY DEF DeviceShape, Phases, MaybeNat, MaybeScheme
  <2> QED
    BY <2>1 DEF Shapes
<1>3. Budget
  BY HandshakeAssumption DEF Budget
<1>4. Wire /\ Jobs /\ Session /\ OwnHandshakeKey
  BY DEF Wire, Jobs, Session, OwnHandshakeKey
<1> QED
  BY <1>1, <1>2, <1>3, <1>4 DEF Core

LEMMA PhaseNames == {"idle", "want_401", "want_200", "registered", "unverified"} \subseteq Phases
BY DEF Phases

LEMMA KeyDrawn ==
    /\ Absent \in Key
    /\ Drawn \subseteq Key
    /\ Drawn \subseteq Nat
BY HandshakeAssumption DEF Key, Drawn

LEMMA StartKeepsCore == Core /\ StartExchange => Core'
<1> SUFFICES ASSUME Core, StartExchange
             PROVE  Core'
  OBVIOUS
<1>1. wire \subseteq wire' /\ configured' = configured
  BY Frame DEF Next
<1>2. /\ device.phase \notin {"want_401", "want_200"}
      /\ device.exchanges < MaxExchanges
      /\ device' = [device EXCEPT !.phase = "want_401", !.exchanges = @ + 1]
      /\ UNCHANGED <<session, job, drawn, outcome, settled>>
  BY DEF StartExchange, Waiting
<1>3. PICK c : /\ wire' = wire \cup {c}
               /\ c.kind = "register" /\ c.cseq = device.cseq /\ ~IsAuthorization(c)
  BY StartEffect
<1>4. Shapes'
  <2>1. device.exchanges + 1 \in Nat
    BY DEF Core, Shapes, DeviceShape
  <2>2. device' \in DeviceShape
    BY <1>2, <2>1, PhaseNames DEF Core, Shapes, DeviceShape
  <2> QED
    BY <1>2, <2>2 DEF Core, Shapes
<1>5. MessageOK(c)'
  <2>1. c.cseq \in Nat
    BY <1>3 DEF Core, Shapes, DeviceShape
  <2> QED
    BY <1>3, <2>1 DEF MessageOK, IsAuthorization, Asks, Grants
<1>6. Wire'
  <2>1. drawn.random1 \in Nat /\ drawn'.random1 = drawn.random1
    BY <1>2 DEF Core, Shapes, DeviceShape, Phases
  <2> QED
    BY <1>1, <1>3, <1>5, <2>1, WireGains
<1>7. Budget'
  BY <1>2, HandshakeAssumption DEF Core, Budget, Shapes, DeviceShape, Phases
<1>8. TypeOK'
  <2>1. /\ device'.phase = "want_401" /\ device'.cseq = device.cseq
        /\ device'.mode = device.mode
        /\ device'.random2 = device.random2 /\ device'.vkek = device.vkek
    BY <1>2 DEF Core, Shapes, DeviceShape, Phases
  <2>2. \A m \in wire' : m.kind \in {"register", "response", "keepalive", "request"}
    BY <1>6 DEF Wire, MessageOK
  <2> QED
    BY <1>1, <1>2, <2>1, <2>2 DEF Core, TypeOK
<1>9. device'.phase # "registered"
  BY <1>2 DEF Core, Shapes, DeviceShape, Phases
<1> QED
  BY <1>1, <1>2, <1>4, <1>6, <1>7, <1>8, <1>9, JobsKept, SessionKept, OwnKeyKept DEF Core

LEMMA ChallengedKeepsCore ==
    ASSUME Core, NEW m \in wire, Challenged(m)
    PROVE  Core'
<1>1. wire \subseteq wire' /\ configured' = configured
  BY Frame DEF Next, DeviceReceives
<1>2. UNCHANGED <<session, job, outcome, settled>>
  BY DEF Challenged
<1>3. /\ Rand(m.header) \in Nat
      /\ Asks(m)
      /\ device.phase = "want_401"
      /\ device' = [device EXCEPT !.phase = "want_200", !.cseq = @ + 1,
                                  !.mode = m.header.scheme, !.random1 = Rand(m.header),
                                  !.random2 = drawn.random2 + 1]
      /\ drawn' = [drawn EXCEPT !.random2 = @ + 1]
      /\ m.header.scheme \in Schemes
  BY ChallengedEffect
<1>4. PICK a : /\ wire' = wire \cup {a}
               /\ a.kind = "register" /\ a.cseq = device.cseq + 1
               /\ IsAuthorization(a)
               /\ Rand(a.authz) = Rand(m.header)
  BY ChallengedEffect
<1>5. Shapes'
  <2>1. /\ Rand(m.header) \in MaybeNat /\ m.header.scheme \in MaybeScheme
        /\ drawn.random2 + 1 \in MaybeNat /\ drawn.random2 + 1 \in Nat
        /\ device.cseq + 1 \in Nat
    BY <1>3 DEF Core, Shapes, DeviceShape, MaybeNat, MaybeScheme
  <2>2. device' \in DeviceShape
    BY <1>3, <2>1, PhaseNames DEF Core, Shapes, DeviceShape
  <2>3. drawn' \in [random2 : Nat, random1 : Nat, vkek : Nat]
    BY <1>3, <2>1 DEF Core, Shapes
  <2> QED
    BY <1>2, <2>2, <2>3 DEF Core, Shapes
<1>6. /\ drawn.random1 \in Nat /\ drawn'.random1 = drawn.random1
      /\ drawn'.random2 = drawn.random2 + 1
  BY <1>3 DEF Core, Shapes, DeviceShape, Phases
<1>7. Wire'
  <2>1. Rand(m.header) \in 1 .. drawn.random1
    BY <1>3 DEF Core, Wire, MessageOK
  <2>2. a.cseq \in Nat
    BY <1>4 DEF Core, Shapes, DeviceShape, Phases
  <2>3. MessageOK(a)'
    BY <1>4, <1>6, <2>1, <2>2 DEF MessageOK, IsAuthorization, Asks, Grants
  <2> QED
    BY <1>1, <1>4, <1>6, <2>3, WireGains
<1>8. Budget'
  BY <1>3, <1>6, HandshakeAssumption DEF Core, Budget, Shapes, DeviceShape, Phases
<1>9. TypeOK'
  <2>1. /\ device'.phase = "want_200" /\ device'.cseq = device.cseq + 1
        /\ device'.mode \in Schemes
        /\ device'.random2 = drawn.random2 + 1 /\ device'.vkek = device.vkek
    BY <1>3 DEF Core, Shapes, DeviceShape, Phases
  <2>2. \A x \in wire' : x.kind \in {"register", "response", "keepalive", "request"}
    BY <1>7 DEF Wire, MessageOK
  <2>3. /\ device'.cseq \in 1 .. 2 * MaxExchanges + 1
        /\ device'.random2 \in 1 .. MaxExchanges
    BY <1>3, <2>1, HandshakeAssumption DEF Core, TypeOK, Budget, Shapes, DeviceShape, Phases
  <2> QED
    BY <1>1, <1>2, <2>1, <2>2, <2>3 DEF Core, TypeOK
<1>10. device'.phase # "registered"
  BY <1>3 DEF Core, Shapes, DeviceShape, Phases
<1> QED
  BY <1>1, <1>2, <1>5, <1>6, <1>7, <1>8, <1>9, <1>10, JobsKept, SessionKept, OwnKeyKept DEF Core

LEMMA AcceptedKeepsCore ==
    ASSUME Core, NEW m \in wire, Accepted(m)
    PROVE  Core'
<1>1. UNCHANGED <<configured, session, job, wire, drawn, outcome>>
  BY DEF Accepted
<1>2. Grants(m) /\ device.phase = "want_200"
  BY AcceptedEffect
<1>3. Sealed(m.header, m.answers)
  BY <1>2 DEF Core, Wire, MessageOK
<1>4. drawn.random1 \in Nat
  BY DEF Core, Shapes, DeviceShape, Phases
<1>5. Wire' /\ Jobs' /\ Session'
  BY <1>1, <1>4, WireKept, JobsKept, SessionKept
<1>6. CASE /\ device' = [device EXCEPT !.phase = "registered", !.cseq = @ + 1,
                                       !.vkek = Vkek(m.header), !.keepalive = TRUE]
           /\ m.header.scheme = "Bidirection" =>
                 Rand(m.header) = device.random1 /\ Rand2(m.header) = device.random2
           /\ settled' \in BOOLEAN
  <2>1. Vkek(m.header) \in Drawn
    BY <1>3 DEF Sealed
  <2>2. Shapes'
    <3>1. Vkek(m.header) \in MaybeNat
      BY <2>1, KeyDrawn DEF MaybeNat
    <3>2. device.cseq + 1 \in Nat
      BY DEF Core, Shapes, DeviceShape
    <3>3. device' \in DeviceShape
      BY <1>6, <3>1, <3>2, PhaseNames DEF Core, Shapes, DeviceShape
    <3> QED
      BY <1>1, <3>3 DEF Core, Shapes
  <2>3. Budget'
    BY <1>1, <1>2, <1>6, HandshakeAssumption DEF Core, Budget, Shapes, DeviceShape, Phases
  <2>4. /\ device'.phase = "registered" /\ device'.cseq = device.cseq + 1
        /\ device'.mode = device.mode /\ device'.random1 = device.random1
        /\ device'.random2 = device.random2 /\ device'.vkek = Vkek(m.header)
    BY <1>6 DEF Core, Shapes, DeviceShape, Phases
  <2>5. TypeOK'
    <3>1. device'.cseq \in 1 .. 2 * MaxExchanges + 1
      BY <1>2, <2>4, HandshakeAssumption DEF Core, TypeOK, Budget, Shapes, DeviceShape, Phases
    <3> QED
      BY <1>1, <1>6, <2>1, <2>4, <3>1, KeyDrawn DEF Core, TypeOK
  <2>6. OwnHandshakeKey'
    <3> SUFFICES ASSUME configured = "Bidirection"
                 PROVE  /\ Vkek(m.header) = device'.vkek
                        /\ Rand2(m.answers) = device'.random2
                        /\ Rand(m.answers) = device'.random1
      BY <1>1, <1>2 DEF OwnHandshakeKey, Rand, Rand2, Vkek, Grants
    <3> QED
      BY <1>3, <1>6, <2>4 DEF Sealed
  <2> QED
    BY <1>5, <2>2, <2>3, <2>5, <2>6 DEF Core
<1>7. CASE device' = [device EXCEPT !.phase = "idle"] /\ settled' = FALSE
  <2>1. Shapes'
    <3>1. device' \in DeviceShape
      BY <1>7, PhaseNames DEF Core, Shapes, DeviceShape
    <3> QED
      BY <1>1, <3>1 DEF Core, Shapes
  <2>2. Budget'
    BY <1>1, <1>2, <1>7, HandshakeAssumption DEF Core, Budget, Shapes, DeviceShape, Phases
  <2>3. /\ device'.phase = "idle" /\ device'.cseq = device.cseq /\ device'.mode = device.mode
        /\ device'.random2 = device.random2 /\ device'.vkek = device.vkek
    BY <1>7 DEF Core, Shapes, DeviceShape, Phases
  <2>4. TypeOK'
    BY <1>1, <1>7, <2>3 DEF Core, TypeOK
  <2>5. OwnHandshakeKey'
    BY <1>1, <2>3, OwnKeyKept DEF Core
  <2> QED
    BY <1>5, <2>1, <2>2, <2>4, <2>5 DEF Core
<1> QED
  BY <1>6, <1>7, AcceptedEffect

(* What an exchange that ends without a registration leaves. *)
LEMMA AbandonedKeepsCore ==
    ASSUME Core, UNCHANGED <<configured, session, job, wire, drawn, outcome>>,
           settled' \in BOOLEAN, device' \in DeviceShape,
           device'.phase \in {"idle", "unverified"},
           device'.exchanges = device.exchanges,
           device'.cseq \in 1 .. 2 * device.exchanges + 1,
           device'.mode \in {device.mode, Absent}, device'.random2 \in {device.random2, Absent},
           device'.vkek \in {device.vkek, Absent}
    PROVE  Core'
<1>1. drawn.random1 \in Nat
  BY DEF Core, Shapes
<1>2. Wire' /\ Jobs' /\ Session'
  BY <1>1, WireKept, JobsKept, SessionKept
<1>3. Shapes'
  BY DEF Core, Shapes
<1>4. /\ drawn.random2 <= device.exchanges
      /\ device.exchanges \in Nat /\ device.exchanges <= MaxExchanges
  BY DEF Core, Budget, Shapes, DeviceShape
<1>5. Budget'
  BY <1>4 DEF Core, Budget
<1>6. TypeOK'
  <2>1. device'.cseq \in 1 .. 2 * MaxExchanges + 1
    BY <1>4, HandshakeAssumption
  <2>2. device'.vkek \in Key
    BY KeyDrawn DEF Core, TypeOK
  <2> QED
    BY <2>1, <2>2 DEF Core, TypeOK
<1>7. OwnHandshakeKey'
  BY OwnKeyKept DEF Core
<1> QED
  BY <1>2, <1>3, <1>5, <1>6, <1>7 DEF Core

LEMMA FailsKeepsCore == Core /\ ExchangeFails => Core'
<1> SUFFICES ASSUME Core, ExchangeFails
             PROVE  Core'
  OBVIOUS
<1>1. /\ device' = [device EXCEPT !.phase = "idle"]
      /\ UNCHANGED <<configured, session, job, wire, drawn, outcome, settled>>
      /\ device.phase \in {"want_401", "want_200"}
  BY DEF ExchangeFails, Waiting
<1>2. device' \in DeviceShape
  BY <1>1, PhaseNames DEF Core, Shapes, DeviceShape
<1>3. /\ device'.phase = "idle" /\ device'.exchanges = device.exchanges
      /\ device'.cseq = device.cseq /\ device'.mode = device.mode
      /\ device'.random2 = device.random2 /\ device'.vkek = device.vkek
  BY <1>1 DEF Core, Shapes, DeviceShape
<1>4. device.cseq \in 1 .. 2 * device.exchanges + 1
  BY <1>1 DEF Core, Budget, TypeOK, Shapes, DeviceShape
<1>5. settled' \in BOOLEAN
  BY <1>1 DEF Core, TypeOK
<1> QED
  BY <1>1, <1>2, <1>3, <1>4, <1>5, AbandonedKeepsCore

LEMMA RestartKeepsCore == Core /\ Restart => Core'
<1> SUFFICES ASSUME Core, Restart
             PROVE  Core'
  OBVIOUS
<1>1. /\ device' = Booted(device.exchanges, device.restarts + 1)
      /\ UNCHANGED <<configured, session, job, wire, drawn, outcome>>
      /\ settled' = FALSE
  BY DEF Restart
<1>2. device' \in DeviceShape
  <2>1. device.exchanges \in Nat /\ device.restarts + 1 \in Nat
    BY DEF Core, Shapes, DeviceShape
  <2> QED
    BY <1>1, <2>1, PhaseNames DEF Booted, DeviceShape, MaybeNat, MaybeScheme
<1>3. /\ device'.phase = "idle" /\ device'.exchanges = device.exchanges
      /\ device'.cseq = 1 /\ device'.mode = Absent
      /\ device'.random2 = Absent /\ device'.vkek = Absent
  BY <1>1 DEF Booted
<1>4. 1 \in 1 .. 2 * device.exchanges + 1
  BY DEF Core, Shapes, DeviceShape
<1> QED
  BY <1>1, <1>2, <1>3, <1>4, AbandonedKeepsCore

LEMMA UnchallengedKeepsCore ==
    ASSUME Core, NEW m \in wire, AcceptedWithoutChallenge(m)
    PROVE  Core'
<1>1. /\ device.phase = "want_401"
      /\ device' = [device EXCEPT !.phase = "unverified", !.cseq = @ + 1, !.keepalive = TRUE]
      /\ UNCHANGED <<configured, session, job, wire, drawn, outcome, settled>>
  BY DEF AcceptedWithoutChallenge, NextCSeq
<1>2. device.cseq + 1 \in Nat
  BY DEF Core, Shapes, DeviceShape
<1>3. device' \in DeviceShape
  BY <1>1, <1>2, PhaseNames DEF Core, Shapes, DeviceShape
<1>4. /\ device'.phase = "unverified" /\ device'.exchanges = device.exchanges
      /\ device'.cseq = device.cseq + 1 /\ device'.mode = device.mode
      /\ device'.random2 = device.random2 /\ device'.vkek = device.vkek
  BY <1>1 DEF Core, Shapes, DeviceShape
<1>5. device.cseq + 1 \in 1 .. 2 * device.exchanges + 1
  BY <1>1 DEF Core, Budget, TypeOK, Shapes, DeviceShape
<1>6. settled' \in BOOLEAN
  BY <1>1 DEF Core, TypeOK
<1> QED
  BY <1>1, <1>3, <1>4, <1>5, <1>6, AbandonedKeepsCore

(* What a step that leaves the device alone leaves of the parts about it.    *)
LEMMA DeviceKept ==
    ASSUME Core, device' = device, drawn'.random2 = drawn.random2,
           drawn'.random1 <= MaxChallenges, wire \subseteq wire', configured' = configured
    PROVE  Budget' /\ OwnHandshakeKey'
<1>1. OwnHandshakeKey'
  BY OwnKeyKept DEF Core
<1>2. Budget'
  BY DEF Core, Budget
<1> QED
  BY <1>1, <1>2

LEMMA ChallengeKeepsCore ==
    ASSUME Core, NEW m \in wire, Challenge(m)
    PROVE  Core'
<1>1. UNCHANGED <<configured, device, job, outcome, settled>>
  BY DEF Challenge
<1>2. /\ drawn.random1 < MaxChallenges
      /\ drawn' = [drawn EXCEPT !.random1 = @ + 1]
      /\ session' = [mode |-> configured, random1 |-> drawn.random1 + 1,
                     announced |-> session'.announced, vkek |-> session.vkek,
                     last_auth |-> NoHeader, last_info |-> NoHeader]
  BY ChallengeEffect
<1>3. PICK c : /\ wire' = wire \cup {c}
               /\ Asks(c) /\ c.cseq = m.cseq
               /\ c.header.scheme = configured
               /\ Rand(c.header) = drawn.random1 + 1
  BY ChallengeEffect
<1>4. /\ drawn.random1 \in Nat /\ drawn.random1 + 1 \in Nat
      /\ drawn'.random1 = drawn.random1 + 1 /\ drawn'.random2 = drawn.random2
  BY <1>2 DEF Core, Shapes
<1>5. Wire'
  <2>1. m.cseq \in Nat
    BY DEF Core, Wire, MessageOK
  <2>2. c.kind = "response" /\ ~IsAuthorization(c) /\ ~Grants(c)
    BY <1>3 DEF Asks, Grants, IsAuthorization
  <2>3. Rand(c.header) \in 1 .. drawn'.random1
    BY <1>3, <1>4
  <2>4. MessageOK(c)'
    BY <1>1, <1>3, <2>1, <2>2, <2>3 DEF MessageOK, IsAuthorization, Asks, Grants
  <2> QED
    BY <1>1, <1>3, <1>4, <2>4, WireGains
<1>6. wire \subseteq wire'
  BY <1>3
<1>7. Jobs'
  BY <1>1, <1>6, JobsKept
<1>8. Session'
  <2>1. /\ session'.mode = configured /\ session'.random1 = drawn'.random1
        /\ session'.last_auth = NoHeader /\ drawn'.random1 # 0
    BY <1>2, <1>4
  <2> QED
    BY <1>1, <2>1 DEF Session
<1>9. Shapes'
  <2>1. drawn' \in [random2 : Nat, random1 : Nat, vkek : Nat]
    BY <1>2, <1>4 DEF Core, Shapes
  <2>2. session' = [mode |-> session'.mode, random1 |-> session'.random1,
                    announced |-> session'.announced, vkek |-> session'.vkek,
                    last_auth |-> session'.last_auth, last_info |-> session'.last_info]
    BY <1>2
  <2> QED
    BY <1>1, <2>1, <2>2 DEF Core, Shapes
<1>10. Budget' /\ OwnHandshakeKey'
  BY <1>1, <1>2, <1>4, <1>6, HandshakeAssumption, DeviceKept
<1>11. TypeOK'
  <2>1. /\ session'.mode \in Schemes /\ session'.vkek \in Key
        /\ session'.random1 \in 1 .. MaxChallenges
    BY <1>2, <1>4, HandshakeAssumption DEF Core, TypeOK
  <2>2. \A x \in wire' : x.kind \in {"register", "response", "keepalive", "request"}
    BY <1>5 DEF Wire, MessageOK
  <2> QED
    BY <1>1, <2>1, <2>2 DEF Core, TypeOK
<1> QED
  BY <1>5, <1>7, <1>8, <1>9, <1>10, <1>11 DEF Core

(* An answer that changes neither party: a repeat, or a refusal.             *)
LEMMA AnswerKeepsCore ==
    ASSUME Core, NEW x, wire' = wire \cup {x}, MessageOK(x)',
           UNCHANGED <<configured, device, session, job, drawn, outcome, settled>>
    PROVE  Core'
<1>1. drawn.random1 \in Nat /\ drawn.random1 <= MaxChallenges
  BY DEF Core, Shapes, Budget
<1>2. Wire'
  BY <1>1, WireGains
<1>3. Jobs' /\ Session'
  BY JobsKept, SessionKept
<1>4. Budget' /\ OwnHandshakeKey'
  BY <1>1, DeviceKept
<1>5. Shapes'
  BY DEF Core, Shapes
<1>6. TypeOK'
  <2>1. \A m \in wire' : m.kind \in {"register", "response", "keepalive", "request"}
    BY <1>2 DEF Wire, MessageOK
  <2> QED
    BY <2>1 DEF Core, TypeOK
<1> QED
  BY <1>2, <1>3, <1>4, <1>5, <1>6 DEF Core

LEMMA RepeatsKeepsCore ==
    ASSUME Core, NEW w \in Workers, NEW m \in wire, VerifyRepeats(w, m)
    PROVE  Core'
<1>1. UNCHANGED <<configured, device, session, job, drawn, outcome, settled>>
  BY DEF VerifyRepeats
<1>2. IsAuthorization(m)
  BY RepeatsEffect
<1>3. PICK g, g0 : /\ wire' = wire \cup {g}
                   /\ g0 \in wire /\ Grants(g0)
                   /\ g0.answers = m.authz /\ g0.header = g.header
                   /\ Grants(g) /\ g.cseq = m.cseq /\ g.answers = m.authz
  BY RepeatsEffect
<1>4. MessageOK(g)'
  <2>1. m.cseq \in Nat
    BY DEF Core, Wire, MessageOK
  <2>2. Sent(g.cseq, g.answers) /\ wire \subseteq wire'
    BY <1>2, <1>3 DEF Sent
  <2>3. Sent(g.cseq, g.answers)'
    BY <2>2, SentStays
  <2>4. Sealed(g.header, g.answers)
    BY <1>3 DEF Core, Wire, MessageOK
  <2>5. Sealed(g.header, g.answers)'
    BY <1>1, <2>4, SealedStays
  <2> QED
    BY <1>3, <2>1, <2>3, <2>5 DEF MessageOK, IsAuthorization, Asks, Grants
<1> QED
  BY <1>1, <1>3, <1>4, AnswerKeepsCore

LEMMA RejectsKeepsCore ==
    ASSUME Core, NEW w \in Workers, NEW m \in wire, VerifyRejects(w, m)
    PROVE  Core'
<1>1. UNCHANGED <<configured, device, session, job, drawn, outcome, settled>>
  BY DEF VerifyRejects
<1>2. PICK r : /\ wire' = wire \cup {r}
               /\ r.kind = "response" /\ r.cseq = m.cseq
               /\ ~IsAuthorization(r) /\ ~Asks(r) /\ ~Grants(r)
  BY RejectsEffect
<1>3. MessageOK(r)'
  <2>1. m.cseq \in Nat
    BY DEF Core, Wire, MessageOK
  <2> QED
    BY <1>2, <2>1 DEF MessageOK, IsAuthorization, Asks, Grants
<1> QED
  BY <1>1, <1>2, <1>3, AnswerKeepsCore

LEMMA BeginsKeepsCore ==
    ASSUME Core, NEW w \in Workers, NEW m \in wire, VerifyBegins(w, m)
    PROVE  Core'
<1>1. UNCHANGED <<configured, device, session, wire, outcome>> /\ settled' = FALSE
  BY DEF VerifyBegins
<1>2. /\ IsAuthorization(m)
      /\ drawn' = [drawn EXCEPT !.vkek = @ + 1]
      /\ \A v \in Workers : v # w => job'[v] = job[v]
      /\ job' = [v \in Workers |-> job'[v]]
      /\ job'[w].authz = m.authz /\ job'[w].cseq = m.cseq
      /\ job'[w].vkek = Vkek(job'[w].info)
      /\ job'[w].vkek \in Drawn
      /\ Sealed(job'[w].info, m.authz)
  BY BeginsEffect
<1>3. /\ drawn.random1 \in Nat /\ drawn.random1 <= MaxChallenges
      /\ drawn'.random1 = drawn.random1 /\ drawn'.random2 = drawn.random2
      /\ drawn' \in [random2 : Nat, random1 : Nat, vkek : Nat]
  <2>1. drawn.vkek + 1 \in Nat
    BY DEF Core, Shapes
  <2> QED
    BY <1>2, <2>1 DEF Core, Shapes, Budget
<1>4. Wire' /\ Session'
  BY <1>1, <1>3, WireKept, SessionKept
<1>5. Jobs'
  <2>1. Sent(m.cseq, m.authz)
    BY <1>2 DEF Sent
  <2>2. Sent(job'[w].cseq, job'[w].authz) /\ Sealed(job'[w].info, job'[w].authz)
    BY <1>2, <2>1
  <2>3. \A v \in Workers :
           job'[v] # NoJob => /\ Sent(job'[v].cseq, job'[v].authz)
                              /\ Sealed(job'[v].info, job'[v].authz)
                              /\ job'[v].vkek = Vkek(job'[v].info)
    BY <1>2, <2>2 DEF Core, Jobs
  <2> QED
    BY <1>1, <2>3 DEF Jobs, Sent, Sealed
<1>6. Budget' /\ OwnHandshakeKey'
  BY <1>1, <1>3, DeviceKept
<1>7. Shapes'
  BY <1>1, <1>2, <1>3 DEF Core, Shapes
<1>8. TypeOK'
  <2>1. \A v \in Workers : job'[v].vkek \in Key
    BY <1>2, KeyDrawn DEF Core, TypeOK
  <2> QED
    BY <1>1, <2>1 DEF Core, TypeOK
<1> QED
  BY <1>4, <1>5, <1>6, <1>7, <1>8 DEF Core

LEMMA CommitsKeepsCore ==
    ASSUME Core, NEW w \in Workers, VerifyCommits(w)
    PROVE  Core'
<1>1. UNCHANGED <<configured, device, drawn, outcome, settled>>
  BY DEF VerifyCommits
<1>2. /\ job[w] # NoJob
      /\ job'[w] = NoJob
      /\ \A v \in Workers : v # w => job'[v] = job[v]
      /\ job' = [v \in Workers |-> job'[v]]
      /\ session' = [mode |-> session.mode, random1 |-> session.random1,
                     announced |-> session.announced, vkek |-> job[w].vkek,
                     last_auth |-> job[w].authz, last_info |-> job[w].info]
  BY CommitsEffect
<1>3. PICK g : /\ wire' = wire \cup {g}
               /\ Grants(g) /\ g.cseq = job[w].cseq
               /\ g.answers = job[w].authz /\ g.header = job[w].info
  BY CommitsEffect
<1>4. /\ Sent(job[w].cseq, job[w].authz) /\ Sealed(job[w].info, job[w].authz)
      /\ job[w].vkek = Vkek(job[w].info)
  BY <1>2 DEF Core, Jobs
<1>5. drawn.random1 \in Nat /\ drawn.random1 <= MaxChallenges
  BY DEF Core, Shapes, Budget
<1>6. Wire'
  <2>1. wire \subseteq wire'
    BY <1>3
  <2>2. Sent(g.cseq, g.answers) /\ Sealed(g.header, g.answers)
    BY <1>3, <1>4
  <2>3. Sent(g.cseq, g.answers)' /\ Sealed(g.header, g.answers)'
    BY <1>1, <2>1, <2>2, SentStays, SealedStays
  <2>4. g.cseq \in Nat
    BY <2>2 DEF Sent, Core, Wire, MessageOK
  <2>5. MessageOK(g)'
    BY <1>3, <2>3, <2>4 DEF MessageOK, IsAuthorization, Asks, Grants
  <2> QED
    BY <1>1, <1>3, <1>5, <2>5, WireGains
<1>7. wire \subseteq wire'
  BY <1>3
<1>8. Jobs'
  BY <1>1, <1>2, <1>7, JobsKept
<1>9. Session'
  <2>1. /\ session'.mode = session.mode /\ session'.random1 = session.random1
        /\ session'.last_auth = job[w].authz /\ session'.last_info = job[w].info
    BY <1>2
  <2> QED
    BY <1>1, <1>3, <2>1 DEF Core, Session, Grants
<1>10. Shapes'
  <2>1. session' = [mode |-> session'.mode, random1 |-> session'.random1,
                    announced |-> session'.announced, vkek |-> session'.vkek,
                    last_auth |-> session'.last_auth, last_info |-> session'.last_info]
    BY <1>2
  <2> QED
    BY <1>1, <1>2, <2>1 DEF Core, Shapes
<1>11. Budget' /\ OwnHandshakeKey'
  BY <1>1, <1>5, <1>7, DeviceKept
<1>12. TypeOK'
  <2>1. \A v \in Workers : job'[v].vkek \in Key
    BY <1>2, KeyDrawn DEF Core, TypeOK, NoJob
  <2>2. /\ session'.mode = session.mode /\ session'.random1 = session.random1
        /\ session'.vkek \in Key
    BY <1>2, <1>4, KeyDrawn DEF Sealed
  <2>3. \A m \in wire' : m.kind \in {"register", "response", "keepalive", "request"}
    BY <1>6 DEF Wire, MessageOK
  <2> QED
    BY <1>1, <2>1, <2>2, <2>3 DEF Core, TypeOK
<1> QED
  BY <1>6, <1>8, <1>9, <1>10, <1>11, <1>12 DEF Core

(* Requests with a Note, and steps that change nothing. *)
LEMMA RequestKeepsCore ==
    ASSUME Core, UNCHANGED <<configured, device, session, job, wire, drawn, settled>>,
           outcome' \in {"none", "served", "refused"}
    PROVE  Core'
<1>1. TypeOK'
  BY DEF Core, TypeOK
<1>2. drawn.random1 \in Nat /\ drawn.random1 <= MaxChallenges
  BY DEF Core, Shapes, Budget
<1>3. Wire' /\ Jobs' /\ Session'
  BY <1>2, WireKept, JobsKept, SessionKept
<1>4. Budget' /\ OwnHandshakeKey'
  BY <1>2, DeviceKept
<1>5. Shapes'
  BY DEF Core, Shapes
<1> QED
  BY <1>1, <1>3, <1>4, <1>5 DEF Core

LEMMA CoreStep == Core /\ [Next]_vars => Core'
<1> SUFFICES ASSUME Core, [Next]_vars
             PROVE  Core'
  OBVIOUS
<1>1. CASE StartExchange
  BY <1>1, StartKeepsCore
<1>2. CASE ExchangeFails
  BY <1>2, FailsKeepsCore
<1>3. CASE Restart
  BY <1>3, RestartKeepsCore
<1>4. CASE Keepalive \/ \E fresh \in BOOLEAN : PlatformRequest(fresh)
  BY <1>4, RequestKeepsCore DEF Keepalive, PlatformRequest
<1>5. ASSUME NEW w \in Workers, VerifyCommits(w) PROVE Core'
  BY <1>5, CommitsKeepsCore
<1>6. ASSUME NEW m \in wire, DeviceReceives(m) PROVE Core'
  BY <1>6, ChallengedKeepsCore, UnchallengedKeepsCore, AcceptedKeepsCore DEF DeviceReceives
<1>7. ASSUME NEW m \in wire, PlatformReceives(m) PROVE Core'
  BY <1>7, ChallengeKeepsCore, RepeatsKeepsCore, RejectsKeepsCore, BeginsKeepsCore
     DEF PlatformReceives
<1>8. CASE UNCHANGED vars
  <2>1. outcome' \in {"none", "served", "refused"}
    BY <1>8 DEF vars, Core, TypeOK
  <2> QED
    BY <1>8, <2>1, RequestKeepsCore DEF vars
<1> QED
  BY <1>1, <1>2, <1>3, <1>4, <1>5, <1>6, <1>7, <1>8 DEF Next

-------------------------------------------------------------------------------
(* What was not restarted stays in order.                                  *)

LEMMA Exclusive ==
    ASSUME NEW m
    PROVE  /\ ~(Asks(m) /\ Grants(m)) /\ ~(Asks(m) /\ IsAuthorization(m))
           /\ ~(Grants(m) /\ IsAuthorization(m))
BY DEF Asks, Grants, IsAuthorization

(* An answer has its Authorization; randoms are numbers drawn. *)
LEMMA Answered ==
    ASSUME Core, NEW g \in wire, Grants(g)
    PROVE  /\ \E a \in wire : IsAuthorization(a) /\ a.cseq = g.cseq /\ a.authz = g.answers
           /\ Rand(g.answers) \in Nat /\ Rand(g.answers) <= drawn.random1
<1>1. PICK a \in wire : IsAuthorization(a) /\ a.cseq = g.cseq /\ a.authz = g.answers
  BY DEF Core, Wire, MessageOK, Sent
<1>2. Rand(a.authz) \in 1 .. drawn.random1
  BY <1>1 DEF Core, Wire, MessageOK
<1> QED
  BY <1>1, <1>2 DEF Core, Shapes

LEMMA RandsDrawn ==
    ASSUME Core
    PROVE  /\ drawn.random1 \in Nat /\ device.cseq \in Nat
           /\ \A m \in wire : /\ m.cseq \in Nat
                              /\ IsAuthorization(m) =>
                                    /\ Rand(m.authz) \in Nat
                                    /\ Rand(m.authz) <= drawn.random1
                              /\ Asks(m) => Rand(m.header) \in Nat
BY DEF Core, Wire, MessageOK, Shapes, DeviceShape

LEMMA JobSent ==
    ASSUME Core, NEW w \in Workers, job[w] # NoJob
    PROVE  /\ \E a \in wire : IsAuthorization(a) /\ a.cseq = job[w].cseq
                                /\ a.authz = job[w].authz
           /\ job[w].vkek = Vkek(job[w].info)
           /\ Rand(job[w].authz) \in Nat /\ Rand(job[w].authz) <= drawn.random1
<1>1. PICK a \in wire : IsAuthorization(a) /\ a.cseq = job[w].cseq /\ a.authz = job[w].authz
  BY DEF Core, Jobs, Sent
<1>2. Rand(a.authz) \in 1 .. drawn.random1
  BY <1>1 DEF Core, Wire, MessageOK
<1>3. job[w].vkek = Vkek(job[w].info)
  BY DEF Core, Jobs
<1> QED
  BY <1>1, <1>2, <1>3 DEF Core, Shapes

(* What only the wire decides, when no Authorization, challenge or answer    *)
(* joins it.                                                                 *)
WireOrder == NewerChallenges /\ AnsweredOnce /\ OneAnswer

LEMMA OrderKept ==
    ASSUME WireOrder, NEW x, wire' = wire \cup {x} \/ wire' = wire,
           ~IsAuthorization(x), ~Asks(x), ~Grants(x)
    PROVE  WireOrder'
<1>1. \A m \in wire' : IsAuthorization(m) \/ Asks(m) \/ Grants(m) => m \in wire
  OBVIOUS
<1>2. NewerChallenges'
  BY <1>1 DEF WireOrder, NewerChallenges, IsAuthorization, Asks
<1>3. AnsweredOnce'
  BY <1>1 DEF WireOrder, AnsweredOnce, IsAuthorization
<1>4. OneAnswer'
  BY <1>1 DEF WireOrder, OneAnswer, Grants
<1> QED
  BY <1>2, <1>3, <1>4 DEF WireOrder

(* What the platform knows of the answers it gave. *)
Knowledge == JobsNewer /\ Remembered /\ NewestKey

LEMMA KnowledgeKept ==
    ASSUME Knowledge, NEW x, wire' = wire \cup {x} \/ wire' = wire, ~Grants(x),
           UNCHANGED <<job, session>>
    PROVE  Knowledge'
<1>1. /\ \A m \in wire' : Grants(m) => m \in wire
      /\ wire \subseteq wire'
  OBVIOUS
<1>2. JobsNewer'
  BY <1>1 DEF Knowledge, JobsNewer, Grants
<1>3. Remembered'
  BY <1>1 DEF Knowledge, Remembered, Grants
<1>4. NewestKey'
  <2> SUFFICES ASSUME NEW g \in wire, Grants(g)
               PROVE  \/ Vkek(g.header) = session.vkek
                      \/ \E h \in wire : Grants(h) /\ Rand(h.answers) > Rand(g.answers)
    BY <1>1 DEF NewestKey, Grants
  <2> QED
    BY DEF Knowledge, NewestKey
<1> QED
  BY <1>2, <1>3, <1>4 DEF Knowledge

LEMMA SettledKept ==
    ASSUME Settled, settled' \in {settled, FALSE}, device'.vkek = device.vkek,
           session'.vkek = session.vkek, job' = job
    PROVE  Settled'
BY DEF Settled

(* The device's side when it is idle or waits for a challenge: nothing.      *)
LEMMA NothingAwaited ==
    ASSUME device'.phase \in {"idle", "unverified", "want_401"}
    PROVE  Newest' /\ TakenFrom'
BY DEF Newest, TakenFrom

LEMMA NumbersKept ==
    ASSUME Core, Numbers, NEW x, wire' = wire \cup {x} \/ wire' = wire,
           x.cseq <= device'.cseq, device'.cseq \in Nat, device.cseq <= device'.cseq
    PROVE  Numbers'
<1>1. \A m \in wire : m.cseq <= device'.cseq
  BY RandsDrawn DEF Numbers
<1> QED
  BY <1>1 DEF Numbers

LEMMA StartKeepsOrder ==
    ASSUME Core, Unrestarted, StartExchange
    PROVE  Unrestarted'
<1>1. /\ device' = [device EXCEPT !.phase = "want_401", !.exchanges = @ + 1]
      /\ UNCHANGED <<session, job, drawn, outcome, settled>>
  BY DEF StartExchange
<1>2. PICK c : /\ wire' = wire \cup {c}
               /\ c.kind = "register" /\ c.cseq = device.cseq /\ ~IsAuthorization(c)
  BY StartEffect
<1>3. ~Asks(c) /\ ~Grants(c)
  BY <1>2 DEF Asks, Grants
<1>4. device'.phase = "want_401" /\ device'.cseq = device.cseq /\ device'.vkek = device.vkek
  BY <1>1 DEF Core, Shapes, DeviceShape
<1>5. Numbers'
  BY <1>2, <1>4, RandsDrawn, NumbersKept DEF Unrestarted
<1>6. WireOrder'
  BY <1>2, <1>3, OrderKept DEF Unrestarted, WireOrder
<1>7. Knowledge'
  BY <1>1, <1>2, <1>3, KnowledgeKept DEF Unrestarted, Knowledge
<1>8. Settled'
  BY <1>1, <1>4, SettledKept DEF Unrestarted
<1> QED
  BY <1>4, <1>5, <1>6, <1>7, <1>8, NothingAwaited DEF Unrestarted, WireOrder, Knowledge

LEMMA ChallengedKeepsOrder ==
    ASSUME Core, Unrestarted, NEW m \in wire, Challenged(m)
    PROVE  Unrestarted'
<1>1. UNCHANGED <<session, job, outcome, settled>>
  BY DEF Challenged
<1>2. /\ Asks(m) /\ m.cseq = device.cseq /\ Rand(m.header) \in Nat
      /\ device' = [device EXCEPT !.phase = "want_200", !.cseq = @ + 1,
                                  !.mode = m.header.scheme, !.random1 = Rand(m.header),
                                  !.random2 = drawn.random2 + 1]
  BY ChallengedEffect
<1>3. PICK a : /\ wire' = wire \cup {a}
               /\ a.kind = "register" /\ a.cseq = device.cseq + 1
               /\ IsAuthorization(a)
               /\ Rand(a.authz) = Rand(m.header)
  BY ChallengedEffect
<1>4. /\ device'.phase = "want_200" /\ device'.cseq = device.cseq + 1
      /\ device'.random1 = Rand(m.header) /\ device'.vkek = device.vkek
  BY <1>2 DEF Core, Shapes, DeviceShape
<1>5. \A b \in wire : IsAuthorization(b) => Rand(b.authz) < Rand(m.header)
  BY <1>2, RandsDrawn DEF Unrestarted, Numbers, NewerChallenges
<1>6. ~Asks(a) /\ ~Grants(a)
  BY <1>3, Exclusive
<1>7. Numbers'
  BY <1>3, <1>4, RandsDrawn, NumbersKept DEF Unrestarted
<1>8. NewerChallenges'
  <2> SUFFICES ASSUME NEW b \in wire', NEW c \in wire', IsAuthorization(b), Asks(c),
                      c.cseq >= b.cseq
               PROVE  Rand(c.header) > Rand(b.authz)
    BY DEF NewerChallenges, IsAuthorization, Asks
  <2>1. c \in wire /\ c.cseq <= device.cseq
    BY <1>3, <1>6 DEF Unrestarted, Numbers
  <2>2. b # a
    BY <1>3, <2>1, RandsDrawn
  <2> QED
    BY <1>3, <2>1, <2>2 DEF Unrestarted, NewerChallenges
<1>9. AnsweredOnce'
  <2> SUFFICES ASSUME NEW b \in wire', NEW c \in wire', IsAuthorization(b),
                      IsAuthorization(c), Rand(b.authz) = Rand(c.authz)
               PROVE  b = c
    BY DEF AnsweredOnce, IsAuthorization
  <2>1. b = a <=> c = a
    BY <1>2, <1>3, <1>5, RandsDrawn
  <2> QED
    BY <1>3, <2>1 DEF Unrestarted, AnsweredOnce
<1>10. Newest'
  <2>1. \A b \in wire' : IsAuthorization(b) => Rand(b.authz) <= Rand(m.header)
    BY <1>2, <1>3, <1>5, RandsDrawn
  <2>2. \A b \in wire' : IsAuthorization(b) /\ b.cseq = device.cseq + 1 =>
                            Rand(b.authz) = Rand(m.header)
    BY <1>3, RandsDrawn DEF Unrestarted, Numbers
  <2> QED
    BY <1>4, <2>1, <2>2 DEF Newest, IsAuthorization
<1>11. OneAnswer'
  BY <1>3, <1>6 DEF Unrestarted, OneAnswer, Grants
<1>12. Knowledge'
  BY <1>1, <1>3, <1>6, KnowledgeKept DEF Unrestarted, Knowledge
<1>13. TakenFrom'
  BY <1>4 DEF TakenFrom
<1>14. Settled'
  BY <1>1, <1>4, SettledKept DEF Unrestarted
<1> QED
  BY <1>7, <1>8, <1>9, <1>10, <1>11, <1>12, <1>13, <1>14 DEF Unrestarted, Knowledge

(* The newest Authorization bounds every answer and every job. *)
LEMMA NoneNewer ==
    ASSUME Core, Newest, device.phase \in {"want_200", "registered"}
    PROVE  /\ \A g \in wire : Grants(g) => Rand(g.answers) <= device.random1
           /\ \A w \in Workers : job[w] # NoJob => Rand(job[w].authz) <= device.random1
BY Answered, JobSent DEF Newest

(* The key of the answer taken is the platform's, and none is under way.     *)
LEMMA NewestTaken ==
    ASSUME Core, Unrestarted, device.phase \in {"want_200", "registered"},
           NEW g \in wire, Grants(g), Rand(g.answers) = device.random1
    PROVE  /\ Vkek(g.header) = session.vkek
           /\ Vkek(g.header) \in Drawn
           /\ \A w \in Workers : job[w] = NoJob
<1>1. \A h \in wire : Grants(h) => ~(Rand(h.answers) > Rand(g.answers))
  <2> SUFFICES ASSUME NEW h \in wire, Grants(h)
               PROVE  ~(Rand(h.answers) > Rand(g.answers))
    OBVIOUS
  <2>1. Rand(h.answers) \in Nat /\ Rand(g.answers) \in Nat
    BY Answered
  <2>2. Rand(h.answers) <= Rand(g.answers)
    BY NoneNewer DEF Unrestarted
  <2> QED
    BY <2>1, <2>2
<1>2. Vkek(g.header) = session.vkek
  BY <1>1 DEF Unrestarted, NewestKey
<1>3. Vkek(g.header) \in Drawn
  BY DEF Core, Wire, MessageOK, Sealed
<1>4. ASSUME NEW w \in Workers, job[w] # NoJob
      PROVE  FALSE
  <2>1. Rand(g.answers) < Rand(job[w].authz)
    BY <1>4 DEF Unrestarted, JobsNewer
  <2>2. Rand(job[w].authz) <= Rand(g.answers)
    BY <1>4, NoneNewer DEF Unrestarted
  <2>3. Rand(job[w].authz) \in Nat /\ Rand(g.answers) \in Nat
    BY <1>4, JobSent, Answered
  <2> QED
    BY <2>1, <2>2, <2>3
<1> QED
  BY <1>2, <1>3, <1>4

LEMMA AcceptedKeepsOrder ==
    ASSUME Core, Unrestarted, NEW m \in wire, Accepted(m)
    PROVE  Unrestarted'
<1>1. UNCHANGED <<configured, session, job, wire, drawn, outcome>>
  BY DEF Accepted
<1>2. Grants(m) /\ m.cseq = device.cseq /\ device.phase = "want_200"
  BY AcceptedEffect
<1>3. NewerChallenges' /\ AnsweredOnce' /\ OneAnswer'
  BY <1>1 DEF Unrestarted, NewerChallenges, AnsweredOnce, OneAnswer, IsAuthorization, Asks, Grants
<1>4. Knowledge'
  BY <1>1 DEF Unrestarted, Knowledge, JobsNewer, Remembered, NewestKey, Grants
<1>5. CASE /\ device' = [device EXCEPT !.phase = "registered", !.cseq = @ + 1,
                                       !.vkek = Vkek(m.header), !.keepalive = TRUE]
           /\ settled' \in BOOLEAN
  <2>1. /\ device'.phase = "registered" /\ device'.cseq = device.cseq + 1
        /\ device'.random1 = device.random1 /\ device'.vkek = Vkek(m.header)
    BY <1>5 DEF Core, Shapes, DeviceShape
  <2>2. Rand(m.answers) = device.random1
    BY <1>2, Answered DEF Unrestarted, Newest
  <2>3. /\ Vkek(m.header) = session.vkek
        /\ Vkek(m.header) \in Drawn
        /\ \A w \in Workers : job[w] = NoJob
    BY <1>2, <2>2, NewestTaken
  <2>4. Settled'
    BY <1>1, <2>1, <2>3 DEF Settled
  <2>5. TakenFrom'
    BY <1>1, <1>2, <2>1, <2>2 DEF TakenFrom, Grants
  <2>6. Newest'
    BY <1>1, <1>2, <2>1 DEF Unrestarted, Newest, IsAuthorization
  <2>7. Numbers'
    BY <1>1, <2>1, RandsDrawn DEF Unrestarted, Numbers
  <2> QED
    BY <1>3, <1>4, <2>4, <2>5, <2>6, <2>7 DEF Unrestarted, Knowledge
<1>6. CASE device' = [device EXCEPT !.phase = "idle"] /\ settled' = FALSE
  <2>1. device'.phase = "idle" /\ device'.cseq = device.cseq
    BY <1>6 DEF Core, Shapes, DeviceShape
  <2>2. Newest' /\ TakenFrom'
    BY <2>1, NothingAwaited
  <2>3. Settled'
    BY <1>6 DEF Settled
  <2>4. Numbers'
    BY <1>1, <2>1 DEF Unrestarted, Numbers
  <2> QED
    BY <1>3, <1>4, <2>2, <2>3, <2>4 DEF Unrestarted, Knowledge
<1> QED
  BY <1>5, <1>6, AcceptedEffect

(* An exchange that ends without a registration. *)
LEMMA AbandonedKeepsOrder ==
    ASSUME Core, Unrestarted, UNCHANGED <<configured, session, job, wire, drawn, outcome, settled>>,
           device'.phase \in {"idle", "unverified"}, device'.vkek = device.vkek,
           device'.cseq \in {device.cseq, device.cseq + 1}
    PROVE  Unrestarted'
<1>1. NewerChallenges' /\ AnsweredOnce' /\ OneAnswer'
  BY DEF Unrestarted, NewerChallenges, AnsweredOnce, OneAnswer, IsAuthorization, Asks, Grants
<1>2. Knowledge'
  BY DEF Unrestarted, Knowledge, JobsNewer, Remembered, NewestKey, Grants
<1>3. Newest' /\ TakenFrom'
  BY NothingAwaited
<1>4. Settled'
  BY SettledKept DEF Unrestarted
<1>5. Numbers'
  BY RandsDrawn DEF Unrestarted, Numbers
<1> QED
  BY <1>1, <1>2, <1>3, <1>4, <1>5 DEF Unrestarted, Knowledge

LEMMA DeviceAlone ==
    ASSUME Core, Unrestarted,
           ExchangeFails \/ \E m \in wire : AcceptedWithoutChallenge(m)
    PROVE  Unrestarted'
<1>1. CASE ExchangeFails
  <2>1. /\ device' = [device EXCEPT !.phase = "idle"]
        /\ UNCHANGED <<configured, session, job, wire, drawn, outcome, settled>>
    BY <1>1 DEF ExchangeFails
  <2>2. device'.phase = "idle" /\ device'.vkek = device.vkek /\ device'.cseq = device.cseq
    BY <2>1 DEF Core, Shapes, DeviceShape
  <2> QED
    BY <2>1, <2>2, AbandonedKeepsOrder
<1>2. ASSUME NEW m \in wire, AcceptedWithoutChallenge(m)
      PROVE  Unrestarted'
  <2>1. /\ device' = [device EXCEPT !.phase = "unverified", !.cseq = @ + 1, !.keepalive = TRUE]
        /\ UNCHANGED <<configured, session, job, wire, drawn, outcome, settled>>
    BY <1>2 DEF AcceptedWithoutChallenge, NextCSeq
  <2>2. /\ device'.phase = "unverified" /\ device'.vkek = device.vkek
        /\ device'.cseq = device.cseq + 1
    BY <2>1 DEF Core, Shapes, DeviceShape
  <2> QED
    BY <2>1, <2>2, AbandonedKeepsOrder
<1> QED
  BY <1>1, <1>2

(* The device's side of a step of the platform. *)
LEMMA DeviceSideKept ==
    ASSUME Core, Unrestarted, device' = device, NEW x, wire' = wire \cup {x},
           ~IsAuthorization(x), x.cseq <= device.cseq
    PROVE  Numbers' /\ AnsweredOnce' /\ Newest' /\ TakenFrom'
<1>1. \A m \in wire' : IsAuthorization(m) => m \in wire
  OBVIOUS
<1>2. Numbers'
  BY RandsDrawn, NumbersKept DEF Unrestarted
<1>3. AnsweredOnce'
  BY <1>1 DEF Unrestarted, AnsweredOnce, IsAuthorization
<1>4. Newest'
  BY <1>1 DEF Unrestarted, Newest, IsAuthorization
<1>5. TakenFrom'
  BY DEF Unrestarted, TakenFrom, Grants
<1> QED
  BY <1>2, <1>3, <1>4, <1>5

LEMMA ChallengeKeepsOrder ==
    ASSUME Core, Unrestarted, NEW m \in wire, Challenge(m)
    PROVE  Unrestarted'
<1>1. UNCHANGED <<configured, device, job, outcome, settled>>
  BY DEF Challenge
<1>2. session' = [mode |-> configured, random1 |-> drawn.random1 + 1,
                  announced |-> session'.announced, vkek |-> session.vkek,
                  last_auth |-> NoHeader, last_info |-> NoHeader]
  BY ChallengeEffect
<1>3. PICK c : /\ wire' = wire \cup {c}
               /\ Asks(c) /\ c.cseq = m.cseq
               /\ Rand(c.header) = drawn.random1 + 1
  BY ChallengeEffect
<1>4. session'.random1 = drawn.random1 + 1 /\ session'.vkek = session.vkek
  BY <1>2
<1>5. ~IsAuthorization(c) /\ ~Grants(c)
  BY <1>3, Exclusive
<1>6. m.cseq <= device.cseq
  BY DEF Unrestarted, Numbers
<1>7. Numbers' /\ AnsweredOnce' /\ Newest' /\ TakenFrom'
  BY <1>1, <1>3, <1>5, <1>6, DeviceSideKept
<1>8. NewerChallenges'
  <2> SUFFICES ASSUME NEW a \in wire', NEW d \in wire', IsAuthorization(a), Asks(d),
                      d.cseq >= a.cseq
               PROVE  Rand(d.header) > Rand(a.authz)
    BY DEF NewerChallenges, IsAuthorization, Asks
  <2>1. a \in wire
    BY <1>3, <1>5
  <2>2. CASE d = c
    BY <1>3, <2>1, <2>2, RandsDrawn
  <2>3. CASE d \in wire
    BY <2>1, <2>3 DEF Unrestarted, NewerChallenges
  <2> QED
    BY <1>3, <2>2, <2>3
<1>9. \A g \in wire' : Grants(g) => g \in wire
  BY <1>3, <1>5
<1>10. JobsNewer'
  BY <1>1, <1>9 DEF Unrestarted, JobsNewer, Grants
<1>11. Remembered'
  <2> SUFFICES ASSUME NEW g \in wire, Grants(g)
               PROVE  Rand(g.answers) # drawn.random1 + 1
    BY <1>4, <1>9 DEF Remembered, Grants
  <2> QED
    BY Answered, RandsDrawn
<1>12. NewestKey'
  <2> SUFFICES ASSUME NEW g \in wire, Grants(g)
               PROVE  \/ Vkek(g.header) = session.vkek
                      \/ \E h \in wire' : Grants(h) /\ Rand(h.answers) > Rand(g.answers)
    BY <1>4, <1>9 DEF NewestKey, Grants
  <2> QED
    BY <1>3 DEF Unrestarted, NewestKey
<1>13. OneAnswer'
  BY <1>9 DEF Unrestarted, OneAnswer, Grants
<1>14. Settled'
  BY <1>1, <1>4, SettledKept DEF Unrestarted
<1> QED
  BY <1>7, <1>8, <1>10, <1>11, <1>12, <1>13, <1>14 DEF Unrestarted

LEMMA RejectsKeepsOrder ==
    ASSUME Core, Unrestarted, NEW w \in Workers, NEW m \in wire, VerifyRejects(w, m)
    PROVE  Unrestarted'
<1>1. UNCHANGED <<configured, device, session, job, drawn, outcome, settled>>
  BY DEF VerifyRejects
<1>2. PICK r : /\ wire' = wire \cup {r}
               /\ r.cseq = m.cseq
               /\ ~IsAuthorization(r) /\ ~Asks(r) /\ ~Grants(r)
  BY RejectsEffect
<1>3. m.cseq <= device.cseq
  BY DEF Unrestarted, Numbers
<1>4. Numbers' /\ AnsweredOnce' /\ Newest' /\ TakenFrom'
  BY <1>1, <1>2, <1>3, DeviceSideKept
<1>5. WireOrder'
  BY <1>2, OrderKept DEF Unrestarted, WireOrder
<1>6. Knowledge'
  BY <1>1, <1>2, KnowledgeKept DEF Unrestarted, Knowledge
<1>7. Settled'
  BY <1>1, SettledKept DEF Unrestarted
<1> QED
  BY <1>4, <1>5, <1>6, <1>7 DEF Unrestarted, WireOrder, Knowledge

(* The answer of old, once more: it says what the old one said. *)
LEMMA RepeatsKeepsOrder ==
    ASSUME Core, Unrestarted, NEW w \in Workers, NEW m \in wire, VerifyRepeats(w, m)
    PROVE  Unrestarted'
<1>1. UNCHANGED <<configured, device, session, job, drawn, outcome, settled>>
  BY DEF VerifyRepeats
<1>2. PICK g, g0 : /\ wire' = wire \cup {g}
                   /\ g0 \in wire /\ Grants(g0)
                   /\ g0.answers = g.answers /\ g0.header = g.header
                   /\ Grants(g) /\ g.cseq = m.cseq
  BY RepeatsEffect
<1>3. ~IsAuthorization(g) /\ ~Asks(g)
  BY <1>2, Exclusive
<1>4. m.cseq <= device.cseq
  BY DEF Unrestarted, Numbers
<1>5. Numbers' /\ AnsweredOnce' /\ Newest' /\ TakenFrom'
  BY <1>1, <1>2, <1>3, <1>4, DeviceSideKept
<1>6. NewerChallenges'
  BY <1>2, <1>3 DEF Unrestarted, NewerChallenges, IsAuthorization, Asks
<1>7. \A h \in wire' : Grants(h) =>
         \E o \in wire : Grants(o) /\ o.answers = h.answers /\ o.header = h.header
  BY <1>2
<1>8. JobsNewer'
  <2> SUFFICES ASSUME NEW h \in wire', NEW v \in Workers, Grants(h), job[v] # NoJob
               PROVE  Rand(h.answers) < Rand(job[v].authz)
    BY <1>1 DEF JobsNewer, Grants
  <2>1. PICK o \in wire : Grants(o) /\ o.answers = h.answers
    BY <1>7
  <2> QED
    BY <2>1 DEF Unrestarted, JobsNewer
<1>9. Remembered'
  <2> SUFFICES ASSUME NEW h \in wire', Grants(h), Rand(h.answers) = session.random1
               PROVE  session.last_auth = h.answers
    BY <1>1 DEF Remembered, Grants
  <2>1. PICK o \in wire : Grants(o) /\ o.answers = h.answers
    BY <1>7
  <2> QED
    BY <2>1 DEF Unrestarted, Remembered
<1>10. NewestKey'
  <2> SUFFICES ASSUME NEW h \in wire', Grants(h)
               PROVE  \/ Vkek(h.header) = session.vkek
                      \/ \E k \in wire' : Grants(k) /\ Rand(k.answers) > Rand(h.answers)
    BY <1>1 DEF NewestKey, Grants
  <2>1. PICK o \in wire : Grants(o) /\ o.answers = h.answers /\ o.header = h.header
    BY <1>7
  <2>2. \/ Vkek(o.header) = session.vkek
        \/ \E k \in wire : Grants(k) /\ Rand(k.answers) > Rand(o.answers)
    BY <2>1 DEF Unrestarted, NewestKey
  <2> QED
    BY <1>2, <2>1, <2>2
<1>11. OneAnswer'
  <2> SUFFICES ASSUME NEW h \in wire', NEW k \in wire', Grants(h), Grants(k),
                      h.answers = k.answers
               PROVE  h.header = k.header
    BY DEF OneAnswer, Grants
  <2>1. PICK o \in wire : Grants(o) /\ o.answers = h.answers /\ o.header = h.header
    BY <1>7
  <2>2. PICK p \in wire : Grants(p) /\ p.answers = k.answers /\ p.header = k.header
    BY <1>7
  <2> QED
    BY <2>1, <2>2 DEF Unrestarted, OneAnswer
<1>12. Settled'
  BY <1>1, SettledKept DEF Unrestarted
<1> QED
  BY <1>5, <1>6, <1>8, <1>9, <1>10, <1>11, <1>12 DEF Unrestarted

LEMMA BeginsKeepsOrder ==
    ASSUME Core, Unrestarted, NEW w \in Workers, NEW m \in wire, VerifyBegins(w, m)
    PROVE  Unrestarted'
<1>1. UNCHANGED <<configured, device, session, wire, outcome>> /\ settled' = FALSE
  BY DEF VerifyBegins
<1>2. /\ IsAuthorization(m)
      /\ m.authz # session.last_auth
      /\ Rand(m.authz) = drawn.random1 /\ Rand(m.authz) = session.random1
      /\ \A v \in Workers : v # w => job'[v] = job[v]
      /\ job'[w].authz = m.authz
  BY BeginsEffect
<1>3. Numbers' /\ NewerChallenges' /\ AnsweredOnce' /\ OneAnswer'
  BY <1>1 DEF Unrestarted, Numbers, NewerChallenges, AnsweredOnce, OneAnswer,
              IsAuthorization, Asks, Grants
<1>4. Newest' /\ TakenFrom' /\ Remembered' /\ NewestKey'
  BY <1>1 DEF Unrestarted, Newest, TakenFrom, Remembered, NewestKey, IsAuthorization, Grants
<1>5. ASSUME NEW g \in wire, Grants(g)
      PROVE  Rand(g.answers) < Rand(m.authz)
  <2>1. /\ Rand(g.answers) \in Nat /\ Rand(g.answers) <= drawn.random1
        /\ drawn.random1 \in Nat
    BY <1>5, Answered, RandsDrawn
  <2>2. SUFFICES ASSUME Rand(g.answers) = Rand(m.authz)
                 PROVE  FALSE
    BY <1>2, <2>1
  <2>3. session.last_auth = g.answers
    BY <1>2, <1>5, <2>2 DEF Unrestarted, Remembered
  <2>4. PICK a \in wire : IsAuthorization(a) /\ a.authz = g.answers
    BY <1>5, Answered
  <2>5. a = m
    BY <1>2, <2>2, <2>4 DEF Unrestarted, AnsweredOnce
  <2> QED
    BY <1>2, <2>3, <2>4, <2>5
<1>6. JobsNewer'
  BY <1>1, <1>2, <1>5 DEF Unrestarted, JobsNewer, Grants
<1>7. Settled'
  BY <1>1 DEF Settled
<1> QED
  BY <1>3, <1>4, <1>6, <1>7 DEF Unrestarted

LEMMA CommitsKeepsOrder ==
    ASSUME SingleWorker, Core, Unrestarted, NEW w \in Workers, VerifyCommits(w)
    PROVE  Unrestarted'
<1>1. UNCHANGED <<configured, device, drawn, outcome, settled>>
  BY DEF VerifyCommits
<1>2. /\ job[w] # NoJob
      /\ job'[w] = NoJob
      /\ session' = [mode |-> session.mode, random1 |-> session.random1,
                     announced |-> session.announced, vkek |-> job[w].vkek,
                     last_auth |-> job[w].authz, last_info |-> job[w].info]
  BY CommitsEffect
<1>3. /\ session'.random1 = session.random1 /\ session'.vkek = job[w].vkek
      /\ session'.last_auth = job[w].authz
  BY <1>2
<1>4. PICK g : /\ wire' = wire \cup {g}
               /\ Grants(g) /\ g.cseq = job[w].cseq
               /\ g.answers = job[w].authz /\ g.header = job[w].info
  BY CommitsEffect
<1>5. /\ job[w].vkek = Vkek(job[w].info)
      /\ Rand(job[w].authz) \in Nat /\ Rand(job[w].authz) <= drawn.random1
      /\ drawn.random1 \in Nat
  BY <1>2, JobSent, RandsDrawn
<1>6. \A h \in wire : Grants(h) => /\ Rand(h.answers) \in Nat
                                   /\ Rand(h.answers) < Rand(job[w].authz)
  BY <1>2, Answered DEF Unrestarted, JobsNewer
<1>7. ~IsAuthorization(g) /\ ~Asks(g)
  BY <1>4, Exclusive
<1>8. g.cseq <= device.cseq
  BY <1>2, <1>4, JobSent DEF Unrestarted, Numbers
<1>9. Numbers' /\ AnsweredOnce' /\ Newest' /\ TakenFrom'
  BY <1>1, <1>4, <1>7, <1>8, DeviceSideKept
<1>10. NewerChallenges'
  BY <1>4, <1>7 DEF Unrestarted, NewerChallenges, IsAuthorization, Asks
<1>11. JobsNewer'
  BY <1>2 DEF SingleWorker, JobsNewer
<1>12. Remembered'
  <2>1. \A h \in wire : Grants(h) => Rand(h.answers) # session.random1
    <3>1. session.random1 = drawn.random1 \/ drawn.random1 = 0
      BY DEF Core, Session
    <3>2. \A h \in wire : Grants(h) => drawn.random1 # 0 /\ Rand(h.answers) # drawn.random1
      BY <1>5, <1>6
    <3> QED
      BY <3>1, <3>2
  <2> QED
    BY <1>3, <1>4, <2>1 DEF Remembered, Grants
<1>13. NewestKey'
  <2>1. \A h \in wire : Grants(h) => Rand(g.answers) > Rand(h.answers)
    BY <1>4, <1>5, <1>6
  <2>2. Vkek(g.header) = session'.vkek
    BY <1>3, <1>4, <1>5
  <2> QED
    BY <1>4, <2>1, <2>2 DEF NewestKey, Grants
<1>14. OneAnswer'
  <2> SUFFICES ASSUME NEW h \in wire', NEW k \in wire', Grants(h), Grants(k),
                      h.answers = k.answers
               PROVE  h.header = k.header
    BY DEF OneAnswer, Grants
  <2>1. h = g <=> k = g
    BY <1>4, <1>5, <1>6
  <2> QED
    BY <1>4, <2>1 DEF Unrestarted, OneAnswer
<1>15. Settled'
  BY <1>1, <1>2 DEF Unrestarted, Settled
<1> QED
  BY <1>9, <1>10, <1>11, <1>12, <1>13, <1>14, <1>15 DEF Unrestarted

LEMMA RequestKeepsOrder ==
    ASSUME Unrestarted, UNCHANGED <<configured, device, session, job, wire, drawn, settled>>
    PROVE  Unrestarted'
BY DEF Unrestarted, Numbers, NewerChallenges, AnsweredOnce, Newest, JobsNewer, Remembered,
       NewestKey, OneAnswer, TakenFrom, Settled, IsAuthorization, Asks, Grants

-------------------------------------------------------------------------------
(* The invariant.                                                          *)

LEMMA Restarts ==
    ASSUME Core, [Next]_vars, device'.restarts = 0
    PROVE  device.restarts = 0 /\ ~Restart
<1>1. device.restarts \in Nat
  BY DEF Core, Shapes, DeviceShape
<1>2. CASE Restart
  BY <1>1, <1>2 DEF Restart, Booted
<1>3. CASE ~Restart
  <2>. device \in DeviceShape
    BY DEF Core, Shapes
  <2>1. ASSUME StartExchange \/ ExchangeFails
        PROVE  device'.restarts = device.restarts
    BY <2>1 DEF StartExchange, ExchangeFails, DeviceShape
  <2>2. ASSUME NEW m \in wire, Challenged(m)
        PROVE  device'.restarts = device.restarts
    BY <2>2 DEF Challenged, DeviceShape
  <2>3. ASSUME NEW m \in wire, AcceptedWithoutChallenge(m) \/ Accepted(m)
        PROVE  device'.restarts = device.restarts
    <3>1. CASE AcceptedWithoutChallenge(m)
      BY <3>1 DEF AcceptedWithoutChallenge, DeviceShape
    <3>2. CASE Accepted(m)
      BY <3>2, AcceptedEffect DEF DeviceShape
    <3> QED
      BY <2>3, <3>1, <3>2
  <2>4. ASSUME NEW m \in wire, PlatformReceives(m)
        PROVE  device' = device
    BY <2>4 DEF PlatformReceives, Challenge, VerifyRepeats, VerifyRejects, VerifyBegins
  <2>5. ASSUME NEW w \in Workers, VerifyCommits(w)
        PROVE  device' = device
    BY <2>5 DEF VerifyCommits
  <2>6. ASSUME Keepalive \/ (\E fresh \in BOOLEAN : PlatformRequest(fresh)) \/ UNCHANGED vars
        PROVE  device' = device
    BY <2>6 DEF Keepalive, PlatformRequest, vars
  <2> QED
    BY <1>3, <2>1, <2>2, <2>3, <2>4, <2>5, <2>6 DEF Next, DeviceReceives
<1> QED
  BY <1>2, <1>3

LEMMA OrderStep ==
    ASSUME SingleWorker, Core, Unrestarted, [Next]_vars, ~Restart
    PROVE  Unrestarted'
<1>1. CASE StartExchange
  BY <1>1, StartKeepsOrder
<1>2. CASE ExchangeFails
  BY <1>2, DeviceAlone
<1>3. CASE Keepalive \/ \E fresh \in BOOLEAN : PlatformRequest(fresh)
  BY <1>3, RequestKeepsOrder DEF Keepalive, PlatformRequest
<1>4. ASSUME NEW w \in Workers, VerifyCommits(w) PROVE Unrestarted'
  BY <1>4, CommitsKeepsOrder
<1>5. ASSUME NEW m \in wire, DeviceReceives(m) PROVE Unrestarted'
  BY <1>5, ChallengedKeepsOrder, DeviceAlone, AcceptedKeepsOrder DEF DeviceReceives
<1>6. ASSUME NEW m \in wire, PlatformReceives(m) PROVE Unrestarted'
  BY <1>6, ChallengeKeepsOrder, RepeatsKeepsOrder, RejectsKeepsOrder, BeginsKeepsOrder
     DEF PlatformReceives
<1>7. CASE UNCHANGED vars
  BY <1>7, RequestKeepsOrder DEF vars
<1> QED
  BY <1>1, <1>2, <1>3, <1>4, <1>5, <1>6, <1>7 DEF Next

LEMMA OrderInit == Init => Unrestarted
BY DEF Init, Booted, Unrestarted, Numbers, NewerChallenges, AnsweredOnce, Newest, JobsNewer,
       Remembered, NewestKey, OneAnswer, TakenFrom, Settled

(* Core is an invariant however many workers the platform has.               *)
LEMMA CoreInvariant == Spec => []Core
<1>1. Init => Core
  BY CoreInit
<1>2. Core /\ [Next]_vars => Core'
  BY CoreStep
<1> QED
  BY <1>1, <1>2, PTL DEF Spec

LEMMA Invariant == ASSUME SingleWorker PROVE Spec => []IInv
<1>1. Init => IInv
  BY CoreInit, OrderInit DEF IInv
<1>2. IInv /\ [Next]_vars => IInv'
  <2> SUFFICES ASSUME IInv, [Next]_vars
               PROVE  IInv'
    OBVIOUS
  <2>1. Core /\ Core'
    BY CoreStep DEF IInv
  <2>2. ASSUME device'.restarts = 0
        PROVE  Unrestarted'
    <3>1. device.restarts = 0 /\ ~Restart
      BY <2>1, <2>2, Restarts
    <3> QED
      BY <2>1, <3>1, OrderStep DEF IInv
  <2> QED
    BY <2>1, <2>2 DEF IInv
<1> QED
  BY <1>1, <1>2, PTL DEF Spec

-------------------------------------------------------------------------------
(* The theorems.                                                           *)

(* Every field keeps its range: the CSeq stays within two numbers an         *)
(* exchange and a key is one that was drawn, whatever is repeated, delayed   *)
(* or lost and however often the device restarts.                            *)
THEOREM TypeCorrect == Spec => []TypeOK
<1>1. Core => TypeOK
  BY DEF Core
<1> QED
  BY <1>1, CoreInvariant, PTL

(* Under Bidirection the key of a registered device is that of an answer to  *)
(* the very randoms it holds, with any number of workers and any number of   *)
(* restarts (the echo check of verify_ok).                                   *)
THEOREM OwnKey == Spec => []OwnHandshakeKey
<1>1. Core => OwnHandshakeKey
  BY DEF Core
<1> QED
  BY <1>1, CoreInvariant, PTL

(* A device that registered holds the platform's key until it registers      *)
(* again: an answer to an older Authorization can no longer be committed,    *)
(* and one to a newer does not exist.                                        *)
THEOREM Agreement == ASSUME SingleWorker PROVE Spec => []RegisteredAgree
<1>1. IInv => RegisteredAgree
  <2> SUFFICES ASSUME IInv, device.phase = "registered", device.restarts = 0
               PROVE  device.vkek # Absent /\ device.vkek = session.vkek
    BY DEF RegisteredAgree
  <2>1. Core /\ Unrestarted
    BY DEF IInv
  <2>2. PICK g \in wire : /\ Grants(g) /\ Rand(g.answers) = device.random1
                          /\ Vkek(g.header) = device.vkek
    BY <2>1 DEF Unrestarted, TakenFrom
  <2>3. Vkek(g.header) = session.vkek /\ Vkek(g.header) \in Drawn
    BY <2>1, <2>2, NewestTaken
  <2> QED
    BY <2>2, <2>3 DEF Drawn
<1> QED
  BY <1>1, Invariant, PTL

(* Until the device restarts, an Authorization that is answered twice is     *)
(* answered with the same SecurityInfo (the retransmission branch of         *)
(* verify_register and its last_auth).                                       *)
THEOREM OneKey == ASSUME SingleWorker PROVE Spec => []OneKeyPerRegister
<1>1. IInv => OneKeyPerRegister
  BY DEF IInv, Unrestarted, OneAnswer, OneKeyPerRegister, Grants
<1> QED
  BY <1>1, Invariant, PTL

(* From the 200 that verified until the next key is drawn, every Note of     *)
(* either side verifies at the other: a challenge, a failed exchange or a    *)
(* repeated REGISTER leaves the negotiated key in place.                     *)
THEOREM NotesKept == ASSUME SingleWorker PROVE Spec => NotesVerify
<1>1. ASSUME IInv, [Next]_vars
      PROVE  (Keepalive \/ PlatformRequest(TRUE)) /\ settled /\ device.restarts = 0
                => outcome' = "served"
  <2> SUFFICES ASSUME Keepalive \/ PlatformRequest(TRUE), settled, device.restarts = 0
               PROVE  outcome' = "served"
    OBVIOUS
  <2>1. device.vkek = session.vkek /\ device.vkek # Absent
    BY <1>1 DEF IInv, Unrestarted, Settled, Drawn
  <2>2. \A request : NoteVerifies(SealedNote(request, device.vkek), request, device.vkek)
    BY <2>1 DEF NoteVerifies, SealedNote, BuildNote, VerifyNoteHeader
  <2>3. CASE Keepalive
    BY <2>1, <2>2, <2>3 DEF Keepalive
  <2>4. CASE PlatformRequest(TRUE)
    BY <2>1, <2>2, <2>4 DEF PlatformRequest, AllowIncomingNote, IncomingNoteVerifies
  <2> QED
    BY <2>3, <2>4
<1> QED
  BY <1>1, Invariant, PTL DEF Spec, NotesVerify
===============================================================================
