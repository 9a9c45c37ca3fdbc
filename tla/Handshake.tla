------------------------------- MODULE Handshake -------------------------------
(***************************************************************************)
(* The GB 35114 A-level REGISTER handshake and the Note integrity that     *)
(* rests on it: the device's perform_register with its authenticator       *)
(* (src/src/server.rs, src/src/security35114/authenticator.rs) against the *)
(* platform's challenge / verify_register / verify_note                    *)
(* (src/src/security35114/platform.rs).                                    *)
(*                                                                         *)
(* Messages stay on the wire once sent: they are taken late, out of order, *)
(* more than once or never.  The device tells REGISTER responses apart by  *)
(* CSeq alone.  The SIP server around the platform's state machine is      *)
(* external: it has Workers, each of which answers one REGISTER at a time; *)
(* verify_register holds the session lock while it reads the session and   *)
(* again while it writes it, not in between.                               *)
(***************************************************************************)
EXTENDS SecurityHeaders

CONSTANTS
    Workers,      \* of the SIP server around the platform
    IncomingNotePolicy, \* of the device: "reject" (the default), "warn" or "off"
    IncludeCert,  \* Options.include_device_cert
    Provisioned,  \* the platform's device_certs has the device
    MaxExchanges, \* bound: REGISTER exchanges of the device
    MaxRestarts,  \* bound: restarts of the device
    MaxChallenges \* bound: challenges the platform issues

ASSUME HandshakeAssumption ==
    /\ IncomingNotePolicy \in {"reject", "warn", "off"}
    /\ IncludeCert \in BOOLEAN /\ Provisioned \in BOOLEAN
    /\ Sign2R2First \in BOOLEAN
    /\ {MaxExchanges, MaxRestarts, MaxChallenges} \subseteq Nat
    /\ Absent \notin Nat /\ Absent \notin Schemes
    /\ DeviceId # ServerId /\ DeviceId # Absent /\ ServerId # Absent

VARIABLES
    configured, \* PlatformConfig.mode
    device,     \* the device's exchange, CSeq and HandshakeState
    session,    \* PlatformSession
    job,        \* what each worker has in hand
    wire,       \* every message sent
    drawn,      \* random1, random2 and VKEK values drawn so far
    outcome,    \* what became of the last request with a Note
    settled     \* history: the device has verified a 200 and no VKEK was drawn since

vars == <<configured, device, session, job, wire, drawn, outcome, settled>>

NoSession == [mode |-> Absent, random1 |-> Absent, announced |-> Absent,
              vkek |-> Absent, last_auth |-> NoHeader, last_info |-> NoHeader]
NoJob == [authz |-> NoHeader, cseq |-> 0, info |-> NoHeader, vkek |-> Absent]
Booted(exchanges, restarts) ==
    [phase |-> "idle", cseq |-> 1, mode |-> Absent, random1 |-> Absent, random2 |-> Absent,
     vkek |-> Absent, keepalive |-> FALSE, exchanges |-> exchanges, restarts |-> restarts]

Key == (1 .. MaxChallenges * (MaxExchanges + 1)) \cup {Absent}

TypeOK ==
    /\ configured \in Schemes
    /\ device.phase \in {"idle", "want_401", "want_200", "registered", "unverified"}
    /\ device.cseq \in 1 .. 2 * MaxExchanges + 1
    /\ device.mode \in Schemes \cup {Absent}
    /\ device.random2 \in (1 .. MaxExchanges) \cup {Absent}
    /\ device.vkek \in Key
    /\ session.mode \in Schemes \cup {Absent}
    /\ session.random1 \in (1 .. MaxChallenges) \cup {Absent}
    /\ session.vkek \in Key
    /\ \A w \in Workers : job[w].vkek \in Key
    /\ \A m \in wire : m.kind \in {"register", "response", "keepalive", "request"}
    /\ outcome \in {"none", "served", "refused"}
    /\ settled \in BOOLEAN

Init ==
    /\ configured \in Schemes
    /\ device = Booted(0, 0)
    /\ session = NoSession
    /\ job = [w \in Workers |-> NoJob]
    /\ wire = {}
    /\ drawn = [random2 |-> 0, random1 |-> 0, vkek |-> 0]
    /\ outcome = "none"
    /\ settled = FALSE

Send(m) == wire' = wire \cup {m}

Register(cseq, authz) == [kind |-> "register", cseq |-> cseq, authz |-> authz]

(* `answers` is history: the Authorization a response answers.               *)
Response(cseq, status, header, answers) ==
    [kind |-> "response", cseq |-> cseq, status |-> status, header |-> header,
     answers |-> answers]

-------------------------------------------------------------------------------
(* The device: perform_register.                                           *)

(* client.inc_cseq().                                                        *)
NextCSeq(n) == n + 1

Waiting == device.phase \in {"want_401", "want_200"}

StartExchange ==
    /\ ~Waiting
    /\ device.exchanges < MaxExchanges
    /\ device' = [device EXCEPT !.phase = "want_401", !.exchanges = @ + 1]
    /\ Send(Register(device.cseq, BuildCapability(IF IncludeCert THEN DeviceId ELSE Absent)))
    /\ UNCHANGED <<configured, session, job, drawn, outcome, settled>>

(* authorize_with_challenge: sign, then remember the randoms.                *)
Challenged(m) ==
    /\ device.phase = "want_401"
    /\ m.kind = "response" /\ m.cseq = device.cseq /\ m.status = 401
    /\ LET ch      == ParseChallenge(m.header)
           random2 == drawn.random2 + 1
           sign1   == SignMessage(DeviceId, SignAuthPayload(ch.random1, random2, ServerId))
       IN  /\ ch # Malformed
           /\ device' = [device EXCEPT !.phase = "want_200", !.cseq = NextCSeq(@),
                                       !.mode = ch.scheme, !.random1 = ch.random1,
                                       !.random2 = random2]
           /\ drawn' = [drawn EXCEPT !.random2 = random2]
           /\ Send(Register(NextCSeq(device.cseq), BuildAuthorization(ch, random2, sign1)))
    /\ UNCHANGED <<configured, session, job, outcome, settled>>

(* A 200 to the bare REGISTER is a platform without authentication: the      *)
(* device counts as registered and nothing is verified.                      *)
AcceptedWithoutChallenge(m) ==
    /\ device.phase = "want_401"
    /\ m.kind = "response" /\ m.cseq = device.cseq /\ m.status = 200
    /\ device' = [device EXCEPT !.phase = "unverified", !.cseq = NextCSeq(@), !.keepalive = TRUE]
    /\ UNCHANGED <<configured, session, job, wire, drawn, outcome, settled>>

AnyInfo(si) ==
    /\ si # Malformed
    /\ Opens(DeviceId, si.cryptkey)

EchoesMatch(si) ==
    /\ si.random1 = device.random1
    /\ si.random2 = device.random2
    /\ si.deviceid = DeviceId
    /\ si.serverid = ServerId

(* verify_ok: the scheme that decides is the one SecurityInfo names.          *)
VerifyOk(si) ==
    /\ device.mode # Absent
    /\ si # Malformed
    /\ Opens(DeviceId, si.cryptkey)
    /\ si.scheme = "Bidirection" =>
        /\ EchoesMatch(si)
        /\ VerifyMessage(ServerId, Sign2Payload(si.random1, si.random2, si.deviceid, si.cryptkey),
                         si.sign2)

(* The 200 to the authenticated REGISTER; one that fails verification fails  *)
(* the exchange and leaves the CSeq to the next one.                         *)
Accepted(m) ==
    /\ device.phase = "want_200"
    /\ m.kind = "response" /\ m.cseq = device.cseq /\ m.status = 200
    /\ LET si == ParseSecurityInfo(m.header) IN
       \/ /\ VerifyOk(si)
          /\ device' = [device EXCEPT !.phase = "registered", !.cseq = NextCSeq(@),
                                      !.vkek = si.cryptkey.vkek, !.keepalive = TRUE]
       \/ /\ ~VerifyOk(si)
          /\ device' = [device EXCEPT !.phase = "idle"]
    /\ settled' = VerifyOk(ParseSecurityInfo(m.header))
    /\ UNCHANGED <<configured, session, job, wire, drawn, outcome>>

(* Any other status, or none within five seconds.                            *)
ExchangeFails ==
    /\ Waiting
    /\ device' = [device EXCEPT !.phase = "idle"]
    /\ UNCHANGED <<configured, session, job, wire, drawn, outcome, settled>>

(* The process starts anew: CSeq 1, no handshake state, no keepalive task.   *)
Restart ==
    /\ device.restarts < MaxRestarts
    /\ device' = Booted(device.exchanges, device.restarts + 1)
    /\ settled' = FALSE
    /\ UNCHANGED <<configured, session, job, wire, drawn, outcome>>

-------------------------------------------------------------------------------
(* The platform.                                                           *)

Answer(m, status, header) == Send(Response(m.cseq, status, header, m.authz))

IsCapability(m) == m.kind = "register" /\ m.authz.scheme = "Capability"
IsAuthorization(m) == m.kind = "register" /\ m.authz.scheme \in Schemes

ForgetsKey(h) ==
    [session EXCEPT !.mode = configured, !.random1 = drawn.random1 + 1,
                    !.vkek = Absent,
                    !.last_auth = NoHeader, !.last_info = NoHeader,
                    !.announced = IF AnnouncedCert(h) # Absent THEN AnnouncedCert(h) ELSE @]

(* The negotiated VKEK and an announced certificate stay.                    *)
ChallengedSession(h) ==
    [session EXCEPT !.mode = configured, !.random1 = drawn.random1 + 1,
                    !.last_auth = NoHeader, !.last_info = NoHeader,
                    !.announced = IF AnnouncedCert(h) # Absent THEN AnnouncedCert(h) ELSE @]

(* challenge(): one critical section.                                        *)
Challenge(m) ==
    /\ IsCapability(m)
    /\ drawn.random1 < MaxChallenges
    /\ session' = ChallengedSession(m.authz)
    /\ drawn' = [drawn EXCEPT !.random1 = @ + 1]
    /\ Answer(m, 401, BuildChallenge(configured, drawn.random1 + 1))
    /\ UNCHANGED <<configured, device, job, outcome, settled>>

Cert == IF Provisioned THEN DeviceId ELSE session.announced

AcceptsAnyRandom(aa) ==
    /\ aa # Malformed
    /\ session.mode # Absent /\ aa.scheme = session.mode
    /\ Cert # Absent
    /\ VerifyMessage(Cert, SignAuthPayload(aa.random1, aa.random2, aa.serverid), aa.sign1)

(* The checks of verify_register.                                            *)
AuthorizationValid(aa) ==
    /\ aa # Malformed
    /\ aa.random1 = session.random1
    /\ session.mode # Absent /\ aa.scheme = session.mode
    /\ aa.serverid = ServerId
    /\ aa.deviceid # Absent => aa.deviceid = DeviceId
    /\ Cert # Absent
    /\ VerifyMessage(Cert, SignAuthPayload(aa.random1, aa.random2, aa.serverid), aa.sign1)

NeverRetransmission(m) == FALSE

(* The Authorization answered last, byte for byte.                           *)
IsRetransmission(m) == m.authz = session.last_auth

VerifyRepeats(w, m) ==
    /\ IsAuthorization(m) /\ job[w] = NoJob
    /\ IsRetransmission(m)
    /\ Answer(m, 200, session.last_info)
    /\ UNCHANGED <<configured, device, session, job, drawn, outcome, settled>>

VerifyRejects(w, m) ==
    /\ IsAuthorization(m) /\ job[w] = NoJob
    /\ ~IsRetransmission(m) /\ ~AuthorizationValid(ParseAuthorization(m.authz))
    /\ Answer(m, 403, NoHeader)
    /\ UNCHANGED <<configured, device, session, job, drawn, outcome, settled>>

(* A VKEK is drawn, sealed to the device and, for Bidirection, signed.       *)
SecurityInfoFor(aa, vkek) ==
    LET crypt_key == EncryptVkek(Cert, vkek)
        sign2     == SignMessage(ServerId,
                                 Sign2Payload(aa.random1, aa.random2, DeviceId, crypt_key))
    IN  BuildSecurityInfo(aa.scheme, aa, crypt_key, sign2)

VerifyBegins(w, m) ==
    /\ IsAuthorization(m) /\ job[w] = NoJob
    /\ LET aa == ParseAuthorization(m.authz)
           vkek == drawn.vkek + 1
       IN  /\ ~IsRetransmission(m) /\ AuthorizationValid(aa)
           /\ vkek \in Key
           /\ drawn' = [drawn EXCEPT !.vkek = vkek]
           /\ job' = [job EXCEPT ![w] = [authz |-> m.authz, cseq |-> m.cseq, vkek |-> vkek,
                                         info |-> SecurityInfoFor(aa, vkek)]]
    /\ settled' = FALSE
    /\ UNCHANGED <<configured, device, session, wire, outcome>>

VerifyCommits(w) ==
    /\ job[w] # NoJob
    /\ session' = [session EXCEPT !.vkek = job[w].vkek, !.last_auth = job[w].authz,
                                  !.last_info = job[w].info]
    /\ job' = [job EXCEPT ![w] = NoJob]
    /\ Answer(job[w], 200, job[w].info)
    /\ UNCHANGED <<configured, device, drawn, outcome, settled>>

-------------------------------------------------------------------------------
(* Requests with a Note, both ways; From, To, Call-ID, Date and body are one *)
(* value.  A request and its check are one step: delay is not modelled.      *)

(* decorate_outgoing: no key, no Note.                                       *)
SealedNote(request, vkek) ==
    IF vkek = Absent THEN NoHeader ELSE BuildNote(request, "date", vkek)

(* verify_note and verify_incoming_note: a request without a Note passes.    *)
NoteVerifies(note, request, vkek) ==
    note = NoHeader \/ (vkek # Absent /\ VerifyNoteHeader(note, request, "date", vkek))

(* The keepalive task runs beside the exchanges, with the key of the moment. *)
Keepalive ==
    /\ device.keepalive
    /\ outcome' = IF NoteVerifies(SealedNote("keepalive", device.vkek), "keepalive", session.vkek)
                  THEN "served" ELSE "refused"
    /\ UNCHANGED <<configured, device, session, job, wire, drawn, settled>>

(* verify_incoming_note: a Note that does not verify, or whose Date is       *)
(* malformed or not fresh, is an error.                                      *)
IncomingNoteVerifies(note, fresh) ==
    note = NoHeader \/ (NoteVerifies(note, "request", device.vkek) /\ fresh)

AllowIncomingNote(note, fresh) ==
    IncomingNotePolicy = "reject" => IncomingNoteVerifies(note, fresh)

(* A request that is not allowed is answered with 403; one that arrives      *)
(* during an exchange is read and dropped.                                   *)
PlatformRequest(fresh) ==
    /\ session.vkek # Absent /\ ~Waiting
    /\ outcome' = IF AllowIncomingNote(SealedNote("request", session.vkek), fresh)
                  THEN "served" ELSE "refused"
    /\ UNCHANGED <<configured, device, session, job, wire, drawn, settled>>

-------------------------------------------------------------------------------
DeviceReceives(m) ==
    \/ Challenged(m)
    \/ AcceptedWithoutChallenge(m)
    \/ Accepted(m)

PlatformReceives(m) ==
    \/ Challenge(m)
    \/ \E w \in Workers : VerifyRepeats(w, m) \/ VerifyRejects(w, m) \/ VerifyBegins(w, m)

Next ==
    \/ StartExchange
    \/ ExchangeFails
    \/ Restart
    \/ Keepalive
    \/ \E fresh \in BOOLEAN : PlatformRequest(fresh)
    \/ \E w \in Workers : VerifyCommits(w)
    \/ \E m \in wire : DeviceReceives(m) \/ PlatformReceives(m)

Spec == Init /\ [][Next]_vars

-------------------------------------------------------------------------------
(* Properties.                                                             *)

(* A device whose 200 verified holds the platform's key, for as long as it   *)
(* stays registered: no late, repeated or overtaken message of an earlier    *)
(* exchange changes the platform's key behind its back.  (A restart lets the *)
(* device reuse CSeqs and answer an old challenge: see OwnHandshakeKey.)     *)
RegisteredAgree ==
    (device.phase = "registered" /\ device.restarts = 0) =>
        /\ device.vkek # Absent
        /\ device.vkek = session.vkek

(* authenticator.rs: "The echoed handshake fields must match this handshake  *)
(* exactly": under Bidirection the device, restarted or not, never takes a   *)
(* key out of an exchange other than its own.                                *)
OwnHandshakeKey ==
    (configured = "Bidirection" /\ device.phase = "registered") =>
        \E m \in wire :
            /\ m.kind = "response" /\ m.status = 200
            /\ Param(m.header, "cryptkey").vkek = device.vkek
            /\ Param(m.answers, "random2") = device.random2
            /\ Param(m.answers, "random1") = device.random1

(* platform.rs: "A byte-identical retransmission of the completed REGISTER   *)
(* returns the same SecurityInfo": one Authorization is never answered with  *)
(* two keys.  (Only a restarted device answers one challenge twice, and the  *)
(* platform remembers the last answer only.)                                 *)
OneKeyPerRegister ==
    device.restarts = 0 => \A m, n \in wire :
        (m.kind = "response" /\ n.kind = "response" /\ m.status = 200 /\ n.status = 200
            /\ m.answers = n.answers) => m.header = n.header

(* platform.rs: "An already-negotiated VKEK stays active while the device    *)
(* re-registers": from the 200 the device verified to the next VKEK drawn,   *)
(* through challenges, failed exchanges and repeated REGISTERs, the notes of *)
(* both sides verify.                                                        *)
NotesVerify ==
    [][ (Keepalive \/ PlatformRequest(TRUE)) /\ settled /\ device.restarts = 0
          => outcome' = "served" ]_vars

===============================================================================
