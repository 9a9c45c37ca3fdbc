---------------------------- MODULE SecurityHeaders ----------------------------
(***************************************************************************)
(* The header values of the GB 35114 A-level handshake, the octets that    *)
(* are signed, sealed and digested (src/src/security35114/headers.rs,      *)
(* crypto.rs, integrity.rs).                                               *)
(*                                                                         *)
(* A header value is its scheme and the function from the parameters it    *)
(* carries to their values.  Cryptography is symbolic: a signature is its  *)
(* signer and the octets signed, an envelope its addressee and the key     *)
(* inside, a digest the octets digested.                                   *)
(***************************************************************************)
EXTENDS Naturals, Sequences

CONSTANTS
    Absent,        \* the empty string: what param() returns for a missing key
    DeviceId, ServerId,
    Sign2R2First   \* Sign2Order::R2R1

Schemes == {"Unidirection", "Bidirection"}
Malformed == [scheme |-> "malformed"]
NoHeader  == [scheme |-> "none", params |-> [p \in {} |-> Absent]]

(* First match of the key, the empty string without one. *)
Param(h, p) == IF p \in DOMAIN h.params THEN h.params[p] ELSE Absent

HasAll(h, wanted) == \A p \in wanted : Param(h, p) # Absent

-------------------------------------------------------------------------------
(* Signatures, envelopes, digests.                                         *)

SignAuthPayload(random1, random2, server) == <<random2, random1, server>>

Sign2Payload(random1, random2, device, crypt_key) ==
    IF Sign2R2First THEN <<random2, random1, device, crypt_key>>
                    ELSE <<random1, random2, device, crypt_key>>

SignMessage(signer, payload) == [signer |-> signer, over |-> payload]
VerifyMessage(signer, payload, signature) == signature = SignMessage(signer, payload)

EncryptVkek(owner, vkek) == [owner |-> owner, vkek |-> vkek]
Opens(owner, envelope)   == envelope.owner = owner

(* method, From, To, Call-ID, Date, VKEK, body. *)
DigestPayload(request, date, vkek) == <<request, date, vkek>>
BuildNote(request, date, vkek) == [nonce |-> DigestPayload(request, date, vkek)]
VerifyNoteHeader(note, request, date, vkek) ==
    note.nonce = DigestPayload(request, date, vkek)

-------------------------------------------------------------------------------
(* Capability announcement.                                                *)

BuildCapability(cert) ==
    [scheme |-> "Capability",
     params |-> IF cert = Absent THEN [p \in {"algorithm"} |-> "A"]
                ELSE [p \in {"algorithm", "cnonce"} |-> IF p = "cnonce" THEN cert ELSE "A"]]

(* A failed parse announces nothing. *)
AnnouncedCert(h) == IF h.scheme = "Capability" THEN Param(h, "cnonce") ELSE Absent

-------------------------------------------------------------------------------
(* 401.                                                                    *)

BuildChallenge(mode, random1) ==
    [scheme |-> mode, params |-> [p \in {"random1"} |-> random1]]

ParseChallenge(h) ==
    IF h.scheme \in Schemes /\ HasAll(h, {"random1"})
    THEN [scheme |-> h.scheme, random1 |-> Param(h, "random1")]
    ELSE Malformed

-------------------------------------------------------------------------------
(* Authorization of the second REGISTER: only Bidirection names the device. *)

AuthFields == {"random1", "random2", "serverid", "deviceid", "sign1"}

BuildAuthorization(ch, random2, sign1) ==
    LET all == [random1 |-> ch.random1, random2 |-> random2, serverid |-> ServerId,
                deviceid |-> DeviceId, sign1 |-> sign1]
        sent == IF ch.scheme = "Bidirection" THEN AuthFields ELSE AuthFields \ {"deviceid"}
    IN  [scheme |-> ch.scheme, params |-> [p \in sent |-> all[p]]]

ParseAuthorization(h) ==
    IF /\ h.scheme \in Schemes
       /\ HasAll(h, AuthFields \ {"deviceid"})
       /\ h.scheme = "Bidirection" => HasAll(h, {"deviceid"})
    THEN [scheme |-> h.scheme, random1 |-> Param(h, "random1"),
          random2 |-> Param(h, "random2"), serverid |-> Param(h, "serverid"),
          deviceid |-> Param(h, "deviceid"), sign1 |-> Param(h, "sign1")]
    ELSE Malformed

-------------------------------------------------------------------------------
(* SecurityInfo of the 200: Unidirection carries the envelope alone.       *)

InfoFields == {"random1", "random2", "deviceid", "serverid", "cryptkey", "sign2"}

BuildSecurityInfo(mode, aa, crypt_key, sign2) ==
    LET all == [random1 |-> aa.random1, random2 |-> aa.random2, deviceid |-> DeviceId,
                serverid |-> ServerId, cryptkey |-> crypt_key, sign2 |-> sign2]
        sent == IF mode = "Bidirection" THEN InfoFields ELSE {"cryptkey"}
    IN  [scheme |-> mode, params |-> [p \in sent |-> all[p]]]

ParseSecurityInfo(h) ==
    IF /\ h.scheme \in Schemes
       /\ HasAll(h, {"cryptkey"})
       /\ h.scheme = "Bidirection" => HasAll(h, InfoFields)
    THEN [scheme |-> h.scheme, random1 |-> Param(h, "random1"),
          random2 |-> Param(h, "random2"), serverid |-> Param(h, "serverid"),
          deviceid |-> Param(h, "deviceid"), cryptkey |-> Param(h, "cryptkey"),
          sign2 |-> Param(h, "sign2")]
    ELSE Malformed
===============================================================================
