------------------------------- MODULE EAWire -------------------------------
(***************************************************************************)
(* The encodings of pkg/atls/ea and of the frames they travel in           *)
(* (pkg/atls/internal_transport/protocol.go).  A byte is a digit below     *)
(* Base instead of 256, so that the limits of the one, two and three byte  *)
(* length fields are within reach; everything else is as in the code.      *)
(***************************************************************************)
EXTENDS Integers, Sequences

LOCAL INSTANCE SequencesExt

CONSTANTS
    Base,                   \* 256 in the code
    Certificate, CertificateRequest, CertificateVerify, ClientCertificateRequest, Finished,
    SignatureAlgorithms,    \* type of the signature_algorithms extension
    CMWAttestation,         \* type of the cmw_attestation extension
    CertificateAuthoritiesType,
    OIDFiltersType,
    ParsableOIDs,           \* the byte strings asn1.Unmarshal takes for an object identifier
    MaxFramePayloadLen

ASSUME WireAssumption ==
    /\ Base \in Nat \ {0, 1}
    /\ {Certificate, CertificateRequest, CertificateVerify, ClientCertificateRequest, Finished} \subseteq 1..(Base - 1)
    /\ MaxFramePayloadLen \in 1..(Base^4 - 1)

MaxUint8 == Base - 1
MaxUint16 == Base^2 - 1
MaxUint24 == Base^3 - 1

putUint(n, width) == [i \in 1..width |-> (n \div Base^(width - i)) % Base]

readUint(b) == FoldLeft(LAMBDA n, digit : n * Base + digit, 0, b)

\* A message that Marshal refuses to encode; no encoding is empty.
Refused == <<>>

Read(value, rest) == [err |-> "", value |-> value, rest |-> rest]
Unread(err) == [err |-> err, value |-> <<>>, rest |-> <<>>]

\* What was read goes on to the next reader; an error ends the reading.
Then(read, next(_)) == IF read.err # "" THEN read ELSE next(read)

From(b, i) == SubSeq(b, i, Len(b))
-----------------------------------------------------------------------------
(* Handshake messages and extension vectors. *)

MarshalHandshakeMessage(m) ==
    IF Len(m.body) > MaxUint24 THEN Refused ELSE <<m.type>> \o putUint(Len(m.body), 3) \o m.body

UnmarshalHandshakeMessage(b) ==
    IF Len(b) < 4 THEN Unread("truncated")
    ELSE LET n == readUint(SubSeq(b, 2, 4))
         IN IF Len(b) < 4 + n THEN Unread("truncated")
            ELSE Read([type |-> b[1], body |-> SubSeq(b, 5, 4 + n)], From(b, 5 + n))

extensionBytes(e) == putUint(e.type, 2) \o putUint(Len(e.data), 2) \o e.data

MarshalExtensions(exts) ==
    LET payload == FlattenSeq([i \in DOMAIN exts |-> extensionBytes(exts[i])])
    IN IF (\E i \in DOMAIN exts : Len(exts[i].data) > MaxUint16) \/ Len(payload) > MaxUint16
       THEN Refused ELSE putUint(Len(payload), 2) \o payload

RECURSIVE extensionsOf(_, _)
extensionsOf(payload, exts) ==
    IF payload = <<>> THEN Read(exts, <<>>)
    ELSE IF Len(payload) < 4 THEN Unread("truncated")
    ELSE LET l == readUint(SubSeq(payload, 3, 4))
         IN IF l > Len(payload) - 4 THEN Unread("invalid_length")
            ELSE extensionsOf(From(payload, 5 + l),
                              Append(exts, [type |-> readUint(SubSeq(payload, 1, 2)), data |-> SubSeq(payload, 5, 4 + l)]))

UnmarshalExtensions(b) ==
    IF Len(b) < 2 THEN Unread("truncated")
    ELSE LET total == readUint(SubSeq(b, 1, 2))
         IN IF Len(b) < 2 + total THEN Unread("truncated")
            ELSE Then(extensionsOf(SubSeq(b, 3, 2 + total), <<>>), LAMBDA exts : Read(exts.value, From(b, 3 + total)))
-----------------------------------------------------------------------------
(* The authenticator request. *)

requestTypes == {CertificateRequest, ClientCertificateRequest}

MarshalRequest(r) ==
    LET extVec == MarshalExtensions(r.extensions)
    IN IF r.type \notin requestTypes \/ Len(r.context) > MaxUint8 \/ extVec = Refused THEN Refused
       ELSE MarshalHandshakeMessage([type |-> r.type, body |-> <<Len(r.context)>> \o r.context \o extVec])

requestOf(hm, context, exts) == Read([type |-> hm.value.type, context |-> context, extensions |-> exts.value], hm.rest)

\* Mutant of requestBody: what follows the extensions is ignored.
requestPrefix(hm, body) ==
    IF body = <<>> \/ Len(body) < 1 + body[1] THEN Unread("truncated")
    ELSE Then(UnmarshalExtensions(From(body, 2 + body[1])), LAMBDA exts : requestOf(hm, SubSeq(body, 2, 1 + body[1]), exts))

requestBody(hm, body) ==
    IF body = <<>> \/ Len(body) < 1 + body[1] THEN Unread("truncated")
    ELSE Then(UnmarshalExtensions(From(body, 2 + body[1])),
              LAMBDA exts : IF exts.rest # <<>> THEN Unread("invalid_length") ELSE requestOf(hm, SubSeq(body, 2, 1 + body[1]), exts))

UnmarshalAuthenticatorRequest(b) ==
    Then(UnmarshalHandshakeMessage(b),
         LAMBDA hm : IF hm.value.type \notin requestTypes THEN Unread("unsupported_type") ELSE requestBody(hm, hm.value.body))
-----------------------------------------------------------------------------
(* The vectors inside extensions: the data of the first extension of the  *)
(* type, taken apart by Items.                                             *)

dataOf(exts, type) ==
    LET found == {i \in DOMAIN exts : exts[i].type = type}
    IN IF found = {} THEN <<>> ELSE exts[CHOOSE i \in found : \A j \in found : i <= j].data

\* A two byte length that covers the rest of the data exactly.
exactVector(data, least) ==
    Len(data) >= 2 /\ readUint(SubSeq(data, 1, 2)) >= least /\ Len(data) = 2 + readUint(SubSeq(data, 1, 2))

marshalSignatureSchemesExtension(type, schemes) ==
    IF schemes = <<>> \/ Len(schemes) > MaxUint16 \div 2 THEN [type |-> type, data |-> Refused]
    ELSE [type |-> type,
          data |-> putUint(2 * Len(schemes), 2) \o FlattenSeq([i \in DOMAIN schemes |-> putUint(schemes[i], 2)])]

parseSignatureSchemesExtension(exts, type) ==
    LET data == dataOf(exts, type)
    IN IF ~exactVector(data, 2) \/ (Len(data) % 2) # 0 THEN Unread("none")
       ELSE Read([i \in 1..((Len(data) - 2) \div 2) |-> readUint(SubSeq(data, 2 * i + 1, 2 * i + 2))], <<>>)

RECURSIVE authoritiesOf(_, _)
authoritiesOf(b, names) ==
    IF b = <<>> THEN Read(names, <<>>)
    ELSE IF Len(b) < 2 THEN Unread("none")
    ELSE LET l == readUint(SubSeq(b, 1, 2))
         IN IF l = 0 \/ l > Len(b) - 2 THEN Unread("none")
            ELSE authoritiesOf(From(b, 3 + l), Append(names, SubSeq(b, 3, 2 + l)))

CertificateAuthorities(exts) ==
    LET data == dataOf(exts, CertificateAuthoritiesType)
    IN IF exactVector(data, 3) THEN authoritiesOf(From(data, 3), <<>>) ELSE Unread("none")

RECURSIVE filtersOf(_, _)
filtersOf(b, filters) ==
    IF b = <<>> THEN Read(filters, <<>>)
    ELSE LET n == b[1]
         IN IF n = 0 \/ n > Len(b) - 1 THEN Unread("none")
            ELSE IF SubSeq(b, 2, 1 + n) \notin ParsableOIDs \/ Len(b) < 3 + n THEN Unread("none")
            ELSE LET v == readUint(SubSeq(b, 2 + n, 3 + n))
                 IN IF v > Len(b) - 3 - n THEN Unread("none")
                    ELSE filtersOf(From(b, 4 + n + v),
                                   Append(filters, [oid |-> SubSeq(b, 2, 1 + n), values |-> SubSeq(b, 4 + n, 3 + n + v)]))

OIDFilters(exts) ==
    LET data == dataOf(exts, OIDFiltersType)
    IN IF exactVector(data, 0) THEN filtersOf(From(data, 3), <<>>) ELSE Unread("none")

CMWAttestationDataExtension(cmw) ==
    [type |-> CMWAttestation,
     data |-> IF cmw = <<>> \/ Len(cmw) + 2 > MaxUint16 THEN Refused ELSE putUint(Len(cmw), 2) \o cmw]

ExtractCMWAttestationFromExtensions(exts) ==
    LET data == dataOf(exts, CMWAttestation)
    IN IF \A i \in DOMAIN exts : exts[i].type # CMWAttestation THEN Unread("absent")
       ELSE IF exactVector(data, 1) THEN Read(From(data, 3), <<>>) ELSE Unread("invalid_length")
-----------------------------------------------------------------------------
(* The three messages of an authenticator. *)

entryBytes(e) == putUint(Len(e.cert), 3) \o e.cert \o MarshalExtensions(e.extensions)

MarshalCertificate(m) ==
    LET list == FlattenSeq([i \in DOMAIN m.entries |-> entryBytes(m.entries[i])])
    IN IF \/ Len(m.context) > MaxUint8
          \/ \E i \in DOMAIN m.entries : \/ m.entries[i].cert = <<>> \/ Len(m.entries[i].cert) > MaxUint24
                                         \/ MarshalExtensions(m.entries[i].extensions) = Refused
       THEN Refused
       ELSE MarshalHandshakeMessage([type |-> Certificate,
                                     body |-> <<Len(m.context)>> \o m.context \o putUint(Len(list), 3) \o list])

RECURSIVE entriesOf(_, _)
entriesOf(list, entries) ==
    IF list = <<>> THEN Read(entries, <<>>)
    ELSE IF Len(list) < 3 THEN Unread("truncated")
    ELSE LET n == readUint(SubSeq(list, 1, 3))
         IN IF n = 0 \/ n > Len(list) - 3 THEN Unread("invalid_length")
            ELSE Then(UnmarshalExtensions(From(list, 4 + n)),
                      LAMBDA exts : entriesOf(exts.rest, Append(entries, [cert |-> SubSeq(list, 4, 3 + n), extensions |-> exts.value])))

\* A message that must be alone in its bytes and of the given type.
wholeMessage(b, type) ==
    Then(UnmarshalHandshakeMessage(b),
         LAMBDA hm : IF hm.rest # <<>> \/ hm.value.type # type THEN Unread("invalid_length") ELSE hm)

certificateBody(body) ==
    LET c == body[1]
        list == From(body, 5 + c)
    IN IF body = <<>> \/ Len(body) < 4 + c THEN Unread("truncated")
       ELSE IF Len(list) # readUint(SubSeq(body, 2 + c, 4 + c)) THEN Unread("invalid_length")
       ELSE Then(entriesOf(list, <<>>),
                 LAMBDA entries : Read([context |-> SubSeq(body, 2, 1 + c), entries |-> entries.value], <<>>))

UnmarshalCertificateMessage(b) == Then(wholeMessage(b, Certificate), LAMBDA hm : certificateBody(hm.value.body))

MarshalCertificateVerify(m) ==
    IF Len(m.signature) > MaxUint16 THEN Refused
    ELSE MarshalHandshakeMessage([type |-> CertificateVerify,
                                  body |-> putUint(m.algorithm, 2) \o putUint(Len(m.signature), 2) \o m.signature])

certificateVerifyBody(body) ==
    IF Len(body) < 4 THEN Unread("truncated")
    ELSE IF Len(body) # 4 + readUint(SubSeq(body, 3, 4)) THEN Unread("invalid_length")
    ELSE Read([algorithm |-> readUint(SubSeq(body, 1, 2)), signature |-> From(body, 5)], <<>>)

UnmarshalCertificateVerifyMessage(b) == Then(wholeMessage(b, CertificateVerify), LAMBDA hm : certificateVerifyBody(hm.value.body))

MarshalFinished(m) ==
    IF m.verifyData = <<>> THEN Refused ELSE MarshalHandshakeMessage([type |-> Finished, body |-> m.verifyData])

UnmarshalFinishedMessage(b) ==
    Then(wholeMessage(b, Finished),
         LAMBDA hm : IF hm.value.body = <<>> THEN Unread("invalid_length") ELSE Read([verifyData |-> hm.value.body], <<>>))
-----------------------------------------------------------------------------
(* Frames on the connection.  A connection that ends inside a frame gives  *)
(* an error, never a shorter payload.                                      *)

writeFrame(type, payload) ==
    IF Len(payload) > MaxFramePayloadLen THEN Refused ELSE <<type>> \o putUint(Len(payload), 4) \o payload

readFrame(stream) ==
    IF Len(stream) < 5 THEN Unread("eof")
    ELSE LET n == readUint(SubSeq(stream, 2, 5))
         IN IF stream[1] = 0 THEN Unread("invalid_frame_type")
            ELSE IF n > MaxFramePayloadLen THEN Unread("too_large")
            ELSE IF Len(stream) < 5 + n THEN Unread("eof")
            ELSE Read([type |-> stream[1], payload |-> SubSeq(stream, 6, 5 + n)], From(stream, 6 + n))
=============================================================================
