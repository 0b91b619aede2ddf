----------------------- MODULE ExportedAuthenticator -----------------------
(***************************************************************************)
(* Exported authenticators: pkg/atls/ea/authenticator.go with its          *)
(* exporters, signature schemes, policies and session, and the attestation *)
(* payload of pkg/atls/eaattestation.  EAWire shows that an encoding reads *)
(* back as what was encoded and that accepted bytes are the encoding of    *)
(* what they read as, so messages are records here; a hash, a MAC or a     *)
(* signature is the tuple of what goes into it.                            *)
(***************************************************************************)
EXTENDS Evidence

CONSTANTS
    NoRequest,      \* a spontaneous authenticator answers no request
    NoSchemes,      \* a request without a readable signature_algorithms extension
    NoPolicy,       \* no policy for spontaneous authenticators
    NoKey,          \* an identity without a private key
    NoSession,      \* no ea.Session: contexts are not remembered
    NoVerifier,     \* no verifier for this part of a payload
    Unreadable,     \* an authenticator, or extension data, with a length that does not fit
    NoPayload,      \* no attestation payload
    RandomContext   \* the context NewRandomContext draws for a spontaneous authenticator
-----------------------------------------------------------------------------
(* The secrets a connection exports. *)

authenticatorHash(conn) ==
    CASE conn.suite \in {"AES_128_GCM_SHA256", "CHACHA20_POLY1305_SHA256"} -> "SHA256"
      [] conn.suite = "AES_256_GCM_SHA384" -> "SHA384"
      [] OTHER -> "unknown"

exporterError(conn) == FirstError(<< <<conn.version # "TLS1.3", "not_tls13">>,
                                     <<authenticatorHash(conn) = "unknown", "unknown_cipher_suite">> >>)

ExportHandshakeContext(conn, role) == <<"handshake context", role, conn.id>>

ExportFinishedKey(conn, role) == <<"finished key", role, conn.id>>

ExportAttestationValue(conn, context) == <<"Attestation", context, conn.id>>
-----------------------------------------------------------------------------
(* Signatures.  A scheme fits a private key only on its own curve; a       *)
(* signature is verified with any curve.                                   *)

schemeKeys == [ecdsa_p256 |-> {"P-256", "P-384"}, pss_sha256 |-> {"RSA"}, ed25519 |-> {"Ed25519"}]

signatureSchemeInfo(scheme) == IF scheme \in DOMAIN schemeKeys THEN schemeKeys[scheme] ELSE {}

fits(key, scheme) == key.type \in signatureSchemeInfo(scheme) \ {"P-384"}

NoScheme == ""

\* The scheme that signs, NoScheme when none does.
chooseSignatureScheme(key, offered) ==
    IF offered # <<>>
    THEN LET able == {i \in DOMAIN offered : fits(key, offered[i])}
         IN IF able = {} THEN NoScheme ELSE offered[CHOOSE i \in able : \A j \in able : i <= j]
    ELSE CASE key.type = "P-256" -> "ecdsa_p256"
           [] key.type = "RSA" -> "pss_sha256"
           [] key.type = "Ed25519" -> "ed25519"
           [] OTHER -> NoScheme

signCertVerify(key, scheme, transcript) == <<key.name, scheme, "Exported Authenticator", transcript>>

verifyCertVerify(key, scheme, transcript, signature) ==
    FirstError(<< <<key.type \notin signatureSchemeInfo(scheme), "unsupported_signature_scheme">>,
                  <<signature # signCertVerify(key, scheme, transcript), "signature_mismatch">> >>)

\* Mutant of hashConcat: only the last chunk is hashed.
hashLast(conn, chunks) == [hash |-> authenticatorHash(conn), of |-> chunks[Len(chunks)]]

hashConcat(conn, chunks) == [hash |-> authenticatorHash(conn), of |-> chunks]

hmacSum(key, transcript) == [key |-> key, over |-> transcript]

\* What is hashed up to the certificate: without a request there is nothing in its place.
chunksUpTo(cert, conn, role, req) ==
    IF req = NoRequest THEN <<ExportHandshakeContext(conn, role), cert>>
    ELSE <<ExportHandshakeContext(conn, role), req, cert>>
-----------------------------------------------------------------------------
(* What a request or a policy permits, and the session's contexts. *)

RequestPermitsCertificateExtension(req, type) == \E i \in DOMAIN req.extensions : req.extensions[i] = type

PolicyPermitsCertificateExtension(policy, type) == policy # NoPolicy /\ type \in policy.extensions

policyPermitsSignatureScheme(policy, scheme) ==
    policy = NoPolicy \/ policy.schemes = {} \/ scheme \in policy.schemes

validateCertificateEntryExtensions(exts, req, policy) ==
    \A i \in DOMAIN exts :
        IF req # NoRequest THEN RequestPermitsCertificateExtension(req, exts[i].type)
        ELSE PolicyPermitsCertificateExtension(policy, exts[i].type)

\* Mutant of MarkContextUsed: a context is remembered and not looked up.
MarkContext(used, context) == [err |-> nil, used |-> IF used = NoSession THEN NoSession ELSE used \cup {context}]

MarkContextUsed(used, context) ==
    IF used = NoSession THEN [err |-> nil, used |-> NoSession]
    ELSE IF context \in used THEN [err |-> "context_reuse", used |-> used]
    ELSE [err |-> nil, used |-> used \cup {context}]

requestError(req) ==
    IF req = NoRequest THEN nil
    ELSE FirstError(<< <<req.type \notin {"certificate_request", "client_certificate_request"}, "unsupported_type">>,
                       <<req.schemes = NoSchemes, "bad_request">> >>)
-----------------------------------------------------------------------------
(* Creating an authenticator. *)

Refusal(err, used) == [err |-> err, auth |-> NoPayload, used |-> used]

\* What is made of auth once the context is marked; an error before that leaves the session as it is.
Marked(err, used, context, auth) ==
    LET marked == MarkContextUsed(used, context)
    IN IF err # nil THEN Refusal(err, used)
       ELSE [err |-> marked.err, used |-> marked.used, auth |-> IF marked.err = nil THEN auth ELSE NoPayload]

createError(conn, role, req, policy, identity, exts) ==
    LET empty == identity.certs = <<>> /\ identity.key = NoKey
        half == (identity.certs = <<>>) # (identity.key = NoKey)
        scheme == chooseSignatureScheme(identity.key, IF req = NoRequest THEN <<>> ELSE req.schemes)
    IN IF conn.version # "TLS1.3" THEN "not_tls13"
       ELSE IF req = NoRequest /\ role # "server" THEN "invalid_role"
       ELSE IF ~validateCertificateEntryExtensions(exts, req, policy) \/ half THEN "bad_request"
       ELSE OrElse(requestError(req), OrElse(exporterError(conn),
            IF empty THEN IF req = NoRequest THEN "bad_request" ELSE nil
            ELSE IF scheme = NoScheme \/ (req = NoRequest /\ ~policyPermitsSignatureScheme(policy, scheme))
            THEN "unsupported_signature_scheme"
            ELSE nil))

createAuthenticator(used, conn, role, req, policy, identity, exts) ==
    LET context == IF req = NoRequest THEN RandomContext ELSE req.context
        entries == [i \in DOMAIN identity.certs |-> [cert |-> identity.certs[i], extensions |-> IF i = 1 THEN exts ELSE <<>>]]
        cert == [context |-> context, entries |-> entries]
        scheme == chooseSignatureScheme(identity.key, IF req = NoRequest THEN <<>> ELSE req.schemes)
        chunks == chunksUpTo(cert, conn, role, req)
        th1 == hashConcat(conn, chunks)
        cv == [algorithm |-> scheme, signature |-> signCertVerify(identity.key, scheme, th1)]
        key == ExportFinishedKey(conn, role)
    IN Marked(createError(conn, role, req, policy, identity, exts), used, context,
              IF identity.certs = <<>> THEN [kind |-> "finished", finished |-> hmacSum(key, th1)]
              ELSE [kind |-> "certificate", cert |-> cert, certVerify |-> cv,
                    finished |-> hmacSum(key, hashConcat(conn, Append(chunks, cv)))])
-----------------------------------------------------------------------------
(* The attestation payload of the leaf entry. *)

BindingValue(key, exported) == <<key.name, exported>>

\* What evidence must be bound to: the report data and the nonce derived from the binding.
EvidenceBinding(conn, context, leaf) ==
    [reportData |-> <<"sha512", BindingValue(leaf.key, ExportAttestationValue(conn, context))>>,
     nonce |-> <<"sha256", ExportAttestationValue(conn, context)>>]

validatePayload(p) == FirstError(<< <<~p.json, "malformed_payload">>,
                                    <<p.evidence = NoReport /\ p.results = NoReport, "missing_statement">>,
                                    <<p.aikPubHash = NoKey \/ p.binding = NoKey, "missing_binder">> >>)

verifyBinderValues(conn, context, leaf, p) ==
    FirstError(<< <<p.aikPubHash # leaf.key.name, "aik_pub_hash_mismatch">>,
                  <<p.binding # BindingValue(leaf.key, ExportAttestationValue(conn, context)), "binding_mismatch">> >>)

RequiresAttestation(verifiers) == verifiers.evidence # NoVerifier \/ verifiers.results # NoVerifier

VerifyPayload(conn, context, leaf, p, verifiers) ==
    LET expected == EvidenceBinding(conn, context, leaf)
    IN OrElse(validatePayload(p),
       IF p.exporterLabel \notin {"", "Attestation"} THEN "unexpected_exporter_label"
       ELSE OrElse(verifyBinderValues(conn, context, leaf, p),
            IF p.evidence # NoReport /\ verifiers.evidence = NoVerifier THEN "evidence_verification_missing"
            ELSE IF p.evidence # NoReport /\ VerifyEvidence(verifiers.evidence, p.evidence, expected) # nil THEN "evidence"
            ELSE IF p.results # NoReport /\ verifiers.results = NoVerifier THEN "results_verification_missing"
            ELSE IF p.results # NoReport /\ p.results # expected THEN "results"
            ELSE nil))
-----------------------------------------------------------------------------
(* Validating an authenticator. *)

CMW == "cmw_attestation"

carriesCMW(entry) == \E i \in DOMAIN entry.extensions : entry.extensions[i].type = CMW

\* The payload of the first attestation extension of the leaf.
ExtractCMWAttestation(entry) ==
    IF ~carriesCMW(entry) THEN NoPayload
    ELSE LET at == {i \in DOMAIN entry.extensions : entry.extensions[i].type = CMW}
         IN entry.extensions[CHOOSE i \in at : \A j \in at : i <= j].data

ValidateCMWAttestationPlacement(entries) == \A i \in DOMAIN entries : carriesCMW(entries[i]) => i = 1

\* The certificates verify from the leaf: a root of the pool issued the last one that is needed, and the others are
\* the intermediates, which join the pool of the options.
chainVerifies(certs, roots, intermediates) ==
    LET known == intermediates \cup {certs[i] : i \in 2..Len(certs)}
    IN \/ certs[1].issuer \in roots
       \/ \E c \in known : c.name = certs[1].issuer /\ c.issuer \in roots

entriesError(entries, req, policy) ==
    FirstError(<< <<entries = <<>>, "unsupported_type">>,
                  <<~ValidateCMWAttestationPlacement(entries), "bad_request">>,
                  <<\E i \in DOMAIN entries : ~validateCertificateEntryExtensions(entries[i].extensions, req, policy), "bad_request">>,
                  <<entries # <<>> /\ ExtractCMWAttestation(entries[1]) = Unreadable, "invalid_length">> >>)

\* The signature over the transcript up to the certificate and the MAC over all of it.
proofError(conn, role, req, auth) ==
    LET leaf == auth.cert.entries[1].cert
        chunks == chunksUpTo(auth.cert, conn, role, req)
        cv == auth.certVerify
    IN IF req # NoRequest /\ (\A i \in DOMAIN req.schemes : req.schemes[i] # cv.algorithm) THEN "unsupported_signature_scheme"
       ELSE OrElse(verifyCertVerify(leaf.key, cv.algorithm, hashConcat(conn, chunks), cv.signature),
                   IF auth.finished # hmacSum(ExportFinishedKey(conn, role), hashConcat(conn, Append(chunks, cv))) THEN "finished_mismatch" ELSE nil)

\* An authenticator that is a Finished message alone: the peer declines to authenticate.
validateEmpty(used, conn, role, req, auth) ==
    LET th == hashConcat(conn, chunksUpTo([context |-> req.context, entries |-> <<>>], conn, role, req))
    IN IF req = NoRequest THEN Refusal("unsupported_type", used)
       ELSE Marked(IF auth.finished # hmacSum(ExportFinishedKey(conn, role), th) THEN "finished_mismatch" ELSE nil,
                   used, req.context, [empty |-> TRUE, context |-> req.context, attested |-> FALSE])

\* The attestation in the leaf, or its absence.
attestationError(conn, auth, verifiers) ==
    LET leaf == auth.cert.entries[1]
        payload == ExtractCMWAttestation(leaf)
    IN IF payload # NoPayload THEN VerifyPayload(conn, auth.cert.context, leaf.cert, payload, verifiers)
       ELSE IF RequiresAttestation(verifiers) THEN "missing_attestation"
       ELSE nil

\* Everything about the messages that is looked at before the context is marked.
messagesError(conn, role, req, policy, auth, roots) ==
    LET entries == auth.cert.entries
    IN IF req # NoRequest /\ auth.cert.context # req.context THEN "context_mismatch"
       ELSE OrElse(entriesError(entries, req, policy), OrElse(proofError(conn, role, req, auth),
            IF roots # {} /\ ~chainVerifies([i \in DOMAIN entries |-> entries[i].cert], roots, {}) THEN "unknown_authority" ELSE nil))

\* A refused attestation leaves the context used.
withAttestation(marked, err) == IF marked.err # nil \/ err = nil THEN marked ELSE Refusal(err, marked.used)

\* The context is marked before the attestation is looked at: a refused attestation uses it up.
validateFull(used, conn, role, req, policy, verifiers, auth, roots) ==
    withAttestation(Marked(messagesError(conn, role, req, policy, auth, roots), used, auth.cert.context,
                           [empty |-> FALSE, context |-> auth.cert.context,
                            attested |-> ExtractCMWAttestation(auth.cert.entries[1]) # NoPayload]),
                    attestationError(conn, auth, verifiers))

validateAuthenticator(used, conn, role, req, policy, verifiers, auth, roots) ==
    LET unread == OrElse(exporterError(conn), OrElse(requestError(req), IF auth = Unreadable THEN "truncated" ELSE nil))
    IN IF unread # nil THEN Refusal(unread, used)
       ELSE IF auth.kind = "finished" THEN validateEmpty(used, conn, role, req, auth)
       ELSE validateFull(used, conn, role, req, policy, verifiers, auth, roots)
=============================================================================
