---------------------------- MODULE MCTransport ----------------------------
(***************************************************************************)
(* Attested transport for TLC.  The variable part picks what a behaviour   *)
(* is about: the connections ("transport"), or one of four questions, in   *)
(* which something is made first and then read:                            *)
(*   "wire"      a message, and bytes like its encoding;                   *)
(*   "evidence"  a verifier's expectation, and a token;                    *)
(*   "ea"        an authenticator, and what a peer validates it against;   *)
(*   "launch"    how a VM is configured, or how a policy is made for it,   *)
(*               and a measurement.                                        *)
(***************************************************************************)
EXTENDS EAWire, AttestedTransport, LaunchPolicy, TLC

CONSTANTS Nothing, Rtmr

VARIABLES part, given, shown

mcTransportVars == <<transportVars, part, given, shown>>
-----------------------------------------------------------------------------
(* Messages around every limit of the length fields, and what may arrive. *)

Bytes(n) == [i \in 1..n |-> i % Base]

Ext(type, n) == [type |-> type, data |-> Bytes(n)]

ExtensionLists == {<<>>, <<Ext(7, 0)>>, <<Ext(8, 1), Ext(7, 2)>>}
FullExtensionLists == {<<Ext(7, 31)>>, <<Ext(7, 32)>>, <<Ext(7, 36)>>, <<Ext(7, 14), Ext(8, 13)>>, <<Ext(7, 14), Ext(8, 14)>>}

EntryLists == {<<>>, <<[cert |-> Bytes(1), extensions |-> <<>>]>>, <<[cert |-> <<>>, extensions |-> <<>>]>>,
               <<[cert |-> Bytes(2), extensions |-> <<Ext(7, 1)>>], [cert |-> Bytes(1), extensions |-> <<>>]>>,
               <<[cert |-> Bytes(1), extensions |-> <<Ext(7, 14), Ext(8, 14)>>]>>}
              \cup {<<[cert |-> Bytes(n), extensions |-> <<>>]>> : n \in {206, 207, 216}}

MCParsableOIDs == {<<1>>, <<1, 2>>}

Messages(kind) ==
    CASE kind = "handshake" -> {[type |-> t, body |-> Bytes(n)] : t \in {0, 3}, n \in {0, 2, 215, 216}}
      [] kind = "extensions" -> ExtensionLists \cup FullExtensionLists
      [] kind = "request" -> {[type |-> t, context |-> Bytes(n), extensions |-> e] :
                                t \in {CertificateRequest, ClientCertificateRequest, Finished}, n \in {0, 2, 5, 6},
                                e \in ExtensionLists \cup FullExtensionLists}
      [] kind = "certificate" -> {[context |-> Bytes(n), entries |-> e] : n \in {0, 5, 6}, e \in EntryLists}
      [] kind = "verify" -> {[algorithm |-> a, signature |-> Bytes(n)] : a \in {1, 35}, n \in {0, 2, 35, 36}}
      [] kind = "finished" -> {[verifyData |-> Bytes(n)] : n \in {0, 1, 32, 215, 216}}
      [] kind = "frame" -> {[type |-> t, payload |-> Bytes(n)] : t \in {1, 2}, n \in {0, 3, MaxFramePayloadLen, MaxFramePayloadLen + 1}}
      [] kind = "schemes" -> {[i \in 1..n |-> i] : n \in {0, 1, 2, 17, 18}}
      [] kind = "cmw" -> {Bytes(n) : n \in {0, 1, 33, 34}}
      [] kind = "authorities" -> {<<Bytes(1)>>, <<Bytes(2), Bytes(1)>>}
      [] kind = "filters" -> {<<>>, <<[oid |-> <<1>>, values |-> <<>>]>>,
                              <<[oid |-> <<1, 2>>, values |-> Bytes(2)], [oid |-> <<1>>, values |-> Bytes(1)]>>}

Kinds == {"handshake", "extensions", "request", "certificate", "verify", "finished", "frame", "schemes", "cmw",
          "authorities", "filters"}

\* A vector of vectors: the code only reads these two extensions.
Vector(items) == putUint(Len(items), 2) \o items

RECURSIVE Joined(_)
Joined(items) == IF items = <<>> THEN <<>> ELSE Head(items) \o Joined(Tail(items))

encode(kind, m) ==
    CASE kind = "handshake" -> MarshalHandshakeMessage(m)
      [] kind = "extensions" -> MarshalExtensions(m)
      [] kind = "request" -> MarshalRequest(m)
      [] kind = "certificate" -> MarshalCertificate(m)
      [] kind = "verify" -> MarshalCertificateVerify(m)
      [] kind = "finished" -> MarshalFinished(m)
      [] kind = "frame" -> writeFrame(m.type, m.payload)
      [] kind = "schemes" -> marshalSignatureSchemesExtension(SignatureAlgorithms, m).data
      [] kind = "cmw" -> CMWAttestationDataExtension(m).data
      [] kind = "authorities" -> Vector(Joined([i \in DOMAIN m |-> Vector(m[i])]))
      [] kind = "filters" -> Vector(Joined([i \in DOMAIN m |-> <<Len(m[i].oid)>> \o m[i].oid \o Vector(m[i].values)]))

\* The extension is found among others, and before another of its type.
Among(type, b) == <<Ext(9, 1), [type |-> type, data |-> b], [type |-> type, data |-> Bytes(3)]>>

decode(kind, b) ==
    CASE kind = "handshake" -> UnmarshalHandshakeMessage(b)
      [] kind = "extensions" -> UnmarshalExtensions(b)
      [] kind = "request" -> UnmarshalAuthenticatorRequest(b)
      [] kind = "certificate" -> UnmarshalCertificateMessage(b)
      [] kind = "verify" -> UnmarshalCertificateVerifyMessage(b)
      [] kind = "finished" -> UnmarshalFinishedMessage(b)
      [] kind = "frame" -> readFrame(b)
      [] kind = "schemes" -> parseSignatureSchemesExtension(Among(SignatureAlgorithms, b), SignatureAlgorithms)
      [] kind = "cmw" -> ExtractCMWAttestationFromExtensions(Among(CMWAttestation, b))
      [] kind = "authorities" -> CertificateAuthorities(Among(CertificateAuthoritiesType, b))
      [] kind = "filters" -> OIDFilters(Among(OIDFiltersType, b))

\* The encoding, with a byte after it, cut short, or with one byte changed.
Arrivals(b) ==
    LET near == {i \in DOMAIN b : i <= 14 \/ i > Len(b) - 2}
    IN {b, Append(b, 1)} \cup {SubSeq(b, 1, i - 1) : i \in near}
       \cup {[b EXCEPT ![i] = v] : i \in near, v \in {0, 1, 2, Base - 1}}
-----------------------------------------------------------------------------
(* Tokens of every machine, for this binding and another. *)

Bindings == {[reportData |-> d, nonce |-> d] : d \in {"now", "earlier"}}
Now == CHOOSE b \in Bindings : b.nonce = "now"

MCMachine(devices, useAgent, agentUp, certificates, parses, format) ==
    [devices |-> devices, useAgent |-> useAgent, agentUp |-> agentUp, certificates |-> certificates,
     parses |-> parses, format |-> format]

Machines == {MCMachine(d, u, a, c, p, f) :
               d \in {{"sev"}, {"tpm", "sev"}, {"tdx"}, {"tpm", "azure"}, {"tpm"}, {}},
               u, a, c, p \in BOOLEAN, f \in {"CBOR", "JWT"}}

Reports(m, b) == {binaryReport(m, startService(m), t, b.reportData, b.nonce) : t \in {"SNP", "TDX", "VTPM", "SNPvTPM", "UNSPECIFIED"}}
                 \ {NoReport}

Running == {m \in Machines : startService(m) # "exit"}

MadeFor(b) == UNION {Reports(m, b) : m \in Running}

Reference1(digest) == [kind |-> "reference", valid |-> TRUE, digests |-> {digest}]

ManifestPolicies == {[file |-> f, items |-> i] : f \in {"unset", "missing", "signed"},
                      i \in {<<>>, <<Reference1(Launch)>>, <<[kind |-> "other"], Reference1("another"), Reference1(Launch)>>,
                             <<[kind |-> "bad"], Reference1(Launch)>>,
                             <<[kind |-> "reference", valid |-> FALSE, digests |-> {Launch}], Reference1(Launch)>>}}

Tokens == {[format |-> f, claims |-> NewEATClaims(r, n, p)] :
             f \in {"CBOR", "JWT"}, n \in {b.nonce : b \in Bindings}, p \in DOMAIN getPlatformTypeName,
             r \in UNION {MadeFor(b) : b \in Bindings}}

MCServerMachine == MCMachine({"tpm", "sev"}, FALSE, FALSE, TRUE, TRUE, "CBOR")
MCReference == [file |-> "signed", items |-> <<Reference1(Launch)>>]
-----------------------------------------------------------------------------
(* Authenticators, and what they are validated against. *)

Conns == {[id |-> i, version |-> "TLS1.3", suite |-> s] : i \in {"c1", "c2"}, s \in {"AES_128_GCM_SHA256"}}
         \cup {[id |-> "c1", version |-> "TLS1.2", suite |-> "AES_128_GCM_SHA256"], [id |-> "c1", version |-> "TLS1.3", suite |-> "other"]}

Keys == {[name |-> "k", type |-> t] : t \in {"P-256", "P-384", "RSA"}}

Identities == {[certs |-> <<[name |-> "leaf", key |-> k, issuer |-> "root"]>>, key |-> k] : k \in Keys}
              \cup {[certs |-> <<[name |-> "leaf", key |-> k, issuer |-> "ca"]>> \o rest, key |-> k] :
                       k \in Keys, rest \in {<<>>, <<[name |-> "ca", key |-> [name |-> "ca key", type |-> "RSA"], issuer |-> "root"]>>}}
              \cup {[certs |-> <<>>, key |-> NoKey]}

Requests == {[type |-> t, context |-> x, extensions |-> e, schemes |-> s] :
               t \in {"certificate_request", "client_certificate_request"}, x \in {"x", "y"},
               e \in {<<"signature_algorithms">>, <<"signature_algorithms", CMW>>},
               s \in {<<"ecdsa_p256">>, <<"pss_sha256", "ecdsa_p256">>}}
            \cup {NoRequest}

MCPolicies == {NoPolicy, [extensions |-> {CMW}, schemes |-> {}], [extensions |-> {CMW}, schemes |-> {"pss_sha256"}]}

\* The extensions a server adds: none, or an attestation for the connection, request and leaf at hand.
MCExtensions(conn, req, identity) ==
    {<<>>} \cup IF req = NoRequest \/ identity.certs = <<>> THEN {} ELSE {BuildLeafExtensions(conn, req, identity.certs[1])}

EaQuestions ==
    UNION {{[conn |-> c, role |-> r, req |-> q, policy |-> p, identity |-> i, exts |-> x] : x \in MCExtensions(c, q, i)} :
             c \in Conns, r \in {"server", "client"}, q \in Requests, p \in MCPolicies, i \in Identities}

Made(g) == createAuthenticator(NoSession, g.conn, g.role, g.req, g.policy, g.identity, g.exts)

\* A policy is for authenticators that answer no request.
Answerable == {g \in EaQuestions : (g.req = NoRequest \/ g.policy = NoPolicy) /\ Made(g).err = ""}

Checks == {[conn |-> c, role |-> r, req |-> q, verifiers |-> v, roots |-> {"root"}] :
             c \in {d \in Conns : d.suite # "other" /\ d.version = "TLS1.3"}, r \in {"server", "client"}, q \in Requests,
             v \in {[evidence |-> e, results |-> NoVerifier] : e \in {NoVerifier, MCReference}}}

Checked(g, s) == validateAuthenticator({}, s.conn, s.role, s.req, g.policy, s.verifiers, Made(g).auth, s.roots)
-----------------------------------------------------------------------------
(* Hosts and their settings, what a policy is made of, and Azure tokens. *)

Texts == {Empty, Garbled, Hex(Launch), [kind |-> "upper", of |-> Launch], [kind |-> "spaced", of |-> Launch]}

Configs == {[kind |-> "config", enableHostData |-> e, hostData |-> t,
             host |-> [module |-> m, cpuinfo |-> c, kernelParam |-> k]] :
              e \in BOOLEAN, t \in Texts, m \in {"kvm_amd", "kvm_intel"}, c \in SUBSET {"sev_snp", "tdx_host_platform"}, k \in {"Y", "N"}}

\* Options of the commands; none of them uses all.
PolicyOptions == {[kind |-> c, measurement |-> m, rtmrs |-> r, mrSeam |-> s, svn |-> v, key |-> k, vcpus |-> n, keeps |-> b] :
                    c \in {"snp", "tdx", "gcp"}, m \in {Empty, Garbled, Hex(Launch)}, r \in {<<>>, <<Hex(OtherBytes)>>, <<Garbled>>},
                    s \in {Empty, Hex(OtherBytes)}, v \in {0, 1}, k \in {"none", "ec", "rsa", "unreadable"}, n \in {2, 8}, b \in BOOLEAN}

Bucket == (Launch :> (2 :> Launch @@ 4 :> OtherBytes))

PolicyOf(g) ==
    CASE g.kind = "snp" -> NewCreateCoRIMSNPCmd(g.measurement, g.svn, g.key, g.keeps)
      [] g.kind = "tdx" -> NewCreateCoRIMTDXCmd(g.measurement, g.rtmrs, g.mrSeam, g.key, g.keeps)
      [] g.kind = "gcp" -> NewCreateCoRIMGCPCmd(Bucket, Launch, g.vcpus, g.key, g.keeps)

\* What it was made of: the values given, or the defaults.  A garbled text has no value.
ValuesOf(g) ==
    LET valueOf(text) == IF text = Garbled THEN {} ELSE {text.of}
        or(text, default) == IF text = Empty THEN {default} ELSE valueOf(text)
    IN CASE g.kind = "snp" -> or(g.measurement, ZeroDigest)
         [] g.kind = "tdx" -> or(g.measurement, MrTd) \cup or(g.mrSeam, MrSeam)
                              \cup IF g.rtmrs = <<>> THEN Rtmrs ELSE UNION {valueOf(g.rtmrs[i]) : i \in DOMAIN g.rtmrs}
         [] g.kind = "gcp" -> {Bucket[Launch][g.vcpus]}

\* Hosts publish keys: two of Microsoft, one of the operator.
MCKeySets == ("maa1" :> ("kid" :> "maa1 key")) @@ ("maa2" :> ("kid" :> "maa2 key")) @@ ("own" :> ("kid" :> "own key"))

AzureTokens == {[kind |-> "azure", jku |-> j, kid |-> i, alg |-> a, signer |-> s, maa |-> m,
                 tee |-> [measurement |-> t, hasSVN |-> v, svn |-> 1]] :
                  j \in {[kind |-> u, scheme |-> c, clean |-> TRUE, path |-> p, host |-> h, official |-> h \in {"maa1", "maa2"}] :
                            u \in {"url", "none"}, c \in {"http", "https"}, p \in {"/certs", "/"}, h \in {"maa1", "maa2", "own", "none"}},
                  i \in {"kid", "other", ""}, a \in {"RS256", "none"}, s \in {"maa1 key", "maa2 key", "own key"},
                  m \in {"", "maa1", "own"}, t \in {Empty, Hex(Launch)}, v \in BOOLEAN}

\* A VM that a policy is fetched for.
Managed(g) == ("vm" :> NewConfig(g.host, g))
-----------------------------------------------------------------------------
\* The clients are alike, and the middlebox has one connection of its own: it is enough to let it take part in one
\* fixed client's connection, and without it to count the watched contexts.
OneOfEach ==
    LET first == CHOOSE c \in TransportClients : TRUE
    IN /\ \A c \in TransportClients \ {first} : peer[c] = "server"
       /\ peer[first] = "server" => (watched # {} => first \in watched)

MCTransportInit ==
    /\ TransportInit
    /\ OneOfEach
    /\ part \in {"transport", "wire", "evidence", "ea", "launch"}
    /\ part # "transport" => ~fixed /\ watched = {} /\ \A c \in TransportClients : peer[c] = "server"
    /\ shown = Nothing
    /\ given \in CASE part = "transport" -> {Nothing}
                   [] part = "wire" -> UNION {{[kind |-> k, message |-> m] : m \in Messages(k)} : k \in Kinds}
                   [] part = "evidence" -> ManifestPolicies
                   [] part = "ea" -> Answerable
                   [] part = "launch" -> Configs \cup PolicyOptions \cup AzureTokens

TransportPart(A) == part = "transport" /\ A /\ UNCHANGED <<part, given, shown>>

Show ==
    /\ part # "transport" /\ shown = Nothing
    /\ shown' \in CASE part = "wire" -> IF encode(given.kind, given.message) = Refused THEN {} ELSE Arrivals(encode(given.kind, given.message))
                    [] part = "evidence" -> Tokens
                    [] part = "ea" -> Checks
                    [] part = "launch" -> IF given.kind \in {"snp", "tdx", "gcp"} THEN {Launch, OtherBytes, ZeroDigest, MrTd, MrSeam, Rtmr} ELSE {}
    /\ UNCHANGED <<transportVars, part, given>>

MCTransportNext == TransportPart(TransportNext) \/ Show

\* The goroutines of a dial and the server's loop go on when they can.
TransportFairness ==
    /\ WF_mcTransportVars(TransportPart(ServerStep))
    /\ \A c \in TransportClients :
          /\ WF_mcTransportVars(TransportPart(ClientStep(c)))
          /\ WF_mcTransportVars(TransportPart(WatcherSelects(c) \/ WatcherFires(c)))

MCTransportSpec == MCTransportInit /\ [][MCTransportNext]_mcTransportVars /\ TransportFairness
-----------------------------------------------------------------------------
\* Of the ea Marshal and Unmarshal functions, writeFrame and readFrame: a message that is encoded at all reads back
\* as itself, up to the limits of the length fields, and bytes after it are left over or refused.
EncodingRoundTrips ==
    part = "wire" /\ shown # Nothing =>
        \A tail \in {<<>>, <<1>>}, read \in {decode(given.kind, shown)} :
            shown = encode(given.kind, given.message) \o tail =>
                IF read.err = "" THEN read.value = given.message /\ read.rest = tail ELSE tail # <<>>

\* Of the ea Unmarshal functions and readFrame: bytes that are accepted are the encoding of what they read as, followed
\* by what is left over.  Two different byte strings never read as one message, so a transcript hash over the bytes that
\* were received is a hash over the message.
AcceptedBytesAreCanonical ==
    part = "wire" /\ shown # Nothing =>
        \A read \in {decode(given.kind, shown)} :
            read.err = "" => encode(given.kind, read.value) \o read.rest = shown

\* Property (ea Marshal and Unmarshal functions, frames): messages and bytes correspond one to one, at and beyond the limits
\* of nested length fields and with bytes left over.
EncodingIsOneToOne == EncodingRoundTrips /\ AcceptedBytesAreCanonical

\* Of VerifyEvidence (evidence_verifier.go): evidence that is accepted was produced for this binding, and its
\* measurement is a reference value of the manifest, also when a token with the expected nonce carries an older report.
AcceptedEvidenceIsFresh ==
    part = "evidence" /\ shown # Nothing =>
        (VerifyEvidence(given, shown, Now) = "" =>
            /\ shown.claims.report \in MadeFor(Now)
            /\ \E i \in DOMAIN given.items : given.items[i].kind = "reference" /\ Launch \in given.items[i].digests)

\* Of vtpm.go Attest and verifySNPvTPMReportData (evidence_verifier.go): the verifier accepts what the service of an
\* SNP machine with a vTPM produces, when the manifest has its measurement.
SnpVtpmEvidenceVerifies ==
    part = "evidence" /\ given = MCReference =>
        \A m \in Running :
            \A fetched \in {GetAttestation(m, Now.reportData, Now.nonce, CCPlatform(m.devices))} :
               CCPlatform(m.devices) = "SNPvTPM" /\ ~m.useAgent /\ fetched.err = "" /\ m.format = "CBOR" => VerifyEvidence(given, fetched.token, Now) = ""

\* Of validateAuthenticator (authenticator.go): an authenticator that is accepted was made on this connection, for
\* this role and in answer to exactly this request; with a verifier of evidence, one with certificates carries
\* attestation.
AcceptedAuthenticatorIsForUs ==
    part = "ea" /\ shown # Nothing =>
        \A checked \in {Checked(given, shown)} :
           checked.err = "" =>
              /\ shown.conn = given.conn /\ shown.role = given.role /\ shown.req = given.req
              /\ ~checked.auth.empty /\ RequiresAttestation(shown.verifiers) => checked.auth.attested
              /\ checked.auth.attested => given.exts # <<>>

\* Of createAuthenticator and validateAuthenticator (authenticator.go): whatever one side creates the other side
\* accepts on the same connection, for the same request, if a root issued the chain and attestation is there exactly when
\* it is verified.
HonestAuthenticatorIsAccepted ==
    part = "ea" /\ shown # Nothing =>
        (/\ shown.conn = given.conn /\ shown.role = given.role /\ shown.req = given.req
         /\ (given.exts # <<>>) = RequiresAttestation(shown.verifiers)
         /\ given.identity.certs # <<>> => given.identity.certs[1].issuer = "root" \/ Len(given.identity.certs) = 2
         => Checked(given, shown).err = "")

\* Property (authenticator.go createAuthenticator, validateAuthenticator): an authenticator counts on the connection, in the
\* role and for the request it was made for, there it does count, and nowhere else.
AuthenticatorIsForUs == AcceptedAuthenticatorIsForUs /\ HonestAuthenticatorIsAccepted

\* Of FetchRawEvidence (fetch_raw_evidence.go): the raw evidence of a platform is the report that a token for it
\* carries, and the sample that a token may carry on a machine without a TEE is never handed out as raw evidence.
RawEvidenceIsAttested ==
    part = "evidence" /\ given = MCReference =>
        \A m \in Running, platform \in DOMAIN getPlatformTypeName :
            \A raw \in {GetRawEvidence(m, Now.reportData, Now.nonce, platform)},
               fetched \in {GetAttestation(m, Now.reportData, Now.nonce, platform)} :
               raw.err = "" =>
                  /\ raw.report.form # "sample"
                  /\ protoPlatform(platform) # "UNSPECIFIED" /\ fetched.err = "" => fetched.token.claims.report = raw.report

\* Property (evidence_verifier.go VerifyEvidence, vtpm.go Attest, fetch_raw_evidence.go FetchRawEvidence): only evidence made
\* for this challenge is accepted, that of an SNP machine is, and a report is the same however it is fetched.
EvidenceIsBound == AcceptedEvidenceIsFresh /\ SnpVtpmEvidenceVerifies /\ RawEvidenceIsAttested

\* Of ValidateSecurity, ConstructQemuArgsChecked (qemu/security.go, config.go) and ValidateContract (security.go): a VM that
\* is launched at all is the kind of guest the host can run, and if host data is switched on, its report meets a contract
\* on exactly that host data, in whichever way it was written.
LaunchedAsConfigured ==
    part = "launch" /\ given.kind = "config" =>
        LET vm == NewConfig(given.host, given)
            launched == ConstructQemuArgsChecked(vm)
            guest == Guest(launched.args)
            meets(text) == ValidateContract([requireHostData |-> TRUE, hostData |-> text, requireKernelHashes |-> FALSE],
                                            [hostData |-> guest.hostData, kernelHashes |-> FALSE]) = ""
        IN launched.err = "" =>
              /\ guest.kind = IF vm.snp THEN "snp" ELSE IF vm.tdx THEN "tdx" ELSE "plain"
              /\ vm.enableHostData => meets(given.hostData) /\ ~meets(Hex(OtherBytes))

\* Of GenerateCoRIM (corimgen), cli attestation_policy_corim.go and VerifyWithCoRIM (vtpm.go): the verifier accepts by a
\* policy that was made exactly the measurements it was made of, those given or else the defaults, if the library keeps
\* them, and none otherwise.
PolicyAcceptsExactlyItsValues ==
    part = "launch" /\ shown # Nothing =>
        \A made \in {PolicyOf(given)} :
           made.err = "" => ((matchCoRIM(made.items, shown, FALSE) = "") <=> (given.keeps /\ shown \in ValuesOf(given)))

\* Of validateToken and validateJKU (azure/snp.go): a policy is made from an Azure token only if a key of the configured
\* service, or without one of a service of Microsoft, has signed the token.
MeasurementHasTrustedSource ==
    part = "launch" /\ given.kind = "azure" =>
        LET trusted == IF given.maa = "" THEN {"maa1", "maa2"} ELSE {given.maa}
        IN NewCreateCoRIMAzureCmd(given, given.maa, MCKeySets, "none", TRUE).err = "" =>
              \E h \in trusted : given.kid \in DOMAIN MCKeySets[h] /\ given.signer = MCKeySets[h][given.kid]

\* Property (qemu/config.go, security.go, corimgen GenerateCoRIM, azure/snp.go validateToken): a guest that runs is the one
\* that was configured, and a policy that exists accepts exactly the measurements given for it by a source that is trusted.
PolicyFitsItsGuest == LaunchedAsConfigured /\ PolicyAcceptsExactlyItsValues /\ MeasurementHasTrustedSource

\* Property (cli/CORIM_GENERATION.md, "For SNP: Calculates IGVM measurement using the `igvmmeasure` binary"): a policy that
\* the manager makes for an SNP VM accepts the measurement of the IGVM file the VM is launched with.
FetchedPolicyFitsVM ==
    part = "launch" /\ given.kind = "config" /\ NewConfig(given.host, given).snp =>
        LET fetched == FetchAttestationPolicy(Managed(given), "vm", "works", Launch, "none", TRUE)
        IN fetched.err = "" => matchCoRIM(fetched.items, Launch, FALSE) = ""
=============================================================================
