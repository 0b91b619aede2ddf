------------------------------ MODULE Evidence ------------------------------
(***************************************************************************)
(* Attestation evidence from the platform's device to the peer's policy:   *)
(* the attestation service (cmd/attestation-service), its providers        *)
(* (pkg/attestation/{vtpm,tdx,azure,ccaa}, EmptyProvider), the EAT it       *)
(* wraps a report in (pkg/attestation/eat), the client that asks for one,   *)
(* and the verifier of the aTLS client (pkg/atls/evidence_verifier.go).    *)
(* A report is a record tagged with its format; hashes and device answers  *)
(* are symbolic.                                                           *)
(***************************************************************************)
EXTENDS Integers, Sequences, FiniteSets

CONSTANTS
    Launch,         \* the measurement the devices of this machine report
    NoReport,       \* a provider that answers with an error
    NoTee,          \* a vTPM report without an embedded TEE report
    OtherBytes      \* bytes of a report that are none of the named fields

nil == ""    \* the error of what went well

FirstError(checks) ==
    LET bad == {i \in DOMAIN checks : checks[i][1]}
    IN IF bad = {} THEN nil ELSE checks[CHOOSE i \in bad : \A j \in bad : i <= j][2]

\* An error is returned at once; without one the function goes on.
OrElse(err, next) == IF err # nil THEN err ELSE next
-----------------------------------------------------------------------------
(* Which platform this is and which provider answers for it. *)

CCPlatform(devices) ==
    IF {"tpm", "sev"} \subseteq devices THEN "SNPvTPM"
    ELSE IF "sev" \in devices THEN "SNP"
    ELSE IF "tdx" \in devices THEN "TDX"
    ELSE IF {"tpm", "azure"} \subseteq devices THEN "Azure"
    ELSE "NoCC"

directProvider == [SNP |-> "vtpm", SNPvTPM |-> "vtpm+tee", Azure |-> "azure", TDX |-> "tdx", NoCC |-> "empty"]

\* The provider the service starts with, "exit" when it does not start.
startService(machine) ==
    LET platform == CCPlatform(machine.devices)
    IN IF platform = "NoCC" /\ machine.useAgent /\ ~machine.agentUp THEN "exit"
       ELSE IF platform \in {"SNP", "SNPvTPM"} /\ ~machine.certificates THEN "exit"
       ELSE IF machine.useAgent /\ machine.agentUp THEN "ccaa"
       ELSE directProvider[platform]
-----------------------------------------------------------------------------
(* The reports of the devices. *)

SevSnp(data) == [form |-> "sevsnp", reportData |-> data, measurement |-> Launch]

fetchSEVAttestation(machine, data) == IF "sev" \in machine.devices THEN SevSnp(data) ELSE NoReport

FetchQuote(machine, nonce) ==
    IF "tpm" \in machine.devices THEN [form |-> "attest", quoted |-> nonce, akPub |-> "ak", tee |-> NoTee] ELSE NoReport

\* The attestation compiled into the binary: the bare structure of a device, not an encoding of it.
EmbeddedAttestation == [form |-> "raw"]

RawQuote(machine, data) ==
    IF "tdx" \in machine.devices THEN [form |-> "quote", reportData |-> data, measurement |-> Launch] ELSE NoReport

AgentEvidence(runtimeData) == [form |-> "agent", runtimeData |-> runtimeData]

addTEEAttestation(machine, report, data) ==
    LET tee == fetchSEVAttestation(machine, <<"sha3", data, report.akPub>>)
    IN IF tee = NoReport THEN NoReport ELSE [report EXCEPT !.tee = tee]

Attest(machine, provider, data, nonce) ==
    LET report == FetchQuote(machine, nonce)
    IN IF report = NoReport \/ provider # "vtpm+tee" THEN report ELSE addTEEAttestation(machine, report, data)

TeeAttestation(machine, provider, data) ==
    CASE provider \in {"vtpm", "vtpm+tee"} -> fetchSEVAttestation(machine, data)
      [] provider = "tdx" -> RawQuote(machine, data)
      [] provider = "ccaa" -> AgentEvidence(<<data>>)
      [] provider \in {"azure", "empty"} -> NoReport

VTpmAttestation(machine, provider, nonce) ==
    CASE provider \in {"vtpm", "vtpm+tee", "azure"} -> FetchQuote(machine, nonce)
      [] provider = "empty" -> EmbeddedAttestation
      [] provider = "ccaa" -> AgentEvidence(<<nonce>>)
      [] provider = "tdx" -> NoReport

Attestation(machine, provider, data, nonce) ==
    CASE provider \in {"vtpm", "vtpm+tee"} -> Attest(machine, provider, data, nonce)
      [] provider \in {"tdx", "empty"} -> TeeAttestation(machine, provider, data)
      [] provider = "ccaa" -> AgentEvidence(<<data, nonce>>)
      [] provider = "azure" -> NoReport
-----------------------------------------------------------------------------
(* The token. *)

\* The SNP claims are taken from the first bytes of the report as if it were the bare structure of the device.  The
\* providers send other encodings of it, on which that parser may or may not fail.
extractSNPClaims(machine, report) == report.form = "raw" \/ machine.parses

extractTDXClaims(report) == report.form = "quote"

\* A slice of the first bytes, which every report of a provider has.
extractVTPMClaims(report) == report # NoReport
extractAzureClaims(report) == report # NoReport

extractPlatformClaims(machine, report, platform) ==
    CASE platform \in {"SNP", "SNPvTPM"} -> extractSNPClaims(machine, report)
      [] platform = "TDX" -> extractTDXClaims(report)
      [] platform = "VTPM" -> extractVTPMClaims(report)
      [] platform = "Azure" -> extractAzureClaims(report)
      [] platform = "NoCC" -> TRUE

getPlatformTypeName == [SNP |-> "SNP", TDX |-> "TDX", VTPM |-> "vTPM", SNPvTPM |-> "SNP-vTPM", Azure |-> "Azure", NoCC |-> "NoCC"]

NewEATClaims(report, nonce, platform) == [nonce |-> nonce, platform |-> getPlatformTypeName[platform], report |-> report]

EncodeToJWT(claims) == [format |-> "JWT", claims |-> claims]

EncodeToCBOR(claims) == [format |-> "CBOR", claims |-> claims]

\* The platform type the client puts on the wire, and the name the service's reply carries.
protoPlatform(platform) == IF platform \in {"SNP", "TDX", "VTPM", "SNPvTPM"} THEN platform ELSE "UNSPECIFIED"

convertPlatformType(type) == IF type = "UNSPECIFIED" THEN "NoCC" ELSE type

binaryReport(machine, provider, type, data, nonce) ==
    CASE type \in {"SNP", "TDX"} -> TeeAttestation(machine, provider, data)
      [] type = "VTPM" -> VTpmAttestation(machine, provider, nonce)
      [] type = "SNPvTPM" -> Attestation(machine, provider, data, nonce)
      [] type = "UNSPECIFIED" -> [form |-> "sample", reportData |-> data, quoted |-> nonce]

\* The service's reply with the report of its provider.
reply(machine, provider, report, nonce, platform) ==
    LET claims == NewEATClaims(report, nonce, platform)
    IN [err |-> FirstError(<< <<provider = "exit", "unavailable">>,
                              <<report = NoReport, "no_report">>,
                              <<report # NoReport /\ ~extractPlatformClaims(machine, report, platform), "unreadable_report">>,
                              <<machine.format \notin {"JWT", "CBOR"}, "unsupported_format">> >>),
        token |-> IF machine.format = "JWT" THEN EncodeToJWT(claims) ELSE EncodeToCBOR(claims)]

FetchAttestation(machine, type, data, nonce) ==
    reply(machine, startService(machine), binaryReport(machine, startService(machine), type, data, nonce), nonce,
          convertPlatformType(type))

GetAttestation(machine, data, nonce, platform) == FetchAttestation(machine, protoPlatform(platform), data, nonce)

\* The report alone, for a key broker; without a platform it is whatever the provider takes for TEE evidence.
rawReport(machine, provider, type, data, nonce) ==
    IF type = "UNSPECIFIED" THEN TeeAttestation(machine, provider, data) ELSE binaryReport(machine, provider, type, data, nonce)

FetchRawEvidence(machine, type, data, nonce) ==
    LET report == rawReport(machine, startService(machine), type, data, nonce)
    IN IF startService(machine) = "exit" THEN [err |-> "unavailable", report |-> NoReport]
       ELSE [err |-> IF report = NoReport THEN "no_report" ELSE nil, report |-> report]

GetRawEvidence(machine, data, nonce, platform) == FetchRawEvidence(machine, protoPlatform(platform), data, nonce)

-----------------------------------------------------------------------------
(* The verifier. *)

\* The verifier of the transport has no key for the token, and reads it as CBOR whatever it is.
decodeCBOR(token) == token.format = "CBOR"

\* A report decoded as a vTPM attestation, and as a bare SNP attestation.
asAttestation(report) == report.form = "attest"
asSevSnp(report) == report.form = "sevsnp"

\* Where the fields of a version 4 quote are: the header has 48 bytes, the body follows it.
QuoteFields == [reportData |-> <<568, 632>>, measurement |-> <<184, 232>>]

quoteBytes(report, from, to) ==
    IF <<from, to>> = QuoteFields.reportData THEN report.reportData
    ELSE IF <<from, to>> = QuoteFields.measurement THEN report.measurement
    ELSE OtherBytes

verifyTDXReportData(report, expected) ==
    IF report.form = "quote" /\ quoteBytes(report, 520, 584) = expected THEN nil ELSE "report_data"

compareSNPReportData(snp, expected) ==
    IF snp = NoTee \/ snp.reportData # expected THEN "report_data" ELSE nil

verifySNPReportData(report, expected) ==
    IF asAttestation(report) /\ report.tee # NoTee THEN compareSNPReportData(report.tee, expected)
    ELSE IF asSevSnp(report) THEN compareSNPReportData(report, expected)
    ELSE "unparsable"

verifySNPvTPMReportData(report, expected) ==
    IF ~asAttestation(report) THEN "unparsable"
    ELSE compareSNPReportData(report.tee, <<"sha3", expected, report.akPub>>)

verifyVTPMNonce(report, expected) ==
    IF asAttestation(report) /\ report.quoted = expected THEN nil ELSE "nonce"

\* Mutant of verifyEvidenceBinding: only the nonce in the claims ties a vTPM report to the session.
bindingByClaims(platform, report, expected) ==
    CASE platform = "TDX" -> verifyTDXReportData(report, expected.reportData)
      [] platform \in {"SNP", "Azure"} -> verifySNPReportData(report, expected.reportData)
      [] platform \in {"SNPvTPM", "VTPM"} -> IF asAttestation(report) THEN nil ELSE "unparsable"
      [] platform = "NoCC" -> "unsupported_platform"

verifyEvidenceBinding(platform, report, expected) ==
    CASE platform = "TDX" -> verifyTDXReportData(report, expected.reportData)
      [] platform \in {"SNP", "Azure"} -> verifySNPReportData(report, expected.reportData)
      [] platform = "SNPvTPM" -> FirstError(<< <<verifyVTPMNonce(report, expected.nonce) # nil, "nonce">>,
                                               <<verifySNPvTPMReportData(report, expected.reportData) # nil, "report_data">> >>)
      [] platform = "VTPM" -> verifyVTPMNonce(report, expected.nonce)
      [] platform = "NoCC" -> "unsupported_platform"

\* The reference values of a manifest's tags, in order.  An item is "other" (a tag that is no CoMID, passed over),
\* "bad" (a CoMID that cannot be read) or a "reference" with its digests, which may be invalid.  The first item that
\* decides does.
matchCoRIM(items, measurement, skipInvalid) ==
    LET invalid(x) == x.kind = "reference" /\ ~x.valid
        stops(x) == x.kind = "bad" \/ (invalid(x) /\ ~skipInvalid)
        matches(x) == x.kind = "reference" /\ x.valid /\ measurement \in x.digests
        deciding == {i \in DOMAIN items : stops(items[i]) \/ matches(items[i])}
    IN IF deciding = {} THEN "no_reference_value"
       ELSE IF stops(items[CHOOSE i \in deciding : \A j \in deciding : i <= j]) THEN "bad_manifest"
       ELSE nil

carriesTee(report) == asAttestation(report) /\ report.tee # NoTee

vtpmVerifyWithCoRIM(report, items) ==
    IF carriesTee(report) THEN matchCoRIM(items, report.tee.measurement, FALSE) ELSE "no_measurement"

azureVerifyWithCoRIM(report, items) ==
    IF carriesTee(report) THEN matchCoRIM(items, report.tee.measurement, TRUE) ELSE "no_measurement"

tdxVerifyWithCoRIM(report, items) ==
    IF report.form = "quote" THEN matchCoRIM(items, quoteBytes(report, 112, 160), FALSE) ELSE "no_measurement"

platformTypeFromClaims(name) ==
    CASE name = "SNP" -> "SNP" [] name = "TDX" -> "TDX" [] name = "vTPM" -> "VTPM" [] name = "SNP-vTPM" -> "SNPvTPM"
      [] name = "Azure" -> "Azure" [] OTHER -> "NoCC"

VerifyWithCoRIM(platform, report, items) ==
    CASE platform \in {"SNP", "SNPvTPM", "VTPM"} -> vtpmVerifyWithCoRIM(report, items)
      [] platform = "Azure" -> azureVerifyWithCoRIM(report, items)
      [] platform = "TDX" -> tdxVerifyWithCoRIM(report, items)
      [] platform = "NoCC" -> "unsupported_platform"

loadCoRIM(policy) == IF policy.file \in {"signed", "unsigned"} THEN nil ELSE "no_manifest"

VerifyEvidence(policy, token, expected) ==
    LET claims == token.claims
        platform == platformTypeFromClaims(claims.platform)
    IN IF policy.file = "unset" THEN "no_policy_path"
       ELSE IF ~decodeCBOR(token) THEN "undecodable"
       ELSE IF claims.nonce # expected.nonce THEN "nonce"
       ELSE OrElse(verifyEvidenceBinding(platform, claims.report, expected),
                   OrElse(loadCoRIM(policy), VerifyWithCoRIM(platform, claims.report, policy.items)))
=============================================================================
