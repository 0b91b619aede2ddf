---------------------------- MODULE LaunchPolicy ----------------------------
(***************************************************************************)
(* How a confidential VM is launched (manager/qemu), and where the policy  *)
(* that it is appraised by comes from: the manager's FetchAttestationPolicy *)
(* and the create-corim commands of the CLI, over the generator            *)
(* (pkg/attestation/generator, corimgen), the IGVM tool, and the Azure and *)
(* GCP sources.  Texts are records tagged with their kind; measurements    *)
(* and signatures are symbolic.                                            *)
(***************************************************************************)
EXTENDS Evidence

CONSTANTS
    ZeroDigest,     \* corimgen: SNPDefaultMeasurement
    MrTd, MrSeam, Rtmrs     \* corimgen: TDXDefaultMrTd, TDXDefaultMrSeam, and the TDXDefaultRTMRs (a set)

Empty == [kind |-> "empty"]
Garbled == [kind |-> "garbled"]
Hex(bytes) == [kind |-> "hex", of |-> bytes]

hexDecodes(text) == text.kind \in {"hex", "empty"}
Given(condition, options) == IF condition THEN options ELSE {}
-----------------------------------------------------------------------------
(* The command line of QEMU, a set of options. *)

SEVSNPEnabled(host) == "sev_snp" \in host.cpuinfo /\ host.kernelParam = "Y"
TDXEnabled(host) == "tdx_host_platform" \in host.cpuinfo /\ host.kernelParam = "Y"

SEVSNPEnabledOnHost(host) == host.module = "kvm_amd" /\ SEVSNPEnabled(host)
TDXEnabledOnHost(host) == host.module = "kvm_intel" /\ TDXEnabled(host)

\* The settings come from the environment, whatever the host can do.
NewConfig(host, settings) ==
    [snp |-> SEVSNPEnabledOnHost(host), tdx |-> TDXEnabledOnHost(host),
     enableHostData |-> settings.enableHostData, hostData |-> settings.hostData]

\* Host data is read whatever its case and the space around it.
NormalizeSEVSNPHostData(text) == IF text.kind \in {"hex", "upper", "spaced"} THEN Hex(text.of) ELSE Garbled

ConstructQemuArgs(config) ==
    LET normalized == NormalizeSEVSNPHostData(config.hostData)
        hostData == IF config.enableHostData /\ normalized # Garbled THEN normalized ELSE Empty
    IN {<<"netdev">>, <<"kernel">>}
       \cup Given(~config.snp /\ ~config.tdx, {<<"drive", "code">>, <<"drive", "vars">>})
       \cup Given(config.snp, {<<"confidential-guest-support", "snp">>, <<"memory-backend-memfd", "snp">>,
                               <<"sev-snp-guest", hostData>>, <<"igvm-cfg">>})
       \cup Given(config.tdx, {<<"tdx-guest">>, <<"confidential-guest-support", "tdx">>, <<"memory-backend-memfd", "tdx">>,
                               <<"bios">>})

ValidateSecurity(config) ==
    FirstError(<< <<config.enableHostData /\ ~config.snp, "snp_disabled">>,
                  <<config.snp /\ config.enableHostData /\ NormalizeSEVSNPHostData(config.hostData) = Garbled, "host_data">> >>)

ConstructQemuArgsChecked(config) ==
    LET err == ValidateSecurity(config)
    IN [err |-> err, args |-> IF err = "" THEN ConstructQemuArgs(config) ELSE {}]

\* QEMU: at most one kind of confidential guest, whose report carries the host data of its object.
Guest(args) ==
    [kind |-> CASE \E h \in args : h[1] = "sev-snp-guest" -> "snp" [] <<"tdx-guest">> \in args -> "tdx" [] OTHER -> "plain",
     hostData |-> IF \E h \in args : h[1] = "sev-snp-guest" THEN (CHOOSE h \in args : h[1] = "sev-snp-guest")[2] ELSE Empty]

\* An appraisal of host data and kernel hashes in a report.
ValidateContract(contract, evidence) ==
    LET expected == NormalizeSEVSNPHostData(contract.hostData)
        observed == NormalizeSEVSNPHostData(evidence.hostData)
    IN FirstError(<< <<contract.requireHostData /\ contract.hostData = Empty, "missing_expected">>,
                     <<contract.requireHostData /\ expected = Garbled, "bad_expected">>,
                     <<contract.requireHostData /\ evidence.hostData = Empty, "missing_observed">>,
                     <<contract.requireHostData /\ observed = Garbled, "bad_observed">>,
                     <<contract.requireHostData /\ observed # expected, "mismatch">>,
                     <<contract.requireKernelHashes /\ ~evidence.kernelHashes, "kernel_hashes">> >>)
-----------------------------------------------------------------------------
(* The generator.  keeps says whether the CoRIM library keeps a digest whose length is not the one of its algorithm: *)
(* the generator names SHA-256, and the measurements have 48 bytes.                                                *)

NoOptions == [platform |-> "snp", measurement |-> Empty, svn |-> 0, rtmrs |-> <<>>, mrSeam |-> Empty, signingKey |-> "none"]

\* Mutant of applyDefaults: the defaults replace what is given.
applyDefaultsAlways(opts) ==
    IF opts.platform = "snp" THEN [opts EXCEPT !.measurement = Hex(ZeroDigest)]
    ELSE [opts EXCEPT !.measurement = Hex(MrTd), !.mrSeam = Hex(MrSeam)]

applyDefaults(opts) ==
    IF opts.platform = "snp" THEN [opts EXCEPT !.measurement = IF @ = Empty THEN Hex(ZeroDigest) ELSE @]
    ELSE [opts EXCEPT !.measurement = IF @ = Empty THEN Hex(MrTd) ELSE @,
                      !.mrSeam = IF @ = Empty THEN Hex(MrSeam) ELSE @,
                      !.rtmrs = IF @ = <<>> THEN <<[kind |-> "defaults"]>> ELSE @]

digestsOf(text) == IF text.kind = "defaults" THEN Rtmrs ELSE {text.of}

createReferenceValue(opts) ==
    LET extra == IF opts.platform = "tdx" THEN <<opts.mrSeam>> \o opts.rtmrs ELSE <<>>
        readable(t) == t.kind = "defaults" \/ hexDecodes(t)
    IN [err |-> FirstError(<< <<~hexDecodes(opts.measurement), "measurement">>,
                              <<\E i \in DOMAIN extra : ~readable(extra[i]), "extra">> >>),
        values |-> <<opts.measurement>> \o extra]

\* comid: a reference value is valid if each of its measurements has a digest or a version.
AddDigest(values, svn, keeps) ==
    [kind |-> "reference", valid |-> keeps \/ (Len(values) = 1 /\ svn > 0),
     digests |-> IF keeps THEN UNION {digestsOf(values[i]) : i \in DOMAIN values} ELSE {}]

\* corim: a CoMID that is not valid is not added.
AddComid(reference) == IF reference.valid THEN <<reference>> ELSE <<>>

CreateCoMID(opts, keeps) ==
    LET with(reference) ==
            [err |-> reference.err, items |-> IF reference.err = "" THEN AddComid(AddDigest(reference.values, opts.svn, keeps)) ELSE <<>>]
    IN with(createReferenceValue(opts))

\* The key is an EC key or a PKCS#8 key that can sign; only an EC key fits ES256.
LoadSigningKey(file) == IF file \in {"ec", "rsa"} THEN [err |-> "", key |-> file] ELSE [err |-> "bad_key", key |-> "none"]

GenerateCoRIM(opts, keeps) ==
    LET encoded(comid) ==
            LET err == OrElse(comid.err, IF opts.signingKey = "rsa" THEN "signer" ELSE "")
            IN [err |-> err, file |-> IF opts.signingKey = "none" THEN "unsigned" ELSE "signed",
                items |-> IF err = "" THEN comid.items ELSE <<>>]
    IN encoded(CreateCoMID(applyDefaults(opts), keeps))
-----------------------------------------------------------------------------
(* Where the measurement comes from. *)

\* The IGVM tool prints the measurement of a file as one line of hex digits; any other output is an error.
Run(tool, file) ==
    IF tool = "fails" THEN [err |-> "tool", line |-> Empty]
    ELSE IF tool = "prints more" THEN [err |-> "output", line |-> Empty]
    ELSE [err |-> "", line |-> Hex(file)]

\* The sizes of that line and of a bufio.Writer.
LineSize == 97
WriterSize == 4096

\* What has reached the buffer behind the writer when it is read: the writer is not flushed.
written(line) == IF LineSize > WriterSize THEN line ELSE Empty

\* fmt: each byte as two hex digits.
formatHex(bytes) == IF bytes = Empty THEN Empty ELSE Hex(bytes)

FetchAttestationPolicy(managed, id, tool, igvmFile, signingKey, keeps) ==
    IF id \notin DOMAIN managed THEN [err |-> "not_found", file |-> "missing", items |-> <<>>]
    ELSE IF ~managed[id].snp THEN GenerateCoRIM([NoOptions EXCEPT !.platform = "tdx", !.signingKey = signingKey], keeps)
    ELSE LET run == Run(tool, igvmFile)
             err == FirstError(<< <<run.err # "", run.err>>,
                                  <<managed[id].enableHostData /\ NormalizeSEVSNPHostData(managed[id].hostData) = Garbled, "host_data">> >>)
         IN IF err # "" THEN [err |-> err, file |-> "missing", items |-> <<>>]
            ELSE GenerateCoRIM([NoOptions EXCEPT !.measurement = formatHex(written(run.line)), !.signingKey = signingKey], keeps)

validateJKU(jku, maa) ==
    FirstError(<< <<jku.scheme # "https", "scheme">>, <<~jku.clean, "unclean">>, <<jku.path # "/certs", "path">>,
                  <<maa # "" /\ jku.host # maa, "host">>, <<maa = "" /\ ~jku.official, "host">> >>)

\* The keys that a host publishes, by key identifier.
fetchJWKSet(keySets, jku) == IF jku.host \in DOMAIN keySets THEN keySets[jku.host] ELSE <<>>

validateToken(token, maa, keySets) ==
    LET keySet == fetchJWKSet(keySets, token.jku)
    IN FirstError(<< <<token.jku.kind # "url", "no_jku">>, <<token.kid = "", "no_kid">>,
                     <<validateJKU(token.jku, maa) # "", "jku">>, <<token.jku.host \notin DOMAIN keySets, "no_key_set">>,
                     <<token.alg # "RS256", "alg">>, <<token.kid \notin DOMAIN keySet, "no_key">>,
                     <<token.kid \in DOMAIN keySet /\ token.signer # keySet[token.kid], "signature">> >>)

ExtractAzureMeasurement(token, maa, keySets) ==
    LET invalid == validateToken(token, maa, keySets)
    IN [err |-> FirstError(<< <<invalid # "", invalid>>, <<token.tee.measurement = Empty, "no_measurement">>, <<~token.tee.hasSVN, "no_svn">> >>),
        measurement |-> token.tee.measurement]

\* The bucket has one endorsement for each measurement that GCP signs, with a measurement for each number of vCPUs.
GetLaunchEndorsement(bucket, measurement) ==
    IF measurement \in DOMAIN bucket THEN [err |-> "", golden |-> bucket[measurement]] ELSE [err |-> "no_object", golden |-> <<>>]

ExtractGCPMeasurement(golden, vcpus) ==
    IF vcpus \in DOMAIN golden THEN [err |-> "", measurement |-> Hex(golden[vcpus])] ELSE [err |-> "no_vcpus", measurement |-> Empty]

\* The four create-corim commands.  signingKey is the file named by a flag, "none" without the flag.
signed(source, opts, signingKey, keeps) ==
    LET key == LoadSigningKey(signingKey)
        err == FirstError(<< <<source # "", source>>, <<signingKey # "none" /\ key.err # "", key.err>> >>)
    IN IF err # "" THEN [err |-> err, file |-> "missing", items |-> <<>>]
       ELSE GenerateCoRIM([opts EXCEPT !.signingKey = key.key], keeps)

NewCreateCoRIMAzureCmd(token, maa, keySets, signingKey, keeps) ==
    LET data == ExtractAzureMeasurement(token, maa, keySets)
    IN signed(data.err, [NoOptions EXCEPT !.measurement = data.measurement, !.svn = token.tee.svn], signingKey, keeps)

NewCreateCoRIMGCPCmd(bucket, measurement, vcpus, signingKey, keeps) ==
    LET endorsement == GetLaunchEndorsement(bucket, measurement)
        data == ExtractGCPMeasurement(endorsement.golden, vcpus)
    IN signed(IF endorsement.err # "" THEN endorsement.err ELSE data.err, [NoOptions EXCEPT !.measurement = data.measurement], signingKey, keeps)

NewCreateCoRIMSNPCmd(measurement, svn, signingKey, keeps) ==
    signed("", [NoOptions EXCEPT !.measurement = measurement, !.svn = svn], signingKey, keeps)

NewCreateCoRIMTDXCmd(measurement, rtmrs, mrSeam, signingKey, keeps) ==
    signed("", [NoOptions EXCEPT !.platform = "tdx", !.measurement = measurement, !.rtmrs = rtmrs, !.mrSeam = mrSeam], signingKey, keeps)
=============================================================================
