-------------------------- MODULE TransportProofs ---------------------------
(***************************************************************************)
(* Proofs about attested transport: what an exported authenticator and     *)
(* evidence that are accepted are bound to, for every certificate,         *)
(* connection, request, report and policy; and what a dial that succeeds   *)
(* has, for every set of clients and every machine and policy.             *)
(***************************************************************************)
EXTENDS AttestedTransport, ExportedAuthenticator, WellFoundedInduction, TLAPS
-----------------------------------------------------------------------------
(* Exported authenticators and attestation evidence. *)

LEMMA ErrorsAreNotNil ==
    nil \notin {"unsupported_type", "finished_mismatch", "context_mismatch", "unsupported_signature_scheme",
                "unknown_authority", "context_reuse", "missing_attestation", "no_evidence", "bad_request", "io"}
BY Zenon DEF nil

LEMMA NoErrorInEither ==
    ASSUME NEW e, NEW f
    PROVE  OrElse(e, f) = nil <=> e = nil /\ f = nil
BY Zenon DEF OrElse

\* An error before the context is marked, or a context that was used, refuses.
LEMMA MarkedWithoutError ==
    ASSUME NEW err, NEW used, NEW context, NEW auth
    PROVE  /\ Marked(err, used, context, auth).err = nil <=> err = nil /\ MarkContextUsed(used, context).err = nil
           /\ Marked(err, used, context, auth).err = nil =>
                 /\ Marked(err, used, context, auth).auth = auth
                 /\ Marked(err, used, context, auth).used = MarkContextUsed(used, context).used
BY Zenon DEF Marked, Refusal

LEMMA AttestedWithoutError ==
    ASSUME NEW marked, NEW err, withAttestation(marked, err).err = nil
    PROVE  marked.err = nil /\ err = nil /\ withAttestation(marked, err) = marked
BY Zenon DEF withAttestation, Refusal

Accepts(used, conn, role, req, policy, verifiers, auth, roots) ==
    validateAuthenticator(used, conn, role, req, policy, verifiers, auth, roots).err = nil

\* What validateAuthenticator checked of a full authenticator that it accepts.
LEMMA AcceptedFull ==
    ASSUME NEW used, NEW conn, NEW role, NEW req, NEW policy, NEW verifiers, NEW auth, NEW roots,
           Accepts(used, conn, role, req, policy, verifiers, auth, roots), auth.kind # "finished"
    PROVE  /\ messagesError(conn, role, req, policy, auth, roots) = nil
           /\ attestationError(conn, auth, verifiers) = nil
           /\ MarkContextUsed(used, auth.cert.context).err = nil
           /\ validateAuthenticator(used, conn, role, req, policy, verifiers, auth, roots).used
                = MarkContextUsed(used, auth.cert.context).used
<1> DEFINE checked == validateFull(used, conn, role, req, policy, verifiers, auth, roots)
<1>1. validateAuthenticator(used, conn, role, req, policy, verifiers, auth, roots) = checked
  BY Zenon DEF Accepts, validateAuthenticator, Refusal
<1> QED
  BY <1>1, MarkedWithoutError, AttestedWithoutError DEF Accepts, validateFull

LEMMA AcceptedEmpty ==
    ASSUME NEW used, NEW conn, NEW role, NEW req, NEW policy, NEW verifiers, NEW auth, NEW roots,
           Accepts(used, conn, role, req, policy, verifiers, auth, roots), auth.kind = "finished"
    PROVE  /\ req # NoRequest
           /\ auth.finished = hmacSum(ExportFinishedKey(conn, role),
                 hashConcat(conn, chunksUpTo([context |-> req.context, entries |-> <<>>], conn, role, req)))
<1>1. validateAuthenticator(used, conn, role, req, policy, verifiers, auth, roots) = validateEmpty(used, conn, role, req, auth)
  BY Zenon DEF Accepts, validateAuthenticator, Refusal
<1> QED
  BY <1>1, ErrorsAreNotNil, MarkedWithoutError DEF Accepts, validateEmpty, Refusal

\* A Finished message is for one connection, one role and one transcript.
Fin(conn, role, chunks) == hmacSum(ExportFinishedKey(conn, role), hashConcat(conn, chunks))

LEMMA FinishedDetermines ==
    ASSUME NEW conn, NEW role, NEW chunks, NEW conn2, NEW role2, NEW chunks2,
           Fin(conn, role, chunks) = Fin(conn2, role2, chunks2)
    PROVE  conn.id = conn2.id /\ role = role2 /\ chunks = chunks2
BY Zenon DEF Fin, hmacSum, ExportFinishedKey, hashConcat

\* A transcript is with its request, up to the certificate and up to the CertificateVerify.
LEMMA ChunksHaveRequest ==
    ASSUME NEW conn, NEW role, NEW req, NEW cert, NEW cv, NEW req2, NEW cert2, NEW cv2, NEW conn2, NEW role2
    PROVE  /\ req # NoRequest /\ chunksUpTo(cert, conn, role, req) = chunksUpTo(cert2, conn2, role2, req2) => req = req2
           /\ Append(chunksUpTo(cert, conn, role, req), cv) = Append(chunksUpTo(cert2, conn2, role2, req2), cv2)
                 => req = req2
<1> DEFINE a == ExportHandshakeContext(conn, role)
           b == ExportHandshakeContext(conn2, role2)
<1>1. /\ chunksUpTo(cert, conn, role, req) = IF req = NoRequest THEN <<a, cert>> ELSE <<a, req, cert>>
      /\ chunksUpTo(cert2, conn2, role2, req2) = IF req2 = NoRequest THEN <<b, cert2>> ELSE <<b, req2, cert2>>
  BY Zenon DEF chunksUpTo
<1> HIDE DEF a, b
<1>2. CASE req = NoRequest /\ req2 = NoRequest
  BY <1>2, Zenon
<1>3. CASE req # NoRequest /\ req2 = NoRequest
  BY <1>1, <1>3
<1>4. CASE req = NoRequest /\ req2 # NoRequest
  BY <1>1, <1>4
<1>5. CASE req # NoRequest /\ req2 # NoRequest
  BY <1>1, <1>5
<1> QED
  BY <1>2, <1>3, <1>4, <1>5, Zenon

\* The Finished message of what is accepted is the one for this connection, role and request.
LEMMA AcceptedFinished ==
    ASSUME NEW used, NEW conn, NEW role, NEW req, NEW policy, NEW verifiers, NEW auth, NEW roots,
           Accepts(used, conn, role, req, policy, verifiers, auth, roots)
    PROVE  \E cert, cv :
              IF auth.kind = "finished"
              THEN req # NoRequest /\ auth.finished = Fin(conn, role, chunksUpTo(cert, conn, role, req))
              ELSE auth.finished = Fin(conn, role, Append(chunksUpTo(cert, conn, role, req), cv))
<1>1. CASE auth.kind # "finished"
  <2>1. messagesError(conn, role, req, policy, auth, roots) = nil
    BY <1>1, AcceptedFull
  <2>2. proofError(conn, role, req, auth) = nil
    BY <2>1, NoErrorInEither, ErrorsAreNotNil DEF messagesError
  <2>3. auth.finished = Fin(conn, role, Append(chunksUpTo(auth.cert, conn, role, req), auth.certVerify))
    BY <2>2, NoErrorInEither, ErrorsAreNotNil DEF proofError, Fin
  <2> QED
    BY <1>1, <2>3, Zenon
<1>2. CASE auth.kind = "finished"
  <2>1. /\ req # NoRequest
        /\ auth.finished = Fin(conn, role, chunksUpTo([context |-> req.context, entries |-> <<>>], conn, role, req))
    BY <1>2, AcceptedEmpty DEF Fin
  <2> QED
    BY <1>2, <2>1, Zenon
<1> QED
  BY <1>1, <1>2, Zenon

LEMMA MadeFinished ==
    ASSUME NEW used, NEW conn, NEW role, NEW req, NEW policy, NEW identity, NEW exts, NEW auth,
           createAuthenticator(used, conn, role, req, policy, identity, exts).err = nil,
           auth = createAuthenticator(used, conn, role, req, policy, identity, exts).auth
    PROVE  \E cert, cv :
              IF auth.kind = "finished" THEN auth.finished = Fin(conn, role, chunksUpTo(cert, conn, role, req))
              ELSE auth.finished = Fin(conn, role, Append(chunksUpTo(cert, conn, role, req), cv))
<1> DEFINE chunks(cert) == chunksUpTo(cert, conn, role, req)
<1>1. PICK cert, cv, context, err :
        createAuthenticator(used, conn, role, req, policy, identity, exts) =
           Marked(err, used, context,
                  IF identity.certs = <<>> THEN [kind |-> "finished", finished |-> Fin(conn, role, chunks(cert))]
                  ELSE [kind |-> "certificate", cert |-> cert, certVerify |-> cv,
                        finished |-> Fin(conn, role, Append(chunks(cert), cv))])
  BY ZenonT(40) DEF createAuthenticator, Fin
<1> QED
  BY <1>1, MarkedWithoutError

(***************************************************************************)
(* validateAuthenticator accepts what createAuthenticator made only on the *)
(* connection it was made on, in the role and for the request it was made  *)
(* for: whatever the identities, policies, verifiers and sessions of the   *)
(* two sides are.                                                          *)
(***************************************************************************)
THEOREM AcceptedWasMadeHere ==
    ASSUME NEW used, NEW conn, NEW role, NEW req, NEW policy, NEW verifiers, NEW roots,
           NEW itsUsed, NEW itsConn, NEW itsRole, NEW itsReq, NEW itsPolicy, NEW identity, NEW exts, NEW auth,
           createAuthenticator(itsUsed, itsConn, itsRole, itsReq, itsPolicy, identity, exts).err = nil,
           auth = createAuthenticator(itsUsed, itsConn, itsRole, itsReq, itsPolicy, identity, exts).auth,
           Accepts(used, conn, role, req, policy, verifiers, auth, roots)
    PROVE  conn.id = itsConn.id /\ role = itsRole /\ req = itsReq
<1>1. PICK cert, cv :
        IF auth.kind = "finished"
        THEN req # NoRequest /\ auth.finished = Fin(conn, role, chunksUpTo(cert, conn, role, req))
        ELSE auth.finished = Fin(conn, role, Append(chunksUpTo(cert, conn, role, req), cv))
  BY AcceptedFinished
<1>2. PICK cert2, cv2 :
        IF auth.kind = "finished"
        THEN auth.finished = Fin(itsConn, itsRole, chunksUpTo(cert2, itsConn, itsRole, itsReq))
        ELSE auth.finished = Fin(itsConn, itsRole, Append(chunksUpTo(cert2, itsConn, itsRole, itsReq), cv2))
  BY MadeFinished
<1> DEFINE c1 == chunksUpTo(cert, conn, role, req)
           c2 == chunksUpTo(cert2, itsConn, itsRole, itsReq)
           t1 == Append(c1, cv)
           t2 == Append(c2, cv2)
<1>3. (req # NoRequest /\ c1 = c2 => req = itsReq) /\ (t1 = t2 => req = itsReq)
  BY ChunksHaveRequest, Zenon
<1>4. IF auth.kind = "finished" THEN req # NoRequest /\ Fin(conn, role, c1) = Fin(itsConn, itsRole, c2)
      ELSE Fin(conn, role, t1) = Fin(itsConn, itsRole, t2)
  BY <1>1, <1>2, Zenon
<1> HIDE DEF c1, c2, t1, t2
<1>5. CASE auth.kind = "finished"
  BY <1>3, <1>4, <1>5, FinishedDetermines, SMTT(40)
<1>6. CASE auth.kind # "finished"
  BY <1>3, <1>4, <1>6, FinishedDetermines, SMTT(40)
<1> QED
  BY <1>5, <1>6, Zenon
-----------------------------------------------------------------------------
(* Evidence. *)

\* The authenticator was created without an error on conn, in role and for req.
MadeFor(conn, role, req, auth) ==
    \E used, policy, identity, exts :
        /\ createAuthenticator(used, conn, role, req, policy, identity, exts).err = nil
        /\ auth = createAuthenticator(used, conn, role, req, policy, identity, exts).auth

LEMMA AcceptedWasMadeFor ==
    ASSUME NEW used, NEW conn, NEW role, NEW req, NEW policy, NEW verifiers, NEW roots,
           NEW itsConn, NEW itsRole, NEW itsReq, NEW auth,
           MadeFor(itsConn, itsRole, itsReq, auth),
           Accepts(used, conn, role, req, policy, verifiers, auth, roots)
    PROVE  conn.id = itsConn.id /\ role = itsRole /\ req = itsReq
<1>1. PICK itsUsed, itsPolicy, identity, exts :
        /\ createAuthenticator(itsUsed, itsConn, itsRole, itsReq, itsPolicy, identity, exts).err = nil
        /\ auth = createAuthenticator(itsUsed, itsConn, itsRole, itsReq, itsPolicy, identity, exts).auth
  BY Zenon DEF MadeFor
<1> QED
  BY <1>1, AcceptedWasMadeHere

Before == {p \in Nat \X Nat : p[1] < p[2]}

\* A set of naturals that is not empty has a least element.
LEMMA LeastNatural ==
    ASSUME NEW T \in SUBSET Nat, T # {}
    PROVE  \E x \in T : \A y \in T : x <= y
<1>1. IsWellFoundedOn(Before, Nat)
  BY NatLessThanWellFounded, Zenon DEF OpToRel, Before
<1>2. PICK x \in T : \A y \in T : <<y, x>> \notin Before
  BY <1>1, WFMin, Zenon
<1>3. ASSUME NEW y \in T
      PROVE  x <= y
  <2>1. y < x => <<y, x>> \in Before
    BY Zenon DEF Before
  <2> QED
    BY <1>2, <2>1
<1> QED
  BY <1>2, <1>3, Zenon

\* Some item of the manifest has the measurement among its valid reference values.
Referenced(items, measurement) ==
    \E i \in DOMAIN items : items[i].kind = "reference" /\ items[i].valid /\ measurement \in items[i].digests

LEMMA MatchIsReferenced ==
    ASSUME NEW S, NEW items \in Seq(S), NEW measurement, NEW skip, matchCoRIM(items, measurement, skip) = nil
    PROVE  Referenced(items, measurement)
<1> DEFINE invalid(x) == x.kind = "reference" /\ ~x.valid
           stops(x) == x.kind = "bad" \/ (invalid(x) /\ ~skip)
           matches(x) == x.kind = "reference" /\ x.valid /\ measurement \in x.digests
           deciding == {i \in DOMAIN items : stops(items[i]) \/ matches(items[i])}
           first == CHOOSE i \in deciding : \A j \in deciding : i <= j
<1>1. nil # "no_reference_value" /\ nil # "bad_manifest"
  BY Zenon DEF nil
<1>2. deciding # {} /\ ~stops(items[first])
  BY <1>1, Zenon DEF matchCoRIM
<1>3. deciding \in SUBSET Nat
  OBVIOUS
<1>4. \E i \in deciding : \A j \in deciding : i <= j
  BY <1>2, <1>3, LeastNatural, Zenon
<1>5. first \in deciding
  BY <1>4, Zenon
<1> QED
  BY <1>2, <1>5, Zenon DEF Referenced

LEMMA FirstErrorOfTwo ==
    ASSUME NEW a \in BOOLEAN, NEW b \in BOOLEAN, NEW x, NEW y, x # nil, y # nil,
           FirstError(<< <<a, x>>, <<b, y>> >>) = nil
    PROVE  ~a /\ ~b
<1> DEFINE checks == << <<a, x>>, <<b, y>> >>
           bad == {i \in DOMAIN checks : checks[i][1]}
           first == CHOOSE i \in bad : \A j \in bad : i <= j
<1>1. DOMAIN checks = {1, 2}
  OBVIOUS
<1>2. CASE bad # {}
  <2>1. \E i \in bad : \A j \in bad : i <= j
    BY <1>1, <1>2
  <2>2. first \in {1, 2}
    BY <1>1, <2>1, Zenon
  <2>3. checks[first][2] = nil
    BY <1>2, Zenon DEF FirstError
  <2> QED
    BY <2>2, <2>3
<1>3. CASE bad = {}
  BY <1>1, <1>3, Zenon
<1> QED
  BY <1>2, <1>3, Zenon

\* What ties a report to the session of a connection, for each platform the verifier knows.
BoundTo(platform, report, expected) ==
    CASE platform = "TDX" -> report.form = "quote" /\ quoteBytes(report, 520, 584) = expected.reportData
      [] platform \in {"SNP", "Azure"} -> carriesTee(report) /\ report.tee.reportData = expected.reportData
      [] platform = "SNPvTPM" -> /\ carriesTee(report) /\ report.quoted = expected.nonce
                                 /\ report.tee.reportData = <<"sha3", expected.reportData, report.akPub>>
      [] platform = "VTPM" -> carriesTee(report) /\ report.quoted = expected.nonce
      [] platform = "NoCC" -> FALSE

\* The launch measurement the verifier looks up in the manifest.
Measured(platform, report) == IF platform = "TDX" THEN quoteBytes(report, 112, 160) ELSE report.tee.measurement

LEMMA EvidenceErrorsAreNotNil ==
    \A e \in {"report_data", "unparsable", "nonce", "unsupported_platform", "no_measurement", "no_policy_path", "undecodable",
              "no_manifest"} : e # nil
BY Zenon DEF nil

LEMMA KnownPlatform ==
    ASSUME NEW name
    PROVE  platformTypeFromClaims(name) \in {"SNP", "TDX", "VTPM", "SNPvTPM", "Azure", "NoCC"}
BY Zenon DEF platformTypeFromClaims

LEMMA MeasurementIsReferenced ==
    ASSUME NEW platform \in {"SNP", "TDX", "VTPM", "SNPvTPM", "Azure", "NoCC"}, NEW report,
           NEW S, NEW items \in Seq(S), VerifyWithCoRIM(platform, report, items) = nil
    PROVE  /\ platform # "NoCC" /\ (platform # "TDX" => carriesTee(report))
           /\ Referenced(items, Measured(platform, report))
<1>1. CASE platform \in {"SNP", "SNPvTPM", "VTPM"}
  <2>1. vtpmVerifyWithCoRIM(report, items) = nil
    BY <1>1, Zenon DEF VerifyWithCoRIM
  <2>2. carriesTee(report) /\ matchCoRIM(items, report.tee.measurement, FALSE) = nil
    BY <2>1, EvidenceErrorsAreNotNil, Zenon DEF vtpmVerifyWithCoRIM
  <2> QED
    BY <1>1, <2>2, MatchIsReferenced, Zenon DEF Measured
<1>2. CASE platform = "Azure"
  <2>1. azureVerifyWithCoRIM(report, items) = nil
    BY <1>2, Zenon DEF VerifyWithCoRIM
  <2>2. carriesTee(report) /\ matchCoRIM(items, report.tee.measurement, TRUE) = nil
    BY <2>1, EvidenceErrorsAreNotNil, Zenon DEF azureVerifyWithCoRIM
  <2> QED
    BY <1>2, <2>2, MatchIsReferenced, Zenon DEF Measured
<1>3. CASE platform = "TDX"
  <2>1. tdxVerifyWithCoRIM(report, items) = nil
    BY <1>3, Zenon DEF VerifyWithCoRIM
  <2>2. matchCoRIM(items, quoteBytes(report, 112, 160), FALSE) = nil
    BY <2>1, EvidenceErrorsAreNotNil, Zenon DEF tdxVerifyWithCoRIM
  <2> QED
    BY <1>3, <2>2, MatchIsReferenced, ZenonT(40) DEF Measured
<1>4. CASE platform = "NoCC"
  BY <1>4, EvidenceErrorsAreNotNil, Zenon DEF VerifyWithCoRIM
<1> QED
  BY <1>1, <1>2, <1>3, <1>4, Zenon

LEMMA BindingIsToSession ==
    ASSUME NEW platform \in {"SNP", "TDX", "VTPM", "SNPvTPM", "Azure"}, NEW report, NEW expected,
           platform # "TDX" => carriesTee(report), verifyEvidenceBinding(platform, report, expected) = nil
    PROVE  BoundTo(platform, report, expected)
<1>1. CASE platform = "TDX"
  <2>1. verifyTDXReportData(report, expected.reportData) = nil
    BY <1>1, Zenon DEF verifyEvidenceBinding
  <2> QED
    BY <1>1, <2>1, EvidenceErrorsAreNotNil, ZenonT(40) DEF verifyTDXReportData, BoundTo
<1>2. CASE platform \in {"SNP", "Azure"}
  <2>1. verifySNPReportData(report, expected.reportData) = nil
    BY <1>2, Zenon DEF verifyEvidenceBinding
  <2>2. compareSNPReportData(report.tee, expected.reportData) = nil
    BY <1>2, <2>1, Zenon DEF verifySNPReportData, carriesTee
  <2> QED
    BY <1>2, <2>2, EvidenceErrorsAreNotNil, Zenon DEF compareSNPReportData, BoundTo
<1>3. CASE platform = "SNPvTPM"
  <2> DEFINE quote == verifyVTPMNonce(report, expected.nonce)
             data == verifySNPvTPMReportData(report, expected.reportData)
  <2>1. FirstError(<< <<quote # nil, "nonce">>, <<data # nil, "report_data">> >>) = nil
    BY <1>3, Zenon DEF verifyEvidenceBinding
  <2>2. quote = nil /\ data = nil
    BY <2>1, FirstErrorOfTwo, EvidenceErrorsAreNotNil, Zenon
  <2>3. report.quoted = expected.nonce
    BY <2>2, EvidenceErrorsAreNotNil, Zenon DEF verifyVTPMNonce
  <2>4. report.tee.reportData = <<"sha3", expected.reportData, report.akPub>>
    BY <2>2, EvidenceErrorsAreNotNil, Zenon DEF verifySNPvTPMReportData, compareSNPReportData
  <2> QED
    BY <1>3, <2>3, <2>4, Zenon DEF BoundTo
<1>4. CASE platform = "VTPM"
  <2>1. verifyVTPMNonce(report, expected.nonce) = nil
    BY <1>4, Zenon DEF verifyEvidenceBinding
  <2> QED
    BY <1>4, <2>1, EvidenceErrorsAreNotNil, Zenon DEF verifyVTPMNonce, BoundTo
<1> QED
  BY <1>1, <1>2, <1>3, <1>4, Zenon

\* Of VerifyEvidence (evidence_verifier.go) and VerifyWithCoRIM (vtpm, azure, tdx): evidence that is accepted names the
\* nonce of the session, is bound to it in the way of its platform, and carries a measurement that a valid reference
\* value of the manifest lists.  A bare SNP report and a platform the verifier does not know are never accepted.
THEOREM AcceptedEvidenceIsBound ==
    ASSUME NEW policy, NEW S, policy.items \in Seq(S), NEW token, NEW expected,
           VerifyEvidence(policy, token, expected) = nil
    PROVE  LET claims == token.claims
               platform == platformTypeFromClaims(claims.platform)
           IN /\ claims.nonce = expected.nonce
              /\ BoundTo(platform, claims.report, expected)
              /\ Referenced(policy.items, Measured(platform, claims.report))
<1> DEFINE claims == token.claims
           platform == platformTypeFromClaims(claims.platform)
           binding == verifyEvidenceBinding(platform, claims.report, expected)
           appraisal == VerifyWithCoRIM(platform, claims.report, policy.items)
<1>1. claims.nonce = expected.nonce /\ OrElse(binding, OrElse(loadCoRIM(policy), appraisal)) = nil
  BY EvidenceErrorsAreNotNil, Zenon DEF VerifyEvidence
<1>2. binding = nil /\ appraisal = nil
  BY <1>1, Zenon DEF OrElse
<1>3. platform \in {"SNP", "TDX", "VTPM", "SNPvTPM", "Azure", "NoCC"}
  BY KnownPlatform, Zenon
<1>4. /\ platform # "NoCC" /\ (platform # "TDX" => carriesTee(claims.report))
      /\ Referenced(policy.items, Measured(platform, claims.report))
  BY <1>2, <1>3, MeasurementIsReferenced, Zenon
<1>5. BoundTo(platform, claims.report, expected)
  BY <1>2, <1>3, <1>4, BindingIsToSession, Zenon
<1> QED
  BY <1>1, <1>4, <1>5, Zenon

-----------------------------------------------------------------------------
(* Attested connections. *)

Passed(c) == clientPc[c] \in {"finishing", "closing", "clearing", "returned"} /\ fnErr[c] = nil

\* The connection that the answers on a connection come from.
Origin(l) == IF l \in TransportClients /\ peer[l] = "middlebox" THEN Middlebox ELSE l

TransportTypes ==
    /\ clientPc \in [TransportClients -> {"idle", "handshaking", "requesting", "waiting", "finishing", "closing",
                                          "clearing", "returned"}]
    /\ ctxDone \in [TransportClients -> BOOLEAN]
    /\ watcher \in [TransportClients -> {"none", "selecting", "firing", "gone"}]
    /\ deadline \in [TransportClients -> {"clear", "ahead", "past"}]
    /\ outcome \in [TransportClients -> {"none", "error", "conn"}]
    /\ DOMAIN fnErr = TransportClients /\ DOMAIN request = Links /\ DOMAIN answer = Links
    /\ peer \in [TransportClients -> {"server", "middlebox"}]
    /\ backlog \in Seq(Links) /\ serving \in Links \cup {NoLink}

\* What a client that is done has, and how its deadline stands.
DialInv ==
    \A c \in TransportClients :
        /\ Passed(c) => answer[c] # NoPayload /\ answer[c][1] = c /\ request[c].context \in clientUsed
        /\ outcome[c] = "conn" => clientPc[c] \in {"closing", "clearing", "returned"} /\ fnErr[c] = nil
        /\ deadline[c] = "past" \/ watcher[c] = "firing" => ctxDone[c]
        /\ clientPc[c] = "returned" => deadline[c] # "ahead"

DistinctContexts ==
    \A c, d \in TransportClients :
        c # d /\ Passed(c) /\ Passed(d) => request[c].context # request[d].context

\* The listener serves no connection that ends at the middlebox; an answer is where it comes from.
ServedInv ==
    /\ serving # NoLink => Origin(serving) = serving
    /\ \A i \in DOMAIN backlog : Origin(backlog[i]) = backlog[i]
    /\ \A l \in Links : answer[l] # NoPayload =>
          answer[l][1] = Origin(l) /\ Answer({}, answer[l][1], answer[l][2]).err = nil

TransportInv == TransportTypes /\ DialInv /\ DistinctContexts /\ ServedInv

LEMMA MarkedContext ==
    ASSUME NEW used \in SUBSET Contexts, NEW x
    PROVE  /\ MarkContextUsed(used, x).err = nil <=> x \notin used
           /\ x \notin used => MarkContextUsed(used, x).used = used \cup {x}
           /\ used \subseteq MarkContextUsed(used, x).used
BY TransportAssumption, ErrorsAreNotNil, Zenon DEF MarkContextUsed

\* The server's authenticator for request y of connection l.
Built(used, l, y) ==
    createAuthenticator(used, ConnectionState(l), "server", requestWith(y), NoPolicy, resolveIdentity,
                        BuildLeafExtensions(ConnectionState(l), requestWith(y), resolveIdentity.certs[1]))

LEMMA AnswerIsBuilt ==
    ASSUME NEW used, NEW l, NEW y, Answer(used, l, y).err = nil
    PROVE  Answer(used, l, y) = Built(used, l, y)
BY ErrorsAreNotNil, Zenon DEF Answer, Built, Refusal

\* These are the parts of that authenticator, whatever contexts were used.
BuiltOf(l, y, err, cert, cv, fin) ==
    \A used : Built(used, l, y) = Marked(err, used, y, [kind |-> "certificate", cert |-> [context |-> y, entries |-> cert],
                                                        certVerify |-> cv, finished |-> fin])

\* The contexts used before decide only whether the server answers.
LEMMA BuiltOnce ==
    ASSUME NEW l, NEW y \in Contexts
    PROVE  \E err, cert, cv, fin : BuiltOf(l, y, err, cert, cv, fin)
<1>1. requestWith(y) # NoRequest /\ requestWith(y).context = y
  BY TransportAssumption, Zenon DEF requestWith
<1>2. resolveIdentity.certs # <<>>
  BY Zenon DEF resolveIdentity
<1> QED
  BY <1>1, <1>2, ZenonT(40) DEF BuiltOf, Built, createAuthenticator

\* What the server answers with some contexts used it answers with none used.
LEMMA AnswerToAny ==
    ASSUME NEW used \in SUBSET Contexts, NEW l, NEW y \in Contexts, Answer(used, l, y).err = nil
    PROVE  Answer({}, l, y).err = nil
<1>1. Answer({}, l, y) = Built({}, l, y) /\ Answer(used, l, y) = Built(used, l, y)
  BY ErrorsAreNotNil, Zenon DEF Answer, Built, Refusal
<1>2. PICK err, cert, cv, fin : BuiltOf(l, y, err, cert, cv, fin)
  BY BuiltOnce, Zenon
<1>3. err = nil
  BY <1>1, <1>2, MarkedWithoutError DEF BuiltOf
<1>4. MarkContextUsed({}, y).err = nil
  BY MarkedContext, ZenonT(40)
<1> QED
  BY <1>1, <1>2, <1>3, <1>4, MarkedWithoutError DEF BuiltOf

\* The authenticator is a certificate with the context of the request.
LEMMA AnswerHasContext ==
    ASSUME NEW l, NEW y \in Contexts, Answer({}, l, y).err = nil
    PROVE  Answer({}, l, y).auth.kind = "certificate" /\ Answer({}, l, y).auth.cert.context = y
<1>1. Answer({}, l, y) = Built({}, l, y)
  BY AnswerIsBuilt, Zenon
<1>2. PICK err, cert, cv, fin : BuiltOf(l, y, err, cert, cv, fin)
  BY BuiltOnce, Zenon
<1> QED
  BY <1>1, <1>2, MarkedWithoutError DEF BuiltOf

(***************************************************************************)
(* A client takes the authenticator of a server only over its own          *)
(* connection and for its own request, and only if the request's context   *)
(* was not used before; it is used then (conn.go ClientContext,            *)
(* session.go MarkContextUsed).                                            *)
(***************************************************************************)
THEOREM VerdictIsEndToEnd ==
    ASSUME NEW used \in SUBSET Contexts, NEW c, NEW x \in Contexts, NEW l, NEW y \in Contexts,
           Answer({}, l, y).err = nil, Verdict(used, c, x, l, y).err = nil
    PROVE  l = c /\ x = y /\ x \notin used /\ Verdict(used, c, x, l, y).used = used \cup {x}
<1> DEFINE auth == Answer({}, l, y).auth
           verifiers == [evidence |-> Reference, results |-> NoVerifier]
           exts == BuildLeafExtensions(ConnectionState(l), requestWith(y), resolveIdentity.certs[1])
<1>1. auth.kind = "certificate" /\ auth.cert.context = y
  BY AnswerHasContext, Zenon
<1>2. /\ auth = createAuthenticator({}, ConnectionState(l), "server", requestWith(y), NoPolicy, resolveIdentity, exts).auth
      /\ createAuthenticator({}, ConnectionState(l), "server", requestWith(y), NoPolicy, resolveIdentity, exts).err = nil
  BY AnswerIsBuilt, Zenon DEF Built
<1>3. Accepts(used, ConnectionState(c), "server", requestWith(x), NoPolicy, verifiers, auth, {"root"})
  BY Zenon DEF Verdict, Accepts
<1> HIDE DEF auth, verifiers, exts
<1>4. ConnectionState(c).id = ConnectionState(l).id /\ requestWith(x) = requestWith(y)
  <2>1. MadeFor(ConnectionState(l), "server", requestWith(y), auth)
    BY <1>2, Zenon DEF MadeFor
  <2> QED
    BY <1>3, <2>1, AcceptedWasMadeFor
<1>5. l = c /\ x = y
  BY <1>4, ZenonT(40) DEF ConnectionState, requestWith
<1>6. /\ MarkContextUsed(used, y).err = nil
      /\ validateAuthenticator(used, ConnectionState(c), "server", requestWith(x), NoPolicy, verifiers, auth, {"root"}).used
           = MarkContextUsed(used, y).used
  BY <1>1, <1>3, AcceptedFull
<1> QED
  BY <1>5, <1>6, MarkedContext, Zenon DEF Verdict, auth, verifiers

\* Whatever the verdict, a context that was used stays used.
LEMMA VerdictKeepsUsed ==
    ASSUME NEW used \in SUBSET Contexts, NEW c, NEW x \in Contexts, NEW l, NEW y \in Contexts,
           Answer({}, l, y).err = nil
    PROVE  used \subseteq Verdict(used, c, x, l, y).used
<1> DEFINE auth == Answer({}, l, y).auth
           verifiers == [evidence |-> Reference, results |-> NoVerifier]
           verdict == validateAuthenticator(used, ConnectionState(c), "server", requestWith(x), NoPolicy, verifiers, auth, {"root"})
<1>1. auth.kind = "certificate"
  BY AnswerHasContext, Zenon
<1> HIDE DEF auth, verifiers
<1>2. PICK err, err2, context, made :
        \/ verdict = Refusal(err, used)
        \/ verdict = withAttestation(Marked(err, used, context, made), err2)
  BY <1>1, Zenon DEF validateAuthenticator, validateFull
<1>3. used \subseteq Marked(err, used, context, made).used
  BY MarkedContext, Zenon DEF Marked, Refusal
<1>4. used \subseteq verdict.used
  BY <1>2, <1>3 DEF withAttestation, Refusal
<1> QED
  BY <1>4, Zenon DEF Verdict, auth, verifiers
-----------------------------------------------------------------------------
LEMMA InitTransportInv == TransportInit => TransportInv
<1> SUFFICES ASSUME TransportInit
             PROVE  TransportInv
  BY Zenon
<1>1. TransportTypes
  BY DEF TransportInit, TransportTypes, Links
<1>2. DialInv /\ DistinctContexts
  BY Zenon DEF TransportInit, DialInv, DistinctContexts, Passed
<1>3. ServedInv
  BY DEF TransportInit, ServedInv
<1> QED
  BY <1>1, <1>2, <1>3, Zenon DEF TransportInv

\* The server.
LEMMA ServerTransportInv ==
    ASSUME TransportInv, ServerStep \/ ProviderFails \/ MiddleboxHandshake
    PROVE  TransportInv'
<1>1. UNCHANGED <<clientPc, ctxDone, watcher, deadline, fnErr, outcome, peer, request, clientUsed>>
  BY Zenon DEF ServerStep, ProviderFails, MiddleboxHandshake, Accept, ReadRequest, AnswerRequest, PeerGone, ServeEnds,
         config, clientState
<1>2. \A l : Origin(l)' = Origin(l)
  BY <1>1, Zenon DEF Origin
<1>3. \A c \in TransportClients : Passed(c)' <=> Passed(c)
  BY <1>1, Zenon DEF Passed
<1>4. CASE Accept
  <2>1. serving' = Head(backlog) /\ backlog' = Tail(backlog) /\ backlog # <<>> /\ answer' = answer
    BY <1>4, Zenon DEF Accept
  <2>2. TransportTypes'
    BY <1>1, <2>1 DEF TransportInv, TransportTypes
  <2>3. ServedInv'
    BY <1>2, <2>1, SMTT(40) DEF TransportInv, TransportTypes, ServedInv
  <2> QED
    BY <1>1, <1>3, <2>1, <2>2, <2>3, Zenon DEF TransportInv, DialInv, DistinctContexts
<1>5. CASE ReadRequest \/ MiddleboxHandshake
  <2>1. UNCHANGED <<serving, backlog, answer>>
    BY <1>5, ZenonT(40) DEF ReadRequest, MiddleboxHandshake
  <2> QED
    BY <1>1, <1>2, <1>3, <2>1 DEF TransportInv, TransportTypes, DialInv, DistinctContexts, ServedInv
<1>6. CASE serving' = NoLink /\ backlog' = <<>> /\ answer' = answer
  BY <1>1, <1>2, <1>3, <1>6 DEF TransportInv, TransportTypes, DialInv, DistinctContexts, ServedInv
<1>7. CASE AnswerRequest /\ ~(serving' = NoLink /\ backlog' = <<>> /\ answer' = answer)
  <2>1. PICK a \in Answers :
          /\ a.used = serverUsed /\ a.link = serving /\ a.context = request[serving].context
          /\ a.made.err = nil
          /\ answer' = [answer EXCEPT ![serving] = <<serving, request[serving].context>>]
          /\ serving' = NoLink /\ backlog' = backlog
    BY <1>7, ZenonT(40) DEF AnswerRequest, ServeEnds
  <2>2. PICK u \in SUBSET Contexts, l \in Links, y \in Contexts :
          a = [used |-> u, link |-> l, context |-> y, made |-> Answer(u, l, y)]
    BY <2>1 DEF Answers
  <2>3. serving = l /\ request[serving].context = y /\ Answer({}, l, y).err = nil
    BY <2>1, <2>2, AnswerToAny, Zenon
  <2>4. answer' = [answer EXCEPT ![l] = <<l, y>>] /\ Origin(l) = l /\ <<l, y>> # NoPayload
    BY <2>1, <2>3, TransportAssumption, Zenon DEF TransportInv, ServedInv
  <2>5. TransportTypes'
    BY <1>1, <2>1, <2>4, Zenon DEF TransportInv, TransportTypes
  <2>6. DialInv'
    BY <1>1, <1>3, <2>4, ZenonT(40) DEF TransportInv, TransportTypes, DialInv, Links
  <2>7. DistinctContexts'
    BY <1>1, <1>3, ZenonT(40) DEF TransportInv, DistinctContexts
  <2>8. ServedInv'
    BY <1>2, <2>1, <2>3, <2>4 DEF TransportInv, TransportTypes, ServedInv
  <2> QED
    BY <2>5, <2>6, <2>7, <2>8, Zenon DEF TransportInv
<1> QED
  BY <1>4, <1>5, <1>6, <1>7, Zenon DEF ServerStep, ProviderFails, PeerGone, ServeEnds

\* The middlebox.
LEMMA MiddleboxTransportInv ==
    ASSUME TransportInv, NEW c \in TransportClients, Forward(c) \/ ForwardAnswer(c)
    PROVE  TransportInv'
<1>1. UNCHANGED <<clientPc, ctxDone, watcher, deadline, fnErr, outcome, peer, serving, clientUsed>>
  BY Zenon DEF Forward, ForwardAnswer, config, clientState, serverState
<1>2. (\A l : Origin(l)' = Origin(l)) /\ (\A d \in TransportClients : Passed(d)' <=> Passed(d))
  BY <1>1, ZenonT(40) DEF Origin, Passed
<1>3. CASE Forward(c)
  <2>1. /\ answer' = answer
        /\ request' = [request EXCEPT ![Middlebox] = request[c]]
        /\ backlog' = backlog \/ backlog' = Append(backlog, Middlebox)
    BY <1>3, Zenon DEF Forward, Connect
  <2>2. /\ Middlebox \in Links /\ Origin(Middlebox) = Middlebox
        /\ \A d \in TransportClients : d # Middlebox /\ request'[d] = request[d]
    BY <2>1, TransportAssumption, Zenon DEF TransportInv, TransportTypes, Links, Origin
  <2>3. TransportTypes'
    <3>1. backlog' \in Seq(Links)
      <4>1. backlog \in Seq(Links) /\ Append(backlog, Middlebox) \in Seq(Links)
        BY <2>2 DEF TransportInv, TransportTypes
      <4> QED
        BY <2>1, <4>1, ZenonT(40)
    <3>2. DOMAIN request' = Links
      BY <2>1, Zenon DEF TransportInv, TransportTypes
    <3> QED
      BY <1>1, <2>1, <3>1, <3>2, Zenon DEF TransportInv, TransportTypes
  <2>4. \A i \in DOMAIN backlog' : backlog'[i] = Middlebox \/ (i \in DOMAIN backlog /\ backlog'[i] = backlog[i])
    BY <2>1, <2>2, SMTT(40) DEF TransportInv, TransportTypes
  <2>5. ServedInv'
    BY <1>1, <1>2, <2>1, <2>2, <2>4, Zenon DEF TransportInv, ServedInv
  <2> QED
    BY <1>1, <1>2, <2>1, <2>2, <2>3, <2>5 DEF TransportInv, DialInv, DistinctContexts
<1>4. CASE ForwardAnswer(c)
  <2>1. /\ peer[c] = "middlebox" /\ answer[c] = NoPayload /\ answer[Middlebox] # NoPayload
        /\ answer' = [answer EXCEPT ![c] = answer[Middlebox]]
        /\ request' = request /\ backlog' = backlog
    BY <1>4, Zenon DEF ForwardAnswer, serverState
  <2>2. /\ Middlebox \in Links /\ c \in Links
        /\ Origin(Middlebox) = Middlebox /\ Origin(c) = Middlebox
    BY <2>1, TransportAssumption, Zenon DEF Links, Origin
  <2>3. TransportTypes'
    BY <1>1, <2>1, <2>2, Zenon DEF TransportInv, TransportTypes
  <2>4. DialInv'
    BY <1>1, <1>2, <2>1, <2>2, ZenonT(40) DEF TransportInv, TransportTypes, DialInv, Links
  <2>5. ServedInv'
    BY <1>1, <1>2, <2>1, <2>2, Zenon DEF TransportInv, TransportTypes, ServedInv
  <2> QED
    BY <1>1, <1>2, <2>1, <2>3, <2>4, <2>5, ZenonT(40) DEF TransportInv, DistinctContexts
<1> QED
  BY <1>3, <1>4, Zenon

\* A client's context and its watcher.
LEMMA ContextTransportInv ==
    ASSUME TransportInv, NEW c \in TransportClients,
           Cancel(c) \/ Expire(c) \/ WatcherSelects(c) \/ WatcherFires(c)
    PROVE  TransportInv'
<1>1. UNCHANGED <<clientPc, fnErr, outcome, peer, request, answer, serving, backlog, clientUsed>>
  BY Zenon DEF Cancel, Expire, WatcherSelects, WatcherFires, config, serverState
<1>2. (\A l : Origin(l)' = Origin(l)) /\ (\A d \in TransportClients : Passed(d)' <=> Passed(d))
  BY <1>1, Zenon DEF Origin, Passed
<1>3. TransportTypes'
  <2>1. ctxDone' \in [TransportClients -> BOOLEAN]
    BY ZenonT(40) DEF TransportInv, TransportTypes, Cancel, Expire, WatcherSelects, WatcherFires
  <2>2. watcher' \in [TransportClients -> {"none", "selecting", "firing", "gone"}]
    BY SMTT(40) DEF TransportInv, TransportTypes, Cancel, Expire, WatcherSelects, WatcherFires
  <2>3. deadline' \in [TransportClients -> {"clear", "ahead", "past"}]
    BY SMTT(40) DEF TransportInv, TransportTypes, Cancel, Expire, WatcherSelects, WatcherFires
  <2> QED
    BY <1>1, <2>1, <2>2, <2>3, Zenon DEF TransportInv, TransportTypes
<1>4. DialInv'
  BY <1>1, <1>2 DEF TransportInv, TransportTypes, DialInv, Cancel, Expire, WatcherSelects, WatcherFires
<1>5. DistinctContexts' /\ ServedInv'
  BY <1>1, <1>2, Zenon DEF TransportInv, DistinctContexts, ServedInv
<1> QED
  BY <1>3, <1>4, <1>5, Zenon DEF TransportInv

\* A client connects: its connection ends at the listener or at the middlebox.
LEMMA DialTransportInv ==
    ASSUME TransportInv, NEW c \in TransportClients, Dial(c)
    PROVE  TransportInv'
<1>1. /\ UNCHANGED <<ctxDone, fnErr, outcome, peer, request, answer, serving, clientUsed>>
      /\ clientPc[c] = "idle" /\ clientPc' = [clientPc EXCEPT ![c] = "handshaking"]
      /\ watcher' = watcher \/ watcher' = [watcher EXCEPT ![c] = "selecting"]
      /\ deadline' = deadline \/ deadline' = [deadline EXCEPT ![c] = "ahead"]
      /\ backlog' = backlog \/ (peer[c] = "server" /\ backlog' = Append(backlog, c))
  BY Zenon DEF Dial, Connect, config
<1>2. c \in Links /\ (\A l : Origin(l)' = Origin(l)) /\ (peer[c] = "server" => Origin(c) = c)
  BY <1>1, Zenon DEF Origin, Links
<1>3. \A d \in TransportClients : Passed(d)' => Passed(d)
  BY <1>1, Zenon DEF TransportInv, TransportTypes, Passed
<1>4. TransportTypes'
  <2>1. backlog' \in Seq(Links)
    BY <1>1, <1>2, SMTT(40) DEF TransportInv, TransportTypes
  <2>2. clientPc' \in [TransportClients -> {"idle", "handshaking", "requesting", "waiting", "finishing", "closing",
                                            "clearing", "returned"}]
    BY <1>1, Zenon DEF TransportInv, TransportTypes
  <2>3. watcher' \in [TransportClients -> {"none", "selecting", "firing", "gone"}]
    BY <1>1, Zenon DEF TransportInv, TransportTypes
  <2>4. deadline' \in [TransportClients -> {"clear", "ahead", "past"}]
    BY <1>1, ZenonT(40) DEF TransportInv, TransportTypes
  <2> QED
    BY <1>1, <2>1, <2>2, <2>3, <2>4, ZenonT(40) DEF TransportInv, TransportTypes
<1>5. DialInv'
  BY <1>1, <1>3 DEF TransportInv, TransportTypes, DialInv
<1>6. DistinctContexts'
  BY <1>1, <1>3, Zenon DEF TransportInv, DistinctContexts
<1>7. ServedInv'
  <2>1. \A i \in DOMAIN backlog' : (backlog'[i] = c /\ peer[c] = "server") \/ (i \in DOMAIN backlog /\ backlog'[i] = backlog[i])
    BY <1>1, <1>2, SMTT(60) DEF TransportInv, TransportTypes
  <2> QED
    BY <1>1, <1>2, <2>1, ZenonT(40) DEF TransportInv, ServedInv
<1> QED
  BY <1>4, <1>5, <1>6, <1>7, Zenon DEF TransportInv

\* A client that is not done sends its request, reads the answer or fails.
LEMMA ExchangeTransportInv ==
    ASSUME TransportInv, NEW c \in TransportClients,
           Handshake(c) \/ SendRequest(c) \/ ReadAnswer(c) \/ ConnFails(c)
    PROVE  TransportInv'
<1>1. /\ UNCHANGED <<ctxDone, watcher, deadline, outcome, peer, answer, serving, backlog>>
      /\ clientPc[c] \in {"handshaking", "requesting", "waiting"}
      /\ clientPc' \in {[clientPc EXCEPT ![c] = s] : s \in {"requesting", "waiting", "finishing"}}
      /\ fnErr' = fnErr \/ \E e : fnErr' = [fnErr EXCEPT ![c] = e]
      /\ request' = request \/ request' = [request EXCEPT ![c] = buildRequest(c)]
  BY Zenon DEF Handshake, SendRequest, ReadAnswer, ConnFails, config, serverState
<1>2. c \in Links /\ (\A l : Origin(l)' = Origin(l))
  BY <1>1, Zenon DEF Origin, Links
<1>3. /\ ~Passed(c) /\ clientPc'[c] # "returned" /\ outcome[c] # "conn"
      /\ \A d \in TransportClients \ {c} :
            (Passed(d)' <=> Passed(d)) /\ clientPc'[d] = clientPc[d] /\ fnErr'[d] = fnErr[d] /\ request'[d] = request[d]
  BY <1>1 DEF TransportInv, TransportTypes, DialInv, Passed, Links
<1>4. TransportTypes'
  <2>1. clientPc' \in [TransportClients -> {"idle", "handshaking", "requesting", "waiting", "finishing", "closing",
                                            "clearing", "returned"}]
    BY <1>1, SMTT(40) DEF TransportInv, TransportTypes
  <2>2. DOMAIN fnErr' = TransportClients /\ DOMAIN request' = Links
    BY <1>1, Zenon DEF TransportInv, TransportTypes
  <2> QED
    BY <1>1, <2>1, <2>2, ZenonT(40) DEF TransportInv, TransportTypes
<1>5. ServedInv'
  BY <1>1, <1>2, Zenon DEF TransportInv, ServedInv
<1>6. CASE Handshake(c) \/ SendRequest(c) \/ ConnFails(c)
  <2>1. clientUsed' = clientUsed /\ ~Passed(c)'
    BY <1>1, <1>6, ErrorsAreNotNil, ZenonT(40) DEF Handshake, SendRequest, ConnFails, Passed, TransportInv, TransportTypes
  <2>2. DialInv'
    <3> SUFFICES ASSUME NEW e \in TransportClients
                 PROVE  /\ Passed(e)' => answer'[e] # NoPayload /\ answer'[e][1] = e /\ request'[e].context \in clientUsed'
                        /\ outcome'[e] = "conn" => clientPc'[e] \in {"closing", "clearing", "returned"} /\ fnErr'[e] = nil
                        /\ deadline'[e] = "past" \/ watcher'[e] = "firing" => ctxDone'[e]
                        /\ clientPc'[e] = "returned" => deadline'[e] # "ahead"
      BY Zenon DEF DialInv
    <3>1. CASE e = c
      BY <1>1, <1>3, <2>1, <3>1, Zenon DEF TransportInv, DialInv
    <3>2. CASE e # c
      BY <1>1, <1>3, <2>1, <3>2, ZenonT(40) DEF TransportInv, DialInv
    <3> QED
      BY <3>1, <3>2
  <2>3. DistinctContexts'
    BY <1>3, <2>1, ZenonT(40) DEF TransportInv, DistinctContexts
  <2> QED
    BY <1>4, <1>5, <2>2, <2>3, Zenon DEF TransportInv
<1>7. CASE ReadAnswer(c)
  <2>1. PICK v \in Verdicts :
          /\ answer[c] # NoPayload /\ request' = request
          /\ v.used = clientUsed /\ v.client = c /\ v.sent = request[c].context /\ v.read = answer[c]
          /\ fnErr' = [fnErr EXCEPT ![c] = v.checked.err]
          /\ clientUsed' = v.checked.used
    BY <1>7, ZenonT(40) DEF ReadAnswer
  <2>2. PICK u \in SUBSET Contexts, d \in TransportClients, x \in Contexts, l \in Links, y \in Contexts :
          v = [used |-> u, client |-> d, sent |-> x, read |-> <<l, y>>, checked |-> Verdict(u, d, x, l, y)]
    BY <2>1 DEF Verdicts
  <2>3. /\ u = clientUsed /\ d = c /\ x = request[c].context /\ answer[c] = <<l, y>>
        /\ fnErr'[c] = Verdict(u, c, x, l, y).err /\ clientUsed' = Verdict(u, c, x, l, y).used
    BY <2>1, <2>2, ZenonT(40) DEF TransportInv, TransportTypes
  <2>4. Answer({}, l, y).err = nil
    <3>1. Answer({}, answer[c][1], answer[c][2]).err = nil
      BY <1>2, <2>1, Zenon DEF TransportInv, ServedInv
    <3> QED
      BY <2>3, <3>1
  <2>5. clientUsed \subseteq clientUsed'
    BY <2>3, <2>4, VerdictKeepsUsed, ZenonT(40)
  <2>6. Passed(c)' => answer[c][1] = c /\ request[c].context \notin clientUsed /\ request[c].context \in clientUsed'
    <3> SUFFICES ASSUME Passed(c)'
                 PROVE  answer[c][1] = c /\ request[c].context \notin clientUsed /\ request[c].context \in clientUsed'
      BY Zenon
    <3>1. Verdict(u, c, x, l, y).err = nil
      BY <2>3, ZenonT(40) DEF Passed
    <3>2. l = c /\ x \notin u /\ Verdict(u, c, x, l, y).used = u \cup {x}
      BY <2>4, <3>1, VerdictIsEndToEnd, SMTT(60)
    <3> QED
      BY <2>3, <3>2
  <2>7. DialInv'
    <3>1. outcome'[c] # "conn" /\ clientPc'[c] # "returned"
      BY <1>1, <1>3, Zenon
    <3>2. \A e \in TransportClients \ {c} :
            /\ (Passed(e)' <=> Passed(e)) /\ clientPc'[e] = clientPc[e] /\ fnErr'[e] = fnErr[e]
            /\ request[e].context \in clientUsed => request[e].context \in clientUsed'
      BY <1>3, <2>5, Zenon
    <3>3. /\ UNCHANGED <<answer, outcome, watcher, deadline, ctxDone, request>>
          /\ answer[c] # NoPayload
      BY <1>1, <2>1, ZenonT(40)
    <3>4. ASSUME NEW e \in TransportClients
          PROVE  Passed(e)' => answer'[e] # NoPayload /\ answer'[e][1] = e /\ request'[e].context \in clientUsed'
      <4>1. CASE e = c
        BY <2>6, <3>3, <4>1, ZenonT(40)
      <4>2. CASE e # c
        BY <3>2, <3>3, <4>2, ZenonT(40) DEF TransportInv, DialInv
      <4> QED
        BY <4>1, <4>2
    <3>5. ASSUME NEW e \in TransportClients
          PROVE  /\ outcome'[e] = "conn" => clientPc'[e] \in {"closing", "clearing", "returned"} /\ fnErr'[e] = nil
                 /\ deadline'[e] = "past" \/ watcher'[e] = "firing" => ctxDone'[e]
                 /\ clientPc'[e] = "returned" => deadline'[e] # "ahead"
      <4>1. CASE e = c
        BY <3>1, <3>3, <4>1, ZenonT(40) DEF TransportInv, DialInv
      <4>2. CASE e # c
        BY <3>2, <3>3, <4>2, ZenonT(40) DEF TransportInv, DialInv
      <4> QED
        BY <4>1, <4>2
    <3> QED
      BY <3>4, <3>5, Zenon DEF DialInv
  <2>8. DistinctContexts'
    <3> SUFFICES ASSUME NEW e \in TransportClients, NEW f \in TransportClients, e # f, Passed(e)', Passed(f)'
                 PROVE  request'[e].context # request'[f].context
      BY Zenon DEF DistinctContexts
    <3>1. request' = request
      BY <2>1
    <3>2. \A g \in TransportClients \ {c} : Passed(g)' => Passed(g) /\ request[g].context \in clientUsed
      BY <1>3, Zenon DEF TransportInv, DialInv
    <3>3. CASE e = c \/ f = c
      BY <2>6, <3>1, <3>2, <3>3, Zenon
    <3>4. CASE e # c /\ f # c
      BY <3>1, <3>2, <3>4, Zenon DEF TransportInv, DistinctContexts
    <3> QED
      BY <3>3, <3>4
  <2> QED
    BY <1>4, <1>5, <2>7, <2>8, Zenon DEF TransportInv
<1> QED
  BY <1>6, <1>7, Zenon

\* A client that is done returns: ReadCtxErr decides, and ClearDeadline is the last step.
LEMMA ReturnTransportInv ==
    ASSUME TransportInv, NEW c \in TransportClients, ReadCtxErr(c) \/ CloseDone(c) \/ ClearDeadline(c)
    PROVE  TransportInv'
<1>1. /\ UNCHANGED <<ctxDone, watcher, fnErr, peer, request, answer, serving, backlog, clientUsed>>
      /\ clientPc[c] \in {"finishing", "closing", "clearing"}
      /\ clientPc' \in {[clientPc EXCEPT ![c] = s] : s \in {"closing", "clearing", "returned"}}
      /\ deadline' = deadline \/ deadline' = [deadline EXCEPT ![c] = "clear"]
      /\ clientPc'[c] = "returned" => deadline' = [deadline EXCEPT ![c] = "clear"]
      /\ outcome' = outcome \/ outcome' = [outcome EXCEPT ![c] = IF ctxDone[c] \/ fnErr[c] # nil THEN "error" ELSE "conn"]
  BY ZenonT(40) DEF ReadCtxErr, CloseDone, ClearDeadline, config, serverState, TransportInv, TransportTypes
<1>2. (\A l : Origin(l)' = Origin(l)) /\ (\A d \in TransportClients : Passed(d)' <=> Passed(d))
  BY <1>1 DEF Origin, Passed, TransportInv, TransportTypes
<1>3. TransportTypes'
  <2>1. clientPc' \in [TransportClients -> {"idle", "handshaking", "requesting", "waiting", "finishing", "closing",
                                            "clearing", "returned"}]
    BY <1>1 DEF TransportInv, TransportTypes
  <2>2. deadline' \in [TransportClients -> {"clear", "ahead", "past"}]
    BY <1>1, Zenon DEF TransportInv, TransportTypes
  <2>3. outcome' \in [TransportClients -> {"none", "error", "conn"}]
    BY <1>1, ZenonT(40) DEF TransportInv, TransportTypes
  <2> QED
    BY <1>1, <2>1, <2>2, <2>3, ZenonT(40) DEF TransportInv, TransportTypes
<1>4. DialInv'
  BY <1>1, <1>2 DEF TransportInv, TransportTypes, DialInv
<1>5. DistinctContexts' /\ ServedInv'
  BY <1>1, <1>2, Zenon DEF TransportInv, DistinctContexts, ServedInv
<1> QED
  BY <1>3, <1>4, <1>5, Zenon DEF TransportInv

(***************************************************************************)
(* The inductive invariant: the answers on a connection are authenticators *)
(* of the connection it ends at, and a client that is done without an      *)
(* error has one of its own connection and has used up its context.        *)
(***************************************************************************)
THEOREM TransportInvariant == TransportSpec => []TransportInv
<1>1. TransportInv /\ [TransportNext]_transportVars => TransportInv'
  <2> SUFFICES ASSUME TransportInv, [TransportNext]_transportVars
               PROVE  TransportInv'
    BY Zenon
  <2>1. CASE ServerStep \/ ProviderFails \/ MiddleboxHandshake
    BY <2>1, ServerTransportInv, Zenon
  <2>2. ASSUME NEW c \in TransportClients, Dial(c) \/ ClientStep(c)
        PROVE  TransportInv'
    BY <2>2, DialTransportInv, ExchangeTransportInv, ReturnTransportInv, Zenon DEF ClientStep
  <2>3. ASSUME NEW c \in TransportClients, Cancel(c) \/ Expire(c) \/ WatcherSelects(c) \/ WatcherFires(c)
        PROVE  TransportInv'
    BY <2>3, ContextTransportInv, Zenon
  <2>4. ASSUME NEW c \in TransportClients, Forward(c) \/ ForwardAnswer(c)
        PROVE  TransportInv'
    BY <2>4, MiddleboxTransportInv, ZenonT(40)
  <2>5. CASE UNCHANGED transportVars
    BY <2>5 DEF transportVars, TransportInv, TransportTypes, DialInv, DistinctContexts, ServedInv, Passed, Origin
  <2> QED
    BY <2>1, <2>2, <2>3, <2>4, <2>5, Zenon DEF TransportNext
<1> QED
  BY <1>1, InitTransportInv, PTL DEF TransportSpec

(***************************************************************************)
(* A client whose dial succeeded speaks to the attested server itself: the *)
(* authenticator of a server behind a middlebox is refused, whatever the   *)
(* middlebox forwards when.                                                *)
(***************************************************************************)
THEOREM NoMiddleboxIsAccepted == TransportSpec => []AcceptedIsEndToEnd
<1>1. TransportInv => AcceptedIsEndToEnd
  <2> SUFFICES ASSUME TransportInv, NEW c \in TransportClients, outcome[c] = "conn"
               PROVE  peer[c] = "server" /\ answer[c] # NoPayload
    BY Zenon DEF AcceptedIsEndToEnd
  <2>1. answer[c] # NoPayload /\ answer[c][1] = c
    BY Zenon DEF TransportInv, DialInv, Passed
  <2>2. answer[c][1] = Origin(c)
    BY <2>1, ZenonT(40) DEF TransportInv, ServedInv, Links
  <2> QED
    BY <2>1, <2>2, TransportAssumption DEF Origin, TransportInv, TransportTypes
<1> QED
  BY <1>1, TransportInvariant, PTL

(***************************************************************************)
(* Clients that share a session never both succeed on one context          *)
(* (session.go MarkContextUsed).                                           *)
(***************************************************************************)
THEOREM NoContextServesTwice == TransportSpec => []ContextUsedOnce
<1>1. TransportInv => ContextUsedOnce
  BY DEF TransportInv, DialInv, DistinctContexts, ContextUsedOnce, Passed
<1> QED
  BY <1>1, TransportInvariant, PTL

(***************************************************************************)
(* A connection that was handed out carries no deadline of the dial unless *)
(* the caller's context ended (conn.go withConnContext).                   *)
(***************************************************************************)
THEOREM NoDeadlineIsLeft == TransportSpec => []ReturnedConnIsUsable
<1>1. TransportInv => ReturnedConnIsUsable
  BY Zenon DEF TransportInv, TransportTypes, DialInv, ReturnedConnIsUsable
<1> QED
  BY <1>1, TransportInvariant, PTL

=============================================================================
