---------------------------- MODULE GatewayRoute ----------------------------
(***************************************************************************)
(* Gateway route assertions: the policy gate of pkg/agtp/gatewayroute and  *)
(* the JWT and CWT adapters of pkg/agtp/gateway_route*.go.  An assertion   *)
(* maps the names of its claims to values; a holder-of-key proof maps the  *)
(* names of the claims it repeats.  A proof or a field that is absent is   *)
(* NoProof or EmptyString.                                                 *)
(***************************************************************************)
EXTENDS WireTokens

CONSTANTS
    Bracketed,      \* strings with a line break or an angle bracket
    NoProof

RequiredFields == {"gta_type", "iss", "aud", "jti", "nonce", "grant_hash",
    "gateway_session_binding_sha256", "route_id", "next_hop", "policy_id", "target_agent",
    "upstream_authn", "upstream_peer", "request_context_sha256"}

MandatoryExpected == {"iss", "aud", "route_id", "policy_id", "target_agent", "request_context_sha256"}

ComparedFields == MandatoryExpected \cup {"tenant", "authority_scope", "target_workload",
    "target_agent_key_thumbprint", "task_id", "context_id", "audit_hash"}

ProofFields == {"target_agent", "target_workload", "target_agent_key_thumbprint", "grant_hash",
    "route_id", "task_id", "context_id", "nonce"}

RouteFields == RequiredFields \cup ComparedFields \cup ProofFields
                   \cup {"agent_hok_proof_sha256"}

isUnsafe(v) == v \in Bracketed

validateObserved(v) == IF isEmpty(v) THEN {"missing_observed"} ELSE IF isUnsafe(v) THEN {"unsafe"} ELSE {}

validateCore(a, now) ==
    (UNION {Located("route", f, validateObserved(a[f])) : f \in RequiredFields})
    \cup (IF a["gta_type"] \notin {EmptyString, "route"} THEN {Error("route", "gta_type", "mismatch")} ELSE {})
    \cup (IF a.version # 1 THEN {Error("route", "gta_version", "mismatch")} ELSE {})
    \cup (IF a.iat = ZeroTime THEN {Error("route", "iat", "missing_observed")}
          ELSE IF a.iat > now THEN {Error("route", "iat", "future")} ELSE {})
    \cup (IF a.exp = ZeroTime THEN {Error("route", "exp", "missing_observed")}
          ELSE IF now > a.exp THEN {Error("route", "exp", "expired")} ELSE {})

compareExpected(a, expected) ==
    (UNION {IF isEmpty(expected[f]) THEN {}
            ELSE IF isUnsafe(expected[f]) THEN {Error("route", f, "unsafe")}
            ELSE IF validateObserved(a[f]) # {} THEN Located("route", f, validateObserved(a[f]))
            ELSE IF expected[f] # a[f] THEN {Error("route", f, "mismatch")} ELSE {} : f \in ComparedFields})
    \cup (IF \E f \in MandatoryExpected : isEmpty(expected[f])
          THEN {Error("route", "*", "missing_expected")} ELSE {})

holderKeyThumbprint(a, expected) ==
    IF expected["target_agent_key_thumbprint"] # EmptyString
    THEN expected["target_agent_key_thumbprint"] ELSE a["target_agent_key_thumbprint"]

validateHolderProof(a, proof, expected, now) ==
    LET want(f) == IF f = "target_agent_key_thumbprint" THEN holderKeyThumbprint(a, expected) ELSE a[f]
    IN IF proof = NoProof THEN {Error("proof", "agent_hok_proof_sha256", "missing_observed")}
       ELSE (UNION {IF isEmpty(want(f)) THEN {}
                    ELSE IF validateObserved(proof[f]) # {} THEN Located("proof", f, validateObserved(proof[f]))
                    ELSE IF want(f) # proof[f] THEN {Error("proof", f, "mismatch")} ELSE {} : f \in ProofFields})
            \cup (IF proof.iat > now THEN {Error("proof", "iat", "future")} ELSE {})
            \cup (IF proof.exp = ZeroTime THEN {Error("proof", "exp", "missing_observed")}
                  ELSE IF now > proof.exp THEN {Error("proof", "exp", "expired")} ELSE {})
            \cup (IF isEmpty(a["agent_hok_proof_sha256"])
                  THEN {Error("proof", "agent_hok_proof_sha256", "missing_observed")} ELSE {})

\* gatewayroute.Validate up to the replay cache.
ValidateRoute(a, proof, expected, requireProof, now) ==
    validateCore(a, now) \cup compareExpected(a, expected)
    \cup (IF requireProof THEN validateHolderProof(a, proof, expected, now) ELSE {})

-----------------------------------------------------------------------------
(* The adapters. *)

\* The assertion that the claims c make to the audience aud.
assertionFor(c, aud) ==
    [f \in RouteFields \cup {"version", "iat", "exp"} |->
        CASE f = "aud" -> aud [] f = "iss" -> c.iss [] f = "jti" -> c.id
          [] f = "iat" -> c.iat [] f = "exp" -> c.exp [] OTHER -> c.route[f]]

\* A JWT's first audience.
gatewayRouteAssertionFromJWTClaims(c) ==
    assertionFor(c, IF c.aud = <<>> THEN EmptyString ELSE c.aud[1])

\* The audience of a CWT when it is one string.
gatewayRouteAssertionFromCWTClaims(c) ==
    assertionFor(c, IF Len(c.aud) = 1 THEN c.aud[1] ELSE EmptyString)

validateGatewayRouteCore(a) ==
    FirstFailure(<< <<a["gta_type"] # "route", "invalid_token_type">>,
                    <<a.version # 1, "unsupported_version">>,
                    <<isEmpty(a["jti"]), "missing_id">> >>)

validateGatewayRouteAcceptance(a, opts) ==
    FirstFailure(<< <<isEmpty(opts.grantHash), "missing_expected">>,
                    <<opts.grantHash # a["grant_hash"], "mismatch">>,
                    <<isEmpty(opts.sessionBinding), "missing_expected">>,
                    <<opts.sessionBinding # a["gateway_session_binding_sha256"], "mismatch">>,
                    <<opts.requireProof /\ isEmpty(opts.holderProof), "missing_expected">>,
                    <<opts.requireProof /\ opts.holderProof # a["agent_hok_proof_sha256"], "mismatch">> >>)

VerifyGatewayRouteAssertionJWT(t, o, now) ==
    LET a == gatewayRouteAssertionFromJWTClaims(t.claims)
    IN FirstFailure(<< Fails(parseJWT(t, o, now)),
                       Fails(validateGatewayRouteCore(a)) >>)

VerifyGatewayRouteAssertionCWT(t, o, now) ==
    LET a == gatewayRouteAssertionFromCWTClaims(t.claims)
    IN FirstFailure(<< Fails(parseCWT(t, o, now)),
                       <<t.claims.id = EmptyString, "missing_id">>,
                       <<isListed(t.claims.id, o.revoked), "revoked_id">>,
                       Fails(validateGatewayRouteCore(a)) >>)

\* The checks around a token whose own checks end with the error `verified'.
acceptRoute(a, opts, verified) ==
    FirstFailure(<< <<~opts.replayCache, "missing_replay_cache">>,
                    Fails(verified),
                    Fails(validateGatewayRouteAcceptance(a, opts)),
                    <<ValidateRoute(a, opts.proof, opts.expected, opts.requireProof, opts.now) # {}, "route">> >>)

VerifyGatewayRouteJWT(t, opts) ==
    acceptRoute(gatewayRouteAssertionFromJWTClaims(t.claims), opts,
                VerifyGatewayRouteAssertionJWT(t, opts.assertion, opts.now))

VerifyGatewayRouteCWT(t, opts) ==
    acceptRoute(gatewayRouteAssertionFromCWTClaims(t.claims), opts,
                VerifyGatewayRouteAssertionCWT(t, opts.assertion, opts.now))
=============================================================================
