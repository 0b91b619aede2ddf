--------------------------- MODULE SessionBinding ---------------------------
(***************************************************************************)
(* pkg/atls/identitypolicy: the binding of an assertion to a TLS session   *)
(* (ValidateAssertion in policy.go) and the checks of a session-binding    *)
(* statement against its grant (session_binding.go).                       *)
(*   binding   [leaf, exporter, context, binder, nonce, iat, exp]          *)
(*   statement [grantHash, audience, signer, binding]                      *)
(*   grant     [issuer, issuerKey, audience, grantHash, values,            *)
(*              confirmationKey, endpointKeys, iat, exp]                   *)
(* Times are numbers; ZeroTime is the zero time.Time.                      *)
(***************************************************************************)
EXTENDS IdentityPolicy

BindingFields == {"leaf", "exporter", "context", "binder", "nonce"}

\* Mutant of lifetimeErrors: the boundary exp itself is too late.
lifetimeExclusive(layer, iat, exp, missing, now) ==
    (IF exp = ZeroTime THEN {Error(layer, "expires_at", missing)}
     ELSE IF now # ZeroTime /\ now >= exp THEN {Error(layer, "expires_at", "expired")}
     ELSE {})
    \cup (IF iat # ZeroTime /\ now # ZeroTime /\ iat > now
          THEN {Error(layer, "issued_at", "future")} ELSE {})

\* The time checks that grants, statements and observed bindings share.
lifetimeErrors(layer, iat, exp, missing, now) ==
    (IF exp = ZeroTime THEN {Error(layer, "expires_at", missing)}
     ELSE IF now # ZeroTime /\ now > exp THEN {Error(layer, "expires_at", "expired")}
     ELSE {})
    \cup (IF iat # ZeroTime /\ now # ZeroTime /\ iat > now
          THEN {Error(layer, "issued_at", "future")} ELSE {})

boundFieldErrors(want, got) ==
    IF want \in Unsafe THEN {"unsafe"}
    ELSE IF isEmpty(got) THEN {"missing_binding"}
    ELSE IF got \in Unsafe THEN {"unsafe"}
    ELSE IF got # want THEN {"mismatch"} ELSE {}

validateBinding(observed, expected, now) ==
    LET bound == {f \in BindingFields : ~isEmpty(expected[f])}
    IN (IF bound = {} THEN {Error("binding", "*", "missing_expected")} ELSE {})
       \cup (UNION {Located("binding", f, boundFieldErrors(expected[f], observed[f])) : f \in bound})
       \cup lifetimeErrors("binding", observed.iat, observed.exp, "missing_binding", now)

ValidateAssertion(p, assertion, expected, now) ==
    validateBinding(assertion.binding, expected, now) \cup Validate(p, assertion.values)
-----------------------------------------------------------------------------
requiredString(layer, f, v, missing) ==
    Located(layer, f, IF isEmpty(v) THEN {missing} ELSE validateValue(v))

allowsBindingKey(g, key) ==
    /\ ~isEmpty(key)
    /\ \/ key = g.confirmationKey \/ key = g.values["agent_public_key"]
       \/ \E i \in DOMAIN g.endpointKeys : key = g.endpointKeys[i]

hasBindingKey(g) ==
    \/ ~isEmpty(g.confirmationKey) \/ ~isEmpty(g.values["agent_public_key"])
    \/ \E i \in DOMAIN g.endpointKeys : ~isEmpty(g.endpointKeys[i])

listErrors(values) ==
    IF Len(values) > MaxSetValues THEN {"too_many"}
    ELSE UNION {elementErrors(values[i], "missing_observed") : i \in DOMAIN values}

validateGrantValues(values) ==
    (UNION {Located("identity_grant", f,
                    IF isEmpty(values[f]) THEN {} ELSE validateFieldValue(f, values[f])) :
               f \in StringFields})
    \cup UNION {Located("identity_grant", f, listErrors(values[f])) : f \in SetFields}

\* The observed value must be well formed and equal the grant's.
agreesWithGrant(f, granted, stated) ==
    IF requiredString("session_binding", f, stated, "missing_observed") # {}
    THEN requiredString("session_binding", f, stated, "missing_observed")
    ELSE IF granted # stated THEN {Error("session_binding", f, "mismatch")} ELSE {}

signerErrors(g, signer) ==
    IF requiredString("session_binding", "signer_key", signer, "missing_observed") # {}
    THEN requiredString("session_binding", "signer_key", signer, "missing_observed")
    ELSE IF ~allowsBindingKey(g, signer)
    THEN {Error("session_binding", "signer_key", "unauthorized")}
    ELSE IF g.issuerKey # EmptyString /\ signer = g.issuerKey
    THEN {Error("session_binding", "issuer_key", "unauthorized")} ELSE {}

validateStatementBinding(b, now) ==
    (UNION {requiredString("session_binding", f, b[f], "missing_binding") :
               f \in {"leaf", "exporter", "context", "nonce"}})
    \cup (IF b.binder = EmptyString THEN {}
          ELSE requiredString("session_binding", "binder", b.binder, "missing_binding"))
    \cup lifetimeErrors("session_binding", b.iat, b.exp, "missing_binding", now)

\* ValidateSessionBindingStatementWithOptions up to the replay cache.
ValidateSessionBindingStatement(g, s, now) ==
    requiredString("identity_grant", "issuer", g.issuer, "missing_expected")
    \cup requiredString("identity_grant", "aud", g.audience, "missing_expected")
    \cup requiredString("identity_grant", "grant_hash", g.grantHash, "missing_expected")
    \cup agreesWithGrant("grant_hash", g.grantHash, s.grantHash)
    \cup agreesWithGrant("aud", g.audience, s.audience)
    \cup signerErrors(g, s.signer)
    \cup (IF hasBindingKey(g) THEN {}
          ELSE {Error("identity_grant", "confirmation_key", "missing_expected")})
    \cup validateGrantValues(g.values)
    \cup Located("identity_grant", "authorized_endpoint_key", listErrors(g.endpointKeys))
    \cup lifetimeErrors("identity_grant", g.iat, g.exp, "missing_expected", now)
    \cup validateStatementBinding(s.binding, now)

NewAssertion(g, s) == [values |-> g.values, binding |-> s.binding]

\* The parts of the key MarkSessionBindingUsed builds.
replayKeyParts(s) ==
    <<s.grantHash, s.audience, s.binding.exporter, s.binding.context, s.binding.nonce>>

\* The key: the bytes of the parts joined by a separator, a control character.
replayKey(s, bytes, separator) ==
    LET part(i) == bytes[replayKeyParts(s)[i]]
        before(i, rest) == part(i) \o separator \o rest
    IN before(1, before(2, before(3, before(4, part(5)))))
=============================================================================
