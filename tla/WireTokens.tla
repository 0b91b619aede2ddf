----------------------------- MODULE WireTokens -----------------------------
(***************************************************************************)
(* The three verifiers of signed identity tokens: "direct", the JWTs of    *)
(* pkg/clients/identity_jwt.go; "agtp", the JWTs of pkg/agtp/jwt.go, with  *)
(* a single-envelope form; and "cwt", pkg/agtp/cwt.go.  A verifier returns *)
(* the error of its first failing check, and "" for nil.                   *)
(*   token   [alg, kid, protectedKid, signedBy, duplicate, bytes, claims]  *)
(*   claims  [iss, aud, exp, iat, nbf, id, sub, cnf, endpointKeys, type,   *)
(*            legacyType, version, legacyVersion, values, scope, grantHash,*)
(*            binding]                                                     *)
(*   options [issuer, audience, methods, keyFunc, keys, disabled, revoked] *)
(* A token is well formed as JSON or CBOR; `bytes' names its encoding, and *)
(* its hash is taken to tell encodings apart.                              *)
(***************************************************************************)
EXTENDS SessionBinding

CONSTANTS
    Padded,         \* the strings with outer white space, each with what it trims to
    CallbackKeys,   \* what the callback KeyFunc knows: key ids to keys
    NoKey

Trim(v) == IF v \in DOMAIN Padded THEN Padded[v] ELSE IF isEmpty(v) THEN EmptyString ELSE v

\* The error of the first check <<failed, error>> that failed.
FirstFailure(checks) ==
    LET bad == {i \in DOMAIN checks : checks[i][1]}
    IN IF bad = {} THEN "" ELSE checks[CHOOSE i \in bad : \A j \in bad : i <= j][2]

\* A call whose error is handed on.
Fails(err) == <<err # "", err>>
-----------------------------------------------------------------------------
(* The options. *)

\* The key sources, which every verifier wants exactly one of.
keySourceChecks(o) == << <<~o.keyFunc /\ o.keys = <<>>, "missing_key_func">>,
                         <<o.keyFunc /\ o.keys # <<>>, "ambiguous_key_source">> >>

expectedChecks(o) == << <<isEmpty(o.issuer), "missing_expected_issuer">>,
                        <<isEmpty(o.audience), "missing_expected_audience">> >>

parserOptions(o) ==
    FirstFailure(keySourceChecks(o)
        \o << <<o.methods = {}, "missing_valid_methods">>,
              <<\E m \in o.methods : isEmpty(m) \/ m = "none", "unsafe_method">> >>
        \o expectedChecks(o))

\* The direct profile's copy of parserOptions.
jwtParserOptions(o) == parserOptions(o)

validateCWTVerifyOptions(o) ==
    FirstFailure(<< <<o.methods = {}, "missing_valid_methods">>,
                    <<"none" \in o.methods, "unsafe_method">> >>
        \o expectedChecks(o))

localKeyError(keys, i) ==
    FirstFailure(<< <<isEmpty(keys[i].id), "missing_key_id">>,
                    <<\E j \in 1..(i - 1) : Trim(keys[j].id) = Trim(keys[i].id), "duplicate_key_id">>,
                    <<keys[i].key = NoKey, "missing_local_key">> >>)

\* The errors of keyFuncForOptions: those of the first bad local key.
localKeysError(o) == FirstFailure([i \in DOMAIN o.keys |-> Fails(localKeyError(o.keys, i))])

stringSet(values) == {Trim(v) : v \in values} \ {EmptyString}

isListed(v, values) == Trim(v) \in stringSet(values)

\* Mutant of disabledKeys: a key disabled where it is configured is not skipped.
disabledByList(o) == stringSet(o.disabled)

disabledKeys(o) ==
    stringSet(o.disabled)
    \cup {Trim(o.keys[i].id) : i \in {j \in DOMAIN o.keys : o.keys[j].disabled}}

callbackKey(kid) == IF kid \in DOMAIN CallbackKeys THEN CallbackKeys[kid] ELSE NoKey

localKey(o, kid) ==
    IF \E i \in DOMAIN o.keys : Trim(o.keys[i].id) = Trim(kid)
    THEN o.keys[CHOOSE i \in DOMAIN o.keys : Trim(o.keys[i].id) = Trim(kid)].key
    ELSE NoKey

\* The functions that the three verifiers build, at key id kid: the key, or NoKey
\* for an unknown or disabled one.  Only the direct profile trims the id that it
\* hands to the callback.
verificationKeyFunc(o, kid) ==
    IF Trim(kid) \in disabledKeys(o) THEN NoKey
    ELSE IF o.keyFunc THEN callbackKey(Trim(kid)) ELSE localKey(o, kid)

keyFuncForOptions(o, kid) ==
    IF Trim(kid) \in disabledKeys(o) THEN NoKey
    ELSE IF o.keyFunc THEN callbackKey(kid) ELSE localKey(o, kid)

cwtKeyFuncForOptions(o, kid) == keyFuncForOptions(o, kid)
-----------------------------------------------------------------------------
(* Parsing. *)

\* The signer that a verifier reports; "" is the missing_key_id error.
tokenKeyID(t) == IF isEmpty(t.kid) \/ ~t.protectedKid THEN "" ELSE Trim(t.kid)

keyIDFromToken(t) == IF isEmpty(t.kid) \/ ~t.protectedKid THEN "" ELSE t.kid

keyIDFromCOSE(t) == IF isEmpty(t.kid) \/ ~t.protectedKid THEN "" ELSE t.kid

\* A member of the header or of the claims is there twice.
rejectDuplicateJWTJSONMembers(t) == t.duplicate

rejectDuplicateJWTMembers(t) == t.duplicate

\* One of the audiences is the expected one.
namesAudience(c, expected) == \E i \in DOMAIN c.aud : c.aud[i] = expected

cwtAudienceMatches(c, expected) == namesAudience(c, expected)

\* jwt.ParseWithClaims under the options that the parsers set, for the signer
\* and the key that the key function gives.
ParseWithClaims(t, o, now, signer, key) ==
    LET c == t.claims
    IN FirstFailure(<< <<t.alg \notin o.methods, "unsafe_method">>,
                       <<signer = "", "missing_key_id">>,
                       <<key = NoKey, "unknown_or_disabled_key">>,
                       <<key # t.signedBy, "signature">>,
                       <<c.exp = ZeroTime \/ now >= c.exp, "expired">>,
                       <<c.nbf # ZeroTime /\ now < c.nbf, "not_yet_valid">>,
                       <<c.iat # ZeroTime /\ now < c.iat, "future">>,
                       <<~namesAudience(c, o.audience), "invalid_audience">>,
                       <<c.iss # o.issuer, "invalid_issuer">> >>)

\* The direct profile looks for duplicate members before the options.
parseBindingJWT(t, o, now) ==
    LET parsed == ParseWithClaims(t, o, now, tokenKeyID(t), verificationKeyFunc(o, t.kid))
    IN FirstFailure(<< <<rejectDuplicateJWTMembers(t), "duplicate_member">>,
                       Fails(jwtParserOptions(o)),
                       Fails(localKeysError(o)),
                       Fails(parsed),
                       <<isListed(t.claims.id, o.revoked), "revoked_id">> >>)

parseJWT(t, o, now) ==
    LET parsed == ParseWithClaims(t, o, now, keyIDFromToken(t), keyFuncForOptions(o, t.kid))
    IN FirstFailure(<< Fails(parserOptions(o)),
                       Fails(localKeysError(o)),
                       <<rejectDuplicateJWTJSONMembers(t), "duplicate_member">>,
                       Fails(parsed),
                       <<isListed(t.claims.id, o.revoked), "revoked_id">> >>)

\* Mutant of validateCWTRegisteredClaims: the issuer is left to the key.
cwtClaimsOfAnyIssuer(c, o, now) ==
    FirstFailure(<< <<~cwtAudienceMatches(c, o.audience), "invalid_audience">>,
                    <<c.exp = ZeroTime \/ now > c.exp, "expired">>,
                    <<c.iat = ZeroTime \/ c.iat > now, "future">> >>)

validateCWTRegisteredClaims(c, o, now) ==
    FirstFailure(<< <<Trim(c.iss) # o.issuer, "invalid_issuer">>,
                    <<~cwtAudienceMatches(c, o.audience), "invalid_audience">>,
                    <<c.exp = ZeroTime, "missing_expiration">>,
                    <<c.iat = ZeroTime, "missing_issued_at">>,
                    <<now > c.exp, "expired">>,
                    <<c.iat > now, "future">> >>)

\* A revoked id is looked for by the callers, after the profile.
parseCWT(t, o, now) ==
    LET key == cwtKeyFuncForOptions(o, t.kid)
    IN FirstFailure(<< Fails(validateCWTVerifyOptions(o)) >>
           \o keySourceChecks(o)
           \o << Fails(localKeysError(o)),
                 <<~t.protectedKid /\ ~isEmpty(t.kid), "unprotected_key_id">>,
                 <<t.alg \notin o.methods, "unsafe_method">>,
                 <<keyIDFromCOSE(t) = "", "missing_key_id">>,
                 <<key = NoKey, "unknown_or_disabled_key">>,
                 <<key # t.signedBy, "signature">>,
                 Fails(validateCWTRegisteredClaims(t.claims, o, now)) >>)

signerKey(profile, t) ==
    CASE profile = "direct" -> tokenKeyID(t)
      [] profile = "agtp" -> keyIDFromToken(t)
      [] profile = "cwt" -> keyIDFromCOSE(t)

legacyTokenType(expected) ==
    CASE expected = "sbaip.identity-grant" -> "agtp.identity-grant"
      [] expected = "sbaip.session-binding" -> "agtp.session-binding"
      [] expected = "sbaip.session-envelope" -> "agtp.session-envelope"

validateProfileClaims(c, expected) ==
    FirstFailure(<< <<Trim(c.type) \notin {EmptyString, expected}, "invalid_token_type">>,
                    <<Trim(c.version) \notin {EmptyString, "1"}, "unsupported_version">>,
                    <<Trim(c.legacyType) \notin {EmptyString, expected, legacyTokenType(expected)},
                      "invalid_token_type">>,
                    <<Trim(c.legacyVersion) \notin {EmptyString, "1"}, "unsupported_version">>,
                    <<isEmpty(c.type) /\ isEmpty(c.legacyType), "invalid_token_type">>,
                    <<isEmpty(c.version) /\ isEmpty(c.legacyVersion), "unsupported_version">> >>)

\* The same for the direct profile, which knows no envelope.
legacyProfileValueMatches(v, expected) ==
    Trim(v) \in {EmptyString, expected}
              \cup (IF expected = "sbaip.session-envelope" THEN {} ELSE {legacyTokenType(expected)})

requireProfile(c, expected) ==
    FirstFailure(<< <<Trim(c.type) \notin {EmptyString, expected}, "invalid_token_type">>,
                    <<~legacyProfileValueMatches(c.legacyType, expected), "invalid_token_type">>,
                    <<\E v \in {c.version, c.legacyVersion} : Trim(v) \notin {EmptyString, "1"},
                      "unsupported_version">>,
                    <<isEmpty(c.type) /\ isEmpty(c.legacyType), "invalid_token_type">>,
                    <<isEmpty(c.version) /\ isEmpty(c.legacyVersion), "unsupported_version">> >>)

validateSessionBindingClaims(c) ==
    FirstFailure(<< <<isEmpty(c.grantHash), "missing_grant_hash">>,
                    <<\E f \in BindingFields \ {"binder"} : isEmpty(c.binding[f]),
                      "missing_binding_field">> >>)

requireSessionBindingFields(c) == validateSessionBindingClaims(c)
-----------------------------------------------------------------------------
(* The verifiers of one token. *)

appendScopeValues(values, words) == values \o words

withSpaceSeparatedValues(values, words) == values \o words

\* The checks on a grant, and on a binding, whose signature and profile hold.
grantClaims(c) == << <<isEmpty(c.id), "missing_id">>,
                     <<isEmpty(c.sub), "missing_subject">>,
                     <<isEmpty(c.cnf), "missing_confirmation_key">> >>

DirectIdentityGrantJWT(t, o, now) ==
    FirstFailure(<< Fails(parseBindingJWT(t, o, now)),
                    <<requireProfile(t.claims, "sbaip.identity-grant") # "", "profile">> >>
                 \o grantClaims(t.claims))

VerifyIdentityGrantJWT(t, o, now) ==
    FirstFailure(<< Fails(parseJWT(t, o, now)),
                    <<validateProfileClaims(t.claims, "sbaip.identity-grant") # "", "profile">> >>
                 \o grantClaims(t.claims))

VerifyIdentityGrantCWT(t, o, now) ==
    FirstFailure(<< Fails(parseCWT(t, o, now)),
                    <<validateProfileClaims(t.claims, "sbaip.identity-grant") # "", "profile">>,
                    <<isEmpty(t.claims.id), "missing_id">>,
                    <<isListed(t.claims.id, o.revoked), "revoked_id">> >>
                 \o grantClaims(t.claims))

IdentityGrantHash(t) == t.bytes

verifiedGrant(profile, t, o) ==
    LET c == t.claims
    IN [issuer |-> c.iss, issuerKey |-> signerKey(profile, t), audience |-> o.audience,
        grantHash |-> IdentityGrantHash(t),
        values |-> [c.values EXCEPT !["agent"] = IF @ = EmptyString THEN c.sub ELSE @,
                                    !["scopes"] = IF profile = "direct"
                                                  THEN withSpaceSeparatedValues(@, c.scope)
                                                  ELSE appendScopeValues(@, c.scope)],
        confirmationKey |-> c.cnf, endpointKeys |-> c.endpointKeys, iat |-> c.iat, exp |-> c.exp]

DirectSessionBindingJWT(t, o, now) ==
    FirstFailure(<< Fails(parseBindingJWT(t, o, now)),
                    <<requireProfile(t.claims, "sbaip.session-binding") # "", "profile">>,
                    <<isEmpty(t.claims.id), "missing_id">>,
                    <<requireSessionBindingFields(t.claims) # "", "binding_claims">> >>)

\* An envelope is checked as a binding of another type.
bindingJWT(t, o, now, type) ==
    FirstFailure(<< Fails(parseJWT(t, o, now)),
                    <<validateProfileClaims(t.claims, type) # "", "profile">>,
                    <<isEmpty(t.claims.id), "missing_id">>,
                    <<validateSessionBindingClaims(t.claims) # "", "binding_claims">> >>)

VerifySessionBindingJWT(t, o, now) == bindingJWT(t, o, now, "sbaip.session-binding")

VerifySessionBindingCWT(t, o, now) ==
    FirstFailure(<< Fails(parseCWT(t, o, now)),
                    <<validateProfileClaims(t.claims, "sbaip.session-binding") # "", "profile">>,
                    <<isEmpty(t.claims.id), "missing_id">>,
                    <<isListed(t.claims.id, o.revoked), "revoked_id">>,
                    <<validateSessionBindingClaims(t.claims) # "", "binding_claims">> >>)

verifiedStatement(profile, t, o) ==
    [grantHash |-> t.claims.grantHash, audience |-> o.audience, signer |-> signerKey(profile, t),
     binding |-> [f \in BindingFields \cup {"iat", "exp"} |->
                     CASE f = "iat" -> t.claims.iat [] f = "exp" -> t.claims.exp
                       [] OTHER -> t.claims.binding[f]]]
-----------------------------------------------------------------------------
(* The verifiers of a session's two tokens: the local requirements, the    *)
(* two tokens in the profile's order (`first' and `second' are their       *)
(* errors), then the statement and the policy; the nonce is marked after   *)
(* the last.                                                               *)

acceptTokens(profile, grant, binding, opts) ==
    LET g == verifiedGrant(profile, grant, opts.grant)
        s == verifiedStatement(profile, binding, opts.binding)
    IN FirstFailure(<< <<ValidateSessionBindingStatement(g, s, opts.now) # {}, "statement">>,
                       <<ValidateAssertion(opts.policy, NewAssertion(g, s), opts.session, opts.now) # {},
                         "policy">> >>)

sessionIdentity(profile, grant, binding, opts, first, second) ==
    FirstFailure(<< <<~Enabled(opts.policy), "missing_identity_policy">>,
                    <<~opts.replayCache, "missing_replay_cache">>,
                    Fails(first), Fails(second),
                    Fails(acceptTokens(profile, grant, binding, opts)) >>)

DirectSessionIdentityJWT(grant, binding, opts) ==
    sessionIdentity("direct", grant, binding, opts,
                    DirectIdentityGrantJWT(grant, opts.grant, opts.now),
                    DirectSessionBindingJWT(binding, opts.binding, opts.now))

AgtpSessionIdentityJWT(grant, binding, opts) ==
    sessionIdentity("agtp", grant, binding, opts,
                    VerifyIdentityGrantJWT(grant, opts.grant, opts.now),
                    VerifySessionBindingJWT(binding, opts.binding, opts.now))

VerifySessionIdentityCWT(grant, binding, opts) ==
    sessionIdentity("cwt", grant, binding, opts,
                    VerifyIdentityGrantCWT(grant, opts.grant, opts.now),
                    VerifySessionBindingCWT(binding, opts.binding, opts.now))

\* The envelope is a binding token that carries the grant's token.
VerifySessionIdentityJWTEnvelope(grant, envelope, opts) ==
    sessionIdentity("agtp", grant, envelope, opts,
                    bindingJWT(envelope, opts.binding, opts.now, "sbaip.session-envelope"),
                    VerifyIdentityGrantJWT(grant, opts.grant, opts.now))
=============================================================================
