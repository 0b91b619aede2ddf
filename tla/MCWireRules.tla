---------------------------- MODULE MCWireRules ----------------------------
(***************************************************************************)
(* The questions of MCIdentityRules and MCAgtpRules and, in the same form, *)
(* those to the verifiers of signed tokens:                                *)
(*   "tokens"    local options, and a grant and a binding token;           *)
(*   "route"     an expected route, and a token with its proof.            *)
(* A token differs from a plain, acceptable one in at most one field.      *)
(***************************************************************************)
EXTENDS MCIdentityRules, MCAgtpRules, GatewayRoute

MCPadded == [v \in {"m ", "a1 ", "i "} |-> CASE v = "m " -> "m" [] v = "a1 " -> "a1" [] v = "i " -> "i"]
MCCallbackKeys == [k \in {"m"} |-> "M"]
PlainClaims ==
    [iss |-> "i", aud |-> <<"v">>, exp |-> 3, iat |-> 1, nbf |-> ZeroTime, id |-> "id", sub |-> "a",
     cnf |-> "a1", endpointKeys |-> <<>>, type |-> "", legacyType |-> "", version |-> "1",
     legacyVersion |-> "", values |-> ValuesWith("a", "", <<>>), scope |-> <<>>, grantHash |-> "g1",
     binding |-> [f \in BindingFields |-> "a"]]

PlainToken(key, name, type) ==
    [alg |-> "ES256", kid |-> name, protectedKid |-> TRUE, signedBy |-> key, duplicate |-> FALSE,
     bytes |-> "g1", claims |-> [PlainClaims EXCEPT !.type = type]]

GrantToken == PlainToken("M", "m", "sbaip.identity-grant")
BindingToken == PlainToken("A", "a1", "sbaip.session-binding")

\* The tokens that differ from t in one field of the header or of the claims.
Variants(t, kids) ==
    {t}
    \cup {[t EXCEPT !.alg = "none"], [t EXCEPT !.protectedKid = FALSE], [t EXCEPT !.duplicate = TRUE],
          [t EXCEPT !.signedBy = "X"]}
    \cup {[t EXCEPT !.kid = k] : k \in kids}
    \cup {[t EXCEPT !.claims.iss = x] : x \in {"", "i ", "j"}}
    \cup {[t EXCEPT !.claims.aud = x] : x \in {<<>>, <<"w">>, <<"w", "v">>}}
    \cup {[t EXCEPT !.claims.exp = x] : x \in {ZeroTime, 2}}
    \cup {[t EXCEPT !.claims.iat = x] : x \in {ZeroTime, 3}}
    \cup {[t EXCEPT !.claims.nbf = 3]}
    \cup {[t EXCEPT !.claims.id = x] : x \in {"", "blank", "old"}}
    \cup {[t EXCEPT !.claims.type = x] : x \in {"", "agtp.identity-grant", "sbaip.identity-grant",
                                                 "sbaip.session-binding"}}
    \cup {[t EXCEPT !.claims.type = "", !.claims.legacyType = x] :
             x \in {"agtp.identity-grant", "agtp.session-binding"}}
    \cup {[t EXCEPT !.claims.version = x] : x \in {"", "2"}}

GrantVariants ==
    Variants(GrantToken, {"", "m ", "a1", "n", "x"})
    \cup {[GrantToken EXCEPT !.bytes = "g2"], [GrantToken EXCEPT !.claims.sub = ""],
          [GrantToken EXCEPT !.claims.cnf = ""], [GrantToken EXCEPT !.claims.cnf = "m"],
          [GrantToken EXCEPT !.claims.cnf = "a1 "], [GrantToken EXCEPT !.claims.scope = <<"s">>],
          [GrantToken EXCEPT !.claims.values["service"] = "b"]}

BindingVariants ==
    Variants(BindingToken, {"", "a1 ", "m", "x"})
    \cup {[BindingToken EXCEPT !.claims.grantHash = x] : x \in {"", "g2"}}
    \cup {[BindingToken EXCEPT !.claims.binding[f] = x] : f \in BindingFields, x \in {"", "b"}}

Key(name, key) == [id |-> name, key |-> key, disabled |-> FALSE]

PlainOptions(keys) ==
    [issuer |-> "i", audience |-> "v", methods |-> {"ES256"}, keyFunc |-> FALSE, keys |-> keys,
     disabled |-> {}, revoked |-> {"old"}]

ManagerOptions ==
    LET plain == PlainOptions(<<Key("m", "M"), [Key("n", "M") EXCEPT !.disabled = TRUE]>>)
    IN {plain, [plain EXCEPT !.keyFunc = TRUE, !.keys = <<>>], [plain EXCEPT !.keyFunc = TRUE],
        [plain EXCEPT !.disabled = {"m "}], [plain EXCEPT !.methods = {"ES256", "none"}],
        [plain EXCEPT !.keys = <<Key("m", "M"), Key("m ", "X")>>]}

TokenOptions ==
    {[grant |-> g, binding |-> PlainOptions(<<Key("a1", "A"), Key("m", "M")>>),
      policy |-> [mode |-> m, setMode |-> "", require |-> {"L3"}, expected |-> ValuesWith("a", "", <<>>)],
      session |-> [f \in BindingFields \cup {"iat", "exp"} |->
                     IF f \in {"iat", "exp"} THEN ZeroTime ELSE IF f = "nonce" THEN "" ELSE "a"],
      replayCache |-> r, now |-> t] :
        g \in ManagerOptions, m \in {"required", "disabled"}, r \in BOOLEAN, t \in {1, 2, 3}}
-----------------------------------------------------------------------------
PlainRoute == [f \in RouteFields \cup {"version"} |->
                 IF f = "gta_type" THEN "route" ELSE IF f = "version" THEN 1 ELSE "a"]

RouteToken == [PlainToken("M", "m", "") EXCEPT !.claims = [f \in DOMAIN PlainClaims \cup {"route"} |->
                   IF f = "route" THEN PlainRoute ELSE PlainClaims[f]]]

RouteTokens ==
    Variants(RouteToken, {"", "m ", "n"})
    \cup {[RouteToken EXCEPT !.claims.route[f] = x] : f \in RouteFields \ {"iss", "aud", "jti"}, x \in {"", "b", "<>"}}
    \cup {[RouteToken EXCEPT !.claims.route["version"] = 2]}

Proofs ==
    LET plain == [f \in ProofFields \cup {"iat", "exp"} |-> IF f = "iat" THEN 1 ELSE IF f = "exp" THEN 3 ELSE "a"]
    IN {NoProof, plain, [plain EXCEPT !["iat"] = 3], [plain EXCEPT !["exp"] = 1]}
       \cup {[plain EXCEPT ![f] = x] : f \in {"target_agent", "nonce"}, x \in {"", "b"}}

RouteOptions ==
    LET expected == [f \in ComparedFields |-> CASE f = "iss" -> "i" [] f = "aud" -> "v" [] OTHER -> "a"]
    IN {[assertion |-> PlainOptions(<<Key("m", "M")>>), proof |-> p, expected |-> e, grantHash |-> "a",
         sessionBinding |-> "a", holderProof |-> h, requireProof |-> q, replayCache |-> TRUE, now |-> t] :
           p \in Proofs, e \in {expected} \cup {[expected EXCEPT ![f] = ""] : f \in {"tenant", "route_id", "task_id"}},
           h \in {"", "a"}, q \in BOOLEAN, t \in {2, 3}}
-----------------------------------------------------------------------------
WireInit ==
    /\ shown = Nothing
    /\ \/ question = "tokens" /\ given \in TokenOptions
       \/ question = "route" /\ given \in RouteOptions

TokenPairs == [grant : GrantVariants, binding : {BindingToken}]
              \cup [grant : {GrantToken, [GrantToken EXCEPT !.claims.cnf = "a1 "]}, binding : BindingVariants]

WireNext ==
    \/ Show("tokens", TokenPairs)
    \/ Show("route", RouteTokens)

RulesInit == Init \/ AgtpInit \/ WireInit
RulesNext == Next \/ AgtpNext \/ WireNext
RulesSpec == RulesInit /\ [][RulesNext]_vars
-----------------------------------------------------------------------------
Profiles == {"direct", "agtp", "cwt"}

\* The envelope that says what a binding token says.
Envelope(t) ==
    LET to(x) == CASE x = "sbaip.session-binding" -> "sbaip.session-envelope"
                   [] x = "agtp.session-binding" -> "agtp.session-envelope" [] OTHER -> x
    IN [t EXCEPT !.claims.type = to(@), !.claims.legacyType = to(@)]

\* The verdicts on the tokens shown.
Verdict(profile) ==
    CASE profile = "direct" -> DirectSessionIdentityJWT(shown.grant, shown.binding, given)
      [] profile = "agtp" -> AgtpSessionIdentityJWT(shown.grant, shown.binding, given)
      [] profile = "cwt" -> VerifySessionIdentityCWT(shown.grant, shown.binding, given)
      [] profile = "envelope" ->
             VerifySessionIdentityJWTEnvelope(shown.grant, Envelope(shown.binding), given)

\* A token that o's owner asked for: from an enabled key, for this verifier, in force.
Genuine(t, o, now) ==
    /\ t.alg \in o.methods \ {"none"} /\ t.protectedKid
    /\ Trim(t.kid) \notin {Trim(d) : d \in o.disabled}
    /\ \/ \E i \in DOMAIN o.keys : /\ Trim(o.keys[i].id) = Trim(t.kid) /\ ~o.keys[i].disabled
                                   /\ o.keys[i].key = t.signedBy
       \/ o.keyFunc /\ t.signedBy = CallbackKeys["m"]
    /\ Trim(t.claims.iss) = o.issuer /\ \E i \in DOMAIN t.claims.aud : t.claims.aud[i] = o.audience
    /\ t.claims.iat <= now /\ now <= t.claims.exp
    /\ t.claims.id \notin o.revoked \cup Blank

\* The token was issued for the use type.
Typed(c, type) == type \in {c.type, c.legacyType} \/ legacyTokenType(type) = c.legacyType

(***************************************************************************)
(* An identity is accepted only on two genuine tokens of the right types,  *)
(* of which the second names the bytes of the first, is signed by a key    *)
(* the first authorises that is not the issuer's, and repeats the session  *)
(* the verifier itself observed; no profile and no envelope relaxes it.    *)
(***************************************************************************)
IdentityIsEarned ==
    Asks("tokens") => \A p \in Profiles \cup {"envelope"} : Verdict(p) = "" =>
        LET g == shown.grant
            b == shown.binding
        IN /\ Enabled(given.policy)
           /\ Genuine(g, given.grant, given.now) /\ Typed(g.claims, "sbaip.identity-grant")
           /\ Genuine(b, given.binding, given.now) /\ Typed(b.claims, "sbaip.session-binding")
           /\ b.claims.grantHash = g.bytes
           /\ Trim(b.kid) = Trim(g.claims.cnf) /\ Trim(b.kid) # Trim(g.kid)
           /\ \A f \in BindingFields : given.session[f] # "" => b.claims.binding[f] = given.session[f]
           /\ g.claims.values["service"] = given.policy.expected["service"]

\* Content that every profile can carry and no profile is stricter about.
Ordinary(t) ==
    /\ t.claims.iat # ZeroTime /\ t.claims.nbf = ZeroTime /\ given.now # t.claims.exp
    /\ t.kid \notin DOMAIN Padded /\ t.claims.iss \notin DOMAIN Padded /\ ~t.duplicate

-----------------------------------------------------------------------------
RouteVerdict(profile) ==
    IF profile = "cwt" THEN VerifyGatewayRouteCWT(shown, given) ELSE VerifyGatewayRouteJWT(shown, given)

(***************************************************************************)
(* A route assertion is accepted only for the route the verifier expects,  *)
(* for its grant and its gateway session, within its lifetime and, where   *)
(* required, with a live proof of the final agent that repeats the route   *)
(* and the nonce.                                                          *)
(***************************************************************************)
RouteIsEarned ==
    Asks("route") => \A p \in {"agtp", "cwt"} : RouteVerdict(p) = "" =>
        LET a == IF p = "cwt" THEN gatewayRouteAssertionFromCWTClaims(shown.claims)
                 ELSE gatewayRouteAssertionFromJWTClaims(shown.claims)
            e == given.expected
        IN /\ Genuine(shown, given.assertion, given.now)
           /\ \A f \in ComparedFields : e[f] # "" => a[f] = e[f]
           /\ \A f \in MandatoryExpected : e[f] # ""
           /\ \A f \in RequiredFields : a[f] \notin Blank \cup Bracketed
           /\ a["grant_hash"] = given.grantHash
           /\ a["gateway_session_binding_sha256"] = given.sessionBinding
           /\ given.requireProof =>
                 /\ given.proof # NoProof /\ a["agent_hok_proof_sha256"] = given.holderProof
                 /\ \A f \in ProofFields : a[f] # "" => given.proof[f] = a[f]
                 /\ given.proof.iat <= given.now /\ given.now <= given.proof.exp

(***************************************************************************)
(* What the JWT and the CWT verifiers accept was earned: an identity by    *)
(* two genuine tokens tied to each other and to the session, a route by a  *)
(* genuine assertion of the expected route, grant and gateway session.     *)
(***************************************************************************)
AcceptanceIsEarned == IdentityIsEarned /\ RouteIsEarned

(***************************************************************************)
(* The adapters are one profile, although each is written out anew: the    *)
(* three adapters and the envelope accept and refuse the same grants and   *)
(* bindings, and the JWT and the CWT adapter the same routes to one        *)
(* audience, except for padded names, absent issue times, not-before       *)
(* times, duplicate members and the very instant of expiry.                *)
(***************************************************************************)
AdaptersAgree ==
    /\ Asks("tokens") /\ Ordinary(shown.grant) /\ Ordinary(shown.binding) =>
          Cardinality({Verdict(p) = "" : p \in Profiles \cup {"envelope"}}) = 1
    /\ Asks("route") /\ Ordinary(shown) /\ Len(shown.claims.aud) = 1 =>
          Cardinality({RouteVerdict(p) = "" : p \in {"agtp", "cwt"}}) = 1
=============================================================================
