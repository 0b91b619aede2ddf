-------------------------- MODULE MCIdentityRules --------------------------
(***************************************************************************)
(* The validators over bounded inputs, as three questions:                 *)
(*   "policy"   a local policy, and observed values;                       *)
(*   "binding"  a grant, a session and a time, and a statement;            *)
(*   "key"      a statement, and another one.                              *)
(* Values of the last question are strings of the bytes "x" and "0", where *)
(* "0" stands for the NUL byte that MarkSessionBindingUsed joins with.     *)
(***************************************************************************)
EXTENDS SessionBinding, Questions

CONSTANTS
    Services, Intents, ScopeLists, Modes, SetModes,
    Signers,    \* keys
    KeyLists,   \* lists of keys
    Texts,      \* values of the other fields of a statement
    Times,      \* with ZeroTime
    KeyTexts,   \* values of the parts of a replay key
    Bytes       \* the bytes of such a value

\* Lists hold strings, the zero string is blank and otherwise unobjectionable, and
\* a string with a NUL byte, a control character, is unsafe.
ASSUME RulesAssumption ==
    /\ ScopeLists \cup KeyLists \subseteq Seq(STRING) /\ Times \subseteq Nat /\ MaxSetValues \in Nat
    /\ EmptyString \in Blank \ (TooLong \cup Unsafe)
    /\ "x" \in KeyTexts /\ \A v \in KeyTexts : Bytes[v] \in Seq(STRING)
    /\ \A v \in KeyTexts \ Unsafe : \A i \in DOMAIN Bytes[v] : Bytes[v][i] # "0"
    /\ \A v, w \in KeyTexts : Bytes[v] = Bytes[w] => v = w

\* Values with one field of L3, the reference field of L5 and a list of L6.
ValuesWith(service, intent, scopes) ==
    [f \in StringFields \cup SetFields |->
        CASE f = "service" -> service [] f = "intent_ref" -> intent [] f = "scopes" -> scopes
          [] f \in SetFields \ {"scopes"} -> <<>> [] OTHER -> EmptyString]

MCScopeLists == {<<>>, <<"">>, <<"a">>, <<"b">>, <<"b", "a">>, <<"a", "", "a">>, <<"<>">>,
                 <<"a", "b", "a", "b">>}

MCKeyLists == {<<>>, <<"", "k1">>}

MCValues == {ValuesWith(s, i, l) : s \in Services, i \in Intents, l \in ScopeLists}

PlainValues(agentKey) == [ValuesWith("a", EmptyString, <<>>) EXCEPT !["agent_public_key"] = agentKey]

Policies == [mode : Modes, setMode : SetModes, require : SUBSET {"L3", "L5", "L6"},
             expected : MCValues]

Grants == {[issuer |-> "a", issuerKey |-> ik, audience |-> "a", grantHash |-> "a",
            values |-> PlainValues(ak), confirmationKey |-> ck, endpointKeys |-> ek,
            iat |-> 1, exp |-> e] :
             ik \in {EmptyString, "k1"}, ak \in {EmptyString, "k1"},
             ck \in {EmptyString, "k2"}, ek \in KeyLists, e \in {ZeroTime, 2}}

Sessions == {[leaf |-> "a", exporter |-> x, context |-> "a", binder |-> b, nonce |-> EmptyString,
              iat |-> ZeroTime, exp |-> ZeroTime] : x \in {EmptyString, "a"}, b \in {EmptyString, "a"}}

\* One field of the binding or the statement may differ from the plain one.
Statement(signer, field, text, iat, exp) ==
    [grantHash |-> IF field = "grantHash" THEN text ELSE "a",
     audience |-> IF field = "audience" THEN text ELSE "a",
     signer |-> signer,
     binding |-> [f \in BindingFields \cup {"iat", "exp"} |->
                    CASE f = "iat" -> iat [] f = "exp" -> exp
                      [] f = field -> text [] OTHER -> "a"]]

Statements == {Statement(s, f, t, iat, exp) :
                 s \in Signers, f \in BindingFields \cup {"grantHash", "audience"}, t \in Texts,
                 iat \in {ZeroTime, 2}, exp \in {ZeroTime, 2, 3}}

KeyStatements == {[grantHash |-> h, audience |-> a, signer |-> "k",
                   binding |-> [leaf |-> "x", exporter |-> "x", context |-> c, binder |-> EmptyString,
                                nonce |-> n, iat |-> ZeroTime, exp |-> 2]] :
                    h \in KeyTexts, a \in KeyTexts, c \in KeyTexts, n \in KeyTexts}

Init ==
    /\ shown = Nothing
    /\ \/ question = "policy" /\ given \in Policies
       \/ question = "binding" /\ given \in [grant : Grants, session : Sessions, now : Times]
       \/ question = "key" /\ given \in KeyStatements

Next == Show("policy", MCValues) \/ Show("binding", Statements) \/ Show("key", KeyStatements)

Spec == Init /\ [][Next]_vars
-----------------------------------------------------------------------------
Accepted(p, v) == Validate(p, v) = {}

\* The fields of layer l that the policy names.
Named(p, l) == IF l = "L6" THEN wanted(L6References, p.expected)
               ELSE wanted(ExactLayers[l], p.expected)
NamedSets(p) == {f \in SetFields : p.expected[f] # <<>>}
Good(v) == ~isEmpty(v) /\ v \notin TooLong \cup Unsafe
Elements(list) == {list[i] : i \in DOMAIN list}

\* What it means that values v are those policy p asks for.
Conforms(p, v) ==
    /\ p.mode \in {EmptyString, "disabled", "required"}
    /\ p.setMode \in {EmptyString, "contains_all", "exact"}
    /\ p.mode = "required" => p.require # {}
    /\ \A l \in p.require :
          /\ Named(p, l) # {} \/ (l = "L6" /\ NamedSets(p) # {})
          /\ \A f \in Named(p, l) :
                /\ v[f] = p.expected[f] /\ Good(v[f])
                /\ f \in {"intent_ref"} \cup L6References => v[f] \in References
    /\ "L6" \in p.require => \A f \in NamedSets(p) :
          LET E == Elements(p.expected[f])
              O == Elements(v[f]) \ Blank
          IN /\ Len(p.expected[f]) <= MaxSetValues /\ Len(v[f]) <= MaxSetValues
             /\ \A e \in E \cup O : Good(e)
             /\ IF p.setMode = "contains_all" THEN E \subseteq O ELSE E = O

(***************************************************************************)
(* Validate accepts the observed values that the policy asks for and no    *)
(* others: a required layer that names nothing, a blank or malformed       *)
(* element and a list beyond the limit all reject.                         *)
(***************************************************************************)
AcceptsExactlyConforming ==
    Asks("policy") => (Accepted(given, shown) <=> Conforms(given, shown))

-----------------------------------------------------------------------------
ServicePolicy == [mode |-> "required", setMode |-> EmptyString, require |-> {"L3"},
                  expected |-> PlainValues(EmptyString)]

\* Both checks of a statement s under policy p, grant g, session e and time t.
StatementAccepted(p, g, e, t, s) ==
    /\ ValidateSessionBindingStatement(g, s, t) = {}
    /\ ValidateAssertion(p, NewAssertion(g, s), e, t) = {}

Live(iat, exp, t) == exp # ZeroTime /\ (t # ZeroTime => iat <= t /\ t <= exp)

\* A list within the limit whose elements are blank or good.
Bounded(list) == Len(list) <= MaxSetValues /\ \A v \in Elements(list) \ Blank : Good(v)

WellFormed(g) ==
    /\ Good(g.issuer) /\ Good(g.audience) /\ Good(g.grantHash)
    /\ \A f \in StringFields : g.values[f] \notin Blank =>
          /\ Good(g.values[f])
          /\ f \in {"intent_ref"} \cup L6References => g.values[f] \in References
    /\ \A f \in SetFields : Bounded(g.values[f])
    /\ Bounded(g.endpointKeys)

\* The grant, the statement and the session name one interaction.
SameInteraction(p, g, e, t, s) ==
    LET b == s.binding
    IN /\ WellFormed(g) /\ Conforms(p, g.values)
       /\ s.grantHash = g.grantHash /\ s.audience = g.audience
       /\ s.signer \in {g.confirmationKey, g.values["agent_public_key"]} \cup Elements(g.endpointKeys)
       /\ Good(s.signer) /\ s.signer # g.issuerKey
       /\ \E f \in BindingFields : e[f] \notin Blank
       /\ \A f \in BindingFields : e[f] \notin Blank => b[f] = e[f]
       /\ \A f \in BindingFields \ {"binder"} : Good(b[f])
       /\ b.binder = EmptyString \/ Good(b.binder)
       /\ Live(g.iat, g.exp, t) /\ Live(b.iat, b.exp, t)

(***************************************************************************)
(* The package's acceptance rule: the statement is accepted exactly when   *)
(* the verified grant, the session proof and the accepted session identify *)
(* the same interaction, and the issuer's own key never signs for it.      *)
(***************************************************************************)
AcceptsExactlySameInteraction ==
    Asks("binding") =>
        (StatementAccepted(ServicePolicy, given.grant, given.session, given.now, shown)
            <=> SameInteraction(ServicePolicy, given.grant, given.session, given.now, shown))

-----------------------------------------------------------------------------
MCBytes == [v \in KeyTexts |->
    CASE v = "x" -> <<"x">> [] v = "xx" -> <<"x", "x">> [] v = "x0" -> <<"x", "0">>
      [] v = "0x" -> <<"0", "x">>]

\* The grant a statement of this shape belongs to.
GrantOf(s) ==
    [issuer |-> "x", issuerKey |-> EmptyString, audience |-> s.audience, grantHash |-> s.grantHash,
     values |-> ValuesWith(EmptyString, EmptyString, <<>>), confirmationKey |-> "k", endpointKeys |-> <<>>,
     iat |-> ZeroTime, exp |-> 2]

Valid(s) == ValidateSessionBindingStatement(GrantOf(s), s, 1) = {}

(***************************************************************************)
(* Two statements that pass validation share a replay key only if they     *)
(* agree in the grant hash, the audience, both session hashes and the      *)
(* nonce: a fresh statement is never refused as the replay of another.     *)
(***************************************************************************)
ReplayKeyIsInjective ==
    /\ Asks("key") /\ Valid(given) /\ Valid(shown)
    /\ replayKey(given, Bytes, <<"0">>) = replayKey(shown, Bytes, <<"0">>)
    => replayKeyParts(given) = replayKeyParts(shown)
=============================================================================
