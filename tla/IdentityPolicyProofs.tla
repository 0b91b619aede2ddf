------------------------ MODULE IdentityPolicyProofs ------------------------
(***************************************************************************)
(* Proofs about pkg/atls/identitypolicy and the static policies of AGTP:   *)
(* what the validators accept, for every policy, grant, statement and      *)
(* session, and the replay key.                                            *)
(***************************************************************************)
EXTENDS MCIdentityRules, MCAgtpRules, FiniteSetTheorems, SequenceTheorems, WellFoundedInduction, TLAPS

Before == {p \in Nat \X Nat : p[1] < p[2]}

\* A set of naturals that is not empty has a least element.
LEMMA LeastNatural ==
    ASSUME NEW T \in SUBSET Nat, T # {}
    PROVE  \E x \in T : \A y \in T : x <= y
<1>1. IsWellFoundedOn(Before, Nat)
  BY NatLessThanWellFounded, Zenon DEF OpToRel, Before
<1>2. PICK x \in T : \A y \in T : <<y, x>> \notin Before
  BY <1>1, WFMin, Zenon
<1>3. ASSUME NEW y \in T
      PROVE  x <= y
  <2>1. y < x => <<y, x>> \in Before
    BY Zenon DEF Before
  <2> QED
    BY <1>2, <2>1
<1> QED
  BY <1>2, <1>3, Zenon
-----------------------------------------------------------------------------
(* The comparison of values with a policy. *)

\* The values of an identity: the fields of L6 that are lists hold strings.
IsValues(v) == \A f \in SetFields : v[f] \in Seq(STRING)

\* The loop over a list returns an error exactly when some element has one.
LEMMA NoFirstError ==
    ASSUME NEW values \in Seq(STRING), NEW err
    PROVE  firstError(values, err) = {} <=> \A i \in DOMAIN values : elementErrors(values[i], err) = {}
<1> DEFINE bad == {i \in DOMAIN values : elementErrors(values[i], err) # {}}
           first == {j \in bad : \A k \in bad : j <= k}
<1>1. firstError(values, err) = UNION {elementErrors(values[i], err) : i \in first}
  BY Zenon DEF firstError
<1>2. bad \in SUBSET Nat
  OBVIOUS
<1>3. bad # {} => first # {}
  BY <1>2, LeastNatural, Zenon
<1> QED
  BY <1>1, <1>3, Zenon

\* The elements of a list are finitely many.
LEMMA ElementsAreFinite ==
    ASSUME NEW values \in Seq(STRING)
    PROVE  IsFiniteSet(Elements(values)) /\ IsFiniteSet(nonBlank(values))
<1> DEFINE E == Elements(values)
<1>1. Len(values) \in Nat /\ values \in [1..Len(values) -> STRING]
  OBVIOUS
<1>2. values \in Surjection(1..Len(values), E)
  BY <1>1, Zenon DEF Surjection, Elements
<1>3. IsFiniteSet(1..Len(values))
  BY <1>1, FS_Interval
<1>4. IsFiniteSet(E)
  BY <1>2, <1>3, FS_Surjection, Zenon
<1>5. nonBlank(values) \in SUBSET E
  BY Zenon DEF nonBlank, Elements
<1> QED
  BY <1>4, <1>5, FS_Subset, Zenon

\* A value is good when the validators find nothing wrong with it.
LEMMA GoodValue ==
    ASSUME NEW v
    PROVE  /\ ~isEmpty(v) /\ validateValue(v) = {} <=> Good(v)
           /\ elementErrors(v, "missing_expected") = {} <=> Good(v)
           /\ elementErrors(v, "missing_observed") = {} <=> v \in Blank \/ Good(v)
BY Zenon DEF Good, isEmpty, validateValue, elementErrors

LEMMA FieldComparison ==
    ASSUME NEW f, NEW want, NEW got, ~isEmpty(want)
    PROVE  fieldErrors(f, want, got) = {} <=>
              /\ got = want /\ Good(got)
              /\ f \in {"intent_ref"} \cup L6References => got \in References
BY Zenon DEF fieldErrors, isEmpty, validateFieldValue, validateReferenceValue, validateValue, Good

LEMMA NothingLocated ==
    ASSUME NEW layer, NEW f, NEW errs
    PROVE  Located(layer, f, errs) = {} <=> errs = {}
BY Zenon DEF Located

LEMMA ComparedFieldsAgree ==
    ASSUME NEW layer, NEW fs, NEW expected, NEW observed
    PROVE  comparedFields(layer, fs, expected, observed) = {} <=>
              \A f \in wanted(fs, expected) :
                 /\ observed[f] = expected[f] /\ Good(observed[f])
                 /\ f \in {"intent_ref"} \cup L6References => observed[f] \in References
<1>1. comparedFields(layer, fs, expected, observed) = {} <=>
        \A f \in wanted(fs, expected) : fieldErrors(f, expected[f], observed[f]) = {}
  BY NothingLocated DEF comparedFields
<1>2. \A f \in wanted(fs, expected) : ~isEmpty(expected[f])
  BY Zenon DEF wanted
<1> QED
  BY <1>1, <1>2, FieldComparison, Zenon

\* The two comparisons of lists, and what they come to.
LEMMA SetComparison ==
    ASSUME NEW E \in Seq(STRING), NEW O \in Seq(STRING), E # <<>>, NEW mode
    PROVE  validateSet(E, O, mode) = {} <=>
              /\ mode \in {"exact", "contains_all"}
              /\ Len(E) <= MaxSetValues /\ Len(O) <= MaxSetValues
              /\ \A e \in Elements(E) \cup (Elements(O) \ Blank) : Good(e)
              /\ IF mode = "contains_all" THEN Elements(E) \subseteq Elements(O) \ Blank
                 ELSE Elements(E) = Elements(O) \ Blank
<1> DEFINE goodE == \A e \in Elements(E) : Good(e)
           goodO == \A e \in Elements(O) \ Blank : Good(e)
<1>0. /\ Len(E) > MaxSetValues <=> ~(Len(E) <= MaxSetValues)
      /\ Len(O) > MaxSetValues <=> ~(Len(O) <= MaxSetValues)
  BY RulesAssumption
<1>1. Elements(E) # {}
  <2>1. 1 \in DOMAIN E
    BY EmptySeq
  <2>2. E[1] \in Elements(E)
    BY <2>1, Zenon DEF Elements
  <2> QED
    BY <2>2, Zenon
<1>2. nonBlank(O) = Elements(O) \ Blank
  BY Zenon DEF nonBlank, Elements, isEmpty
<1>3. goodE => nonBlank(E) = Elements(E)
  BY Zenon DEF nonBlank, Elements, isEmpty, Good
<1>4. firstError(E, "missing_expected") = {} <=> goodE
  BY NoFirstError, GoodValue, Zenon DEF Elements
<1>5. firstError(O, "missing_observed") = {} <=> goodO
  BY NoFirstError, GoodValue, Zenon DEF Elements
<1> HIDE DEF goodE, goodO
<1>6. validateSet(E, O, "contains_all") = {} <=>
        /\ Len(E) <= MaxSetValues /\ Len(O) <= MaxSetValues
        /\ goodE /\ goodO /\ Elements(E) \subseteq nonBlank(O)
  <2>1. validateSet(E, O, "contains_all") = requireContainsAll(E, O)
    BY Zenon DEF validateSet
  <2>2. goodE /\ Elements(E) \subseteq nonBlank(O) => nonBlank(O) # {}
    BY <1>1, Zenon
  <2> QED
    BY <1>0, <1>3, <1>4, <1>5, <2>1, <2>2, ZenonT(30) DEF requireContainsAll
<1>7. validatedSet(E, "missing_expected") = {} <=> Len(E) <= MaxSetValues /\ goodE
  BY <1>0, <1>1, <1>3, <1>4, Zenon DEF validatedSet
<1>8. validatedSet(O, "missing_observed") = {} <=>
        Len(O) <= MaxSetValues /\ goodO /\ nonBlank(O) # {}
  BY <1>0, <1>5, Zenon DEF validatedSet
<1>9. goodE /\ Elements(E) \subseteq nonBlank(O) =>
        (Cardinality(nonBlank(E)) = Cardinality(nonBlank(O)) <=> Elements(E) = nonBlank(O))
  BY <1>3, ElementsAreFinite, FS_Subset, Zenon
<1>10. validateSet(E, O, "exact") = {} <=>
        /\ Len(E) <= MaxSetValues /\ Len(O) <= MaxSetValues
        /\ goodE /\ goodO /\ Elements(E) = nonBlank(O)
  <2>1. validateSet(E, O, "exact") = requireExactSet(E, O)
    BY Zenon DEF validateSet
  <2>2. Elements(E) = nonBlank(O) => nonBlank(O) # {}
    BY <1>1, Zenon
  <2> QED
    BY <1>3, <1>7, <1>8, <1>9, <2>1, <2>2, Zenon DEF requireExactSet
<1>11. mode \notin {"exact", "contains_all"} => validateSet(E, O, mode) # {}
  BY Zenon DEF validateSet
<1>12. (\A e \in Elements(E) \cup (Elements(O) \ Blank) : Good(e)) <=> goodE /\ goodO
  BY Zenon DEF goodE, goodO
<1> QED
  BY <1>2, <1>6, <1>10, <1>11, <1>12, Zenon

\* Field f of the observed values v is the one policy p asks for.
Agrees(p, v, f) ==
    /\ v[f] = p.expected[f] /\ Good(v[f])
    /\ f \in {"intent_ref"} \cup L6References => v[f] \in References

\* The lists of field f are as policy p asks.
ListsAgree(p, v, f) ==
    LET E == Elements(p.expected[f])
        O == Elements(v[f]) \ Blank
    IN /\ Len(p.expected[f]) <= MaxSetValues /\ Len(v[f]) <= MaxSetValues
       /\ \A e \in E \cup O : Good(e)
       /\ IF p.setMode = "contains_all" THEN E \subseteq O ELSE E = O

LEMMA ExactLayer ==
    ASSUME NEW p, NEW v, NEW l \in DOMAIN ExactLayers
    PROVE  validateExactLayer(l, p.expected, v, ExactLayers[l]) = {} <=>
              Named(p, l) # {} /\ \A f \in Named(p, l) : Agrees(p, v, f)
<1>1. l # "L6"
  BY Zenon DEF ExactLayers
<1>2. Named(p, l) = wanted(ExactLayers[l], p.expected)
  BY <1>1, Zenon DEF Named
<1> QED
  BY <1>2, ComparedFieldsAgree DEF validateExactLayer, Agrees

\* The default of the set mode is "exact".
LEMMA DefaultSetMode ==
    ASSUME NEW p, p.setMode \in {EmptyString, "contains_all", "exact"}
    PROVE  /\ setMode(p) \in {"exact", "contains_all"}
           /\ setMode(p) = "contains_all" <=> p.setMode = "contains_all"
<1>1. EmptyString # "contains_all"
  BY Zenon DEF EmptyString
<1> QED
  BY <1>1, Zenon DEF setMode

LEMMA LayerL6 ==
    ASSUME NEW p, NEW v, IsValues(p.expected), IsValues(v),
           p.setMode \in {EmptyString, "contains_all", "exact"}
    PROVE  validateL6(p.expected, v, setMode(p)) = {} <=>
              /\ Named(p, "L6") # {} \/ NamedSets(p) # {}
              /\ \A f \in Named(p, "L6") : Agrees(p, v, f)
              /\ \A f \in NamedSets(p) : ListsAgree(p, v, f)
<1> DEFINE sets == {f \in SetFields : Len(p.expected[f]) > 0}
           errs(f) == validateSet(p.expected[f], v[f], setMode(p))
<1>1. \A f \in SetFields : p.expected[f] \in Seq(STRING) /\ v[f] \in Seq(STRING)
  BY Zenon DEF IsValues
<1>2. sets = NamedSets(p)
  BY <1>1, EmptySeq DEF NamedSets
<1>3. Named(p, "L6") = wanted(L6References, p.expected)
  BY Zenon DEF Named
<1>4. \A f \in NamedSets(p) : errs(f) = {} <=> ListsAgree(p, v, f)
  <2> SUFFICES ASSUME NEW f \in NamedSets(p)
               PROVE  errs(f) = {} <=> ListsAgree(p, v, f)
    BY Zenon
  <2>1. p.expected[f] \in Seq(STRING) /\ v[f] \in Seq(STRING) /\ p.expected[f] # <<>>
    BY <1>1, Zenon DEF NamedSets
  <2>2. setMode(p) \in {"exact", "contains_all"} /\ (setMode(p) = "contains_all" <=> p.setMode = "contains_all")
    BY DefaultSetMode
  <2>3. errs(f) = {} <=>
            /\ setMode(p) \in {"exact", "contains_all"}
            /\ Len(p.expected[f]) <= MaxSetValues /\ Len(v[f]) <= MaxSetValues
            /\ \A e \in Elements(p.expected[f]) \cup (Elements(v[f]) \ Blank) : Good(e)
            /\ IF setMode(p) = "contains_all" THEN Elements(p.expected[f]) \subseteq Elements(v[f]) \ Blank
               ELSE Elements(p.expected[f]) = Elements(v[f]) \ Blank
    BY <2>1, SetComparison, Zenon
  <2> QED
    BY <2>2, <2>3, Zenon DEF ListsAgree
<1> DEFINE U == UNION {Located("L6", f, errs(f)) : f \in sets}
<1>5. validateL6(p.expected, v, setMode(p)) =
        IF sets = {} /\ wanted(L6References, p.expected) = {} THEN {Error("L6", "*", "missing_expected")}
        ELSE comparedFields("L6", L6References, p.expected, v) \cup U
  BY Zenon DEF validateL6
<1> HIDE DEF sets, errs
<1>6. U = {} <=> \A f \in sets : errs(f) = {}
  BY NothingLocated
<1>7. comparedFields("L6", L6References, p.expected, v) = {} <=>
        \A f \in Named(p, "L6") : Agrees(p, v, f)
  BY <1>3, ComparedFieldsAgree DEF Agrees
<1> HIDE DEF U
<1> QED
  BY <1>2, <1>3, <1>4, <1>5, <1>6, <1>7, Zenon

(***************************************************************************)
(* Policy.Validate is exact, for every policy over the four layers and     *)
(* every observed values: no error is returned exactly when the values are *)
(* the ones the policy asks for.                                           *)
(***************************************************************************)
THEOREM ComparisonIsExact ==
    ASSUME NEW p, NEW v, p.require \subseteq Layers, IsValues(p.expected), IsValues(v)
    PROVE  Accepted(p, v) <=> Conforms(p, v)
<1> DEFINE modeErrs == Located("policy", "mode", ValidateMode(p))
           emptyErrs == IF p.mode = "required" /\ p.require = {}
                        THEN {Error("policy", "*", "missing_expected")} ELSE {}
           layerErrs(l) == validateExactLayer(l, p.expected, v, ExactLayers[l])
           exactErrs == UNION {layerErrs(l) : l \in p.require \cap DOMAIN ExactLayers}
           l6Errs == IF "L6" \in p.require THEN validateL6(p.expected, v, setMode(p)) ELSE {}
           layerOK(l) == /\ Named(p, l) # {} \/ (l = "L6" /\ NamedSets(p) # {})
                         /\ \A f \in Named(p, l) : Agrees(p, v, f)
           listsOK == \A f \in NamedSets(p) : ListsAgree(p, v, f)
<1>1. Validate(p, v) = modeErrs \cup emptyErrs \cup exactErrs \cup l6Errs
  BY Zenon DEF Validate
<1>2. modeErrs = {} <=> /\ p.mode \in {EmptyString, "disabled", "required"}
                        /\ p.setMode \in {EmptyString, "contains_all", "exact"}
  BY NothingLocated, Zenon DEF ValidateMode
<1>3. emptyErrs = {} <=> (p.mode = "required" => p.require # {})
  BY Zenon
<1>4. \A l \in DOMAIN ExactLayers : layerErrs(l) = {} <=> layerOK(l)
  <2>1. "L6" \notin DOMAIN ExactLayers
    BY Zenon DEF ExactLayers
  <2> QED
    BY <2>1, ExactLayer, Zenon
<1>5. p.setMode \in {EmptyString, "contains_all", "exact"} =>
        (l6Errs = {} <=> ("L6" \in p.require => layerOK("L6") /\ listsOK))
  BY LayerL6, Zenon
<1>6. Layers = DOMAIN ExactLayers \cup {"L6"}
  BY Zenon DEF Layers, ExactLayers
<1>7. Conforms(p, v) <=>
        /\ p.mode \in {EmptyString, "disabled", "required"}
        /\ p.setMode \in {EmptyString, "contains_all", "exact"}
        /\ p.mode = "required" => p.require # {}
        /\ \A l \in p.require : layerOK(l)
        /\ "L6" \in p.require => listsOK
  BY Zenon DEF Conforms, Agrees, ListsAgree
<1> HIDE DEF modeErrs, emptyErrs, layerErrs, l6Errs, layerOK, listsOK
<1>8. exactErrs = {} <=> \A l \in p.require \cap DOMAIN ExactLayers : layerErrs(l) = {}
  BY Zenon
<1> HIDE DEF exactErrs
<1>9. Accepted(p, v) <=> modeErrs = {} /\ emptyErrs = {} /\ exactErrs = {} /\ l6Errs = {}
  BY <1>1, Zenon DEF Accepted
<1> QED
  BY <1>2, <1>3, <1>4, <1>5, <1>6, <1>7, <1>8, <1>9, Zenon

\* The sample values are values, and so the theorem speaks of them.
LEMMA SampleValues ==
    ASSUME NEW service, NEW intent, NEW scopes \in Seq(STRING)
    PROVE  IsValues(ValuesWith(service, intent, scopes))
<1>1. <<>> \in Seq(STRING)
  BY EmptySeq, Zenon
<1>2. \A f \in SetFields : ValuesWith(service, intent, scopes)[f] = IF f = "scopes" THEN scopes ELSE <<>>
  BY Zenon DEF ValuesWith, SetFields
<1> QED
  BY <1>1, <1>2, Zenon DEF IsValues

LEMMA SamplePolicies ==
    /\ \A v \in MCValues : IsValues(v)
    /\ \A p \in Policies : p.require \subseteq Layers /\ p.expected \in MCValues
BY SampleValues, RulesAssumption DEF MCValues, Policies, Layers
-----------------------------------------------------------------------------
(* What the verifiers are given and shown. *)

Posed(q, givens, showns) ==
    question = q => given \in givens /\ shown \in showns \cup {Nothing}

QuestionInv ==
    /\ Posed("policy", Policies, MCValues)
    /\ Posed("binding", [grant : Grants, session : Sessions, now : Times], Statements)
    /\ Posed("key", KeyStatements, KeyStatements)

LEMMA QuestionInvariant == Spec => []QuestionInv
<1>1. Init => QuestionInv
  BY Zenon DEF Init, QuestionInv, Posed
<1>2. QuestionInv /\ [Next]_vars => QuestionInv'
  BY Zenon DEF Next, Show, vars, QuestionInv, Posed
<1> QED
  BY <1>1, <1>2, PTL DEF Spec

(***************************************************************************)
(* Policy.Validate accepts exactly the values that conform to the policy,  *)
(* in every question put to it.                                            *)
(***************************************************************************)
THEOREM PolicyIsExact == Spec => []AcceptsExactlyConforming
<1>1. QuestionInv => AcceptsExactlyConforming
  BY SamplePolicies, ComparisonIsExact, Zenon DEF QuestionInv, Posed, AcceptsExactlyConforming, Asks
<1> QED
  BY <1>1, QuestionInvariant, PTL
-----------------------------------------------------------------------------
(* A session-binding statement under a grant. *)

\* The time checks pass exactly for what is live.
LEMMA LifetimeIsLive ==
    ASSUME NEW layer, NEW missing, NEW iat \in Nat, NEW exp \in Nat, NEW t \in Nat
    PROVE  lifetimeErrors(layer, iat, exp, missing, t) = {} <=> Live(iat, exp, t)
BY DEF lifetimeErrors, Live, ZeroTime

LEMMA RequiredIsGood ==
    ASSUME NEW layer, NEW f, NEW v, NEW missing
    PROVE  requiredString(layer, f, v, missing) = {} <=> Good(v)
BY NothingLocated, Zenon DEF requiredString, Good, isEmpty, validateValue

LEMMA ListIsBounded ==
    ASSUME NEW values \in Seq(STRING)
    PROVE  listErrors(values) = {} <=> Bounded(values)
<1>1. Len(values) > MaxSetValues <=> ~(Len(values) <= MaxSetValues)
  BY RulesAssumption
<1> DEFINE U == UNION {elementErrors(values[i], "missing_observed") : i \in DOMAIN values}
<1>2. U = {} <=> \A i \in DOMAIN values : elementErrors(values[i], "missing_observed") = {}
  BY Zenon
<1>3. U = {} <=> \A v \in Elements(values) \ Blank : Good(v)
  BY <1>2, GoodValue, Zenon DEF Elements
<1>4. listErrors(values) = IF Len(values) > MaxSetValues THEN {"too_many"} ELSE U
  BY Zenon DEF listErrors
<1> HIDE DEF U
<1> QED
  BY <1>1, <1>3, <1>4, Zenon DEF Bounded

\* A granted value is blank, or good and a reference where the field is one.
Granted(f, v) ==
    v \notin Blank => /\ Good(v)
                      /\ f \in {"intent_ref"} \cup L6References => v \in References

LEMMA GrantValues ==
    ASSUME NEW values, IsValues(values)
    PROVE  validateGrantValues(values) = {} <=>
              /\ \A f \in StringFields : Granted(f, values[f])
              /\ \A f \in SetFields : Bounded(values[f])
<1> DEFINE stringErrs(f) == IF isEmpty(values[f]) THEN {} ELSE validateFieldValue(f, values[f])
           strings == UNION {Located("identity_grant", f, stringErrs(f)) : f \in StringFields}
           lists == UNION {Located("identity_grant", f, listErrors(values[f])) : f \in SetFields}
<1>1. validateGrantValues(values) = strings \cup lists
  BY Zenon DEF validateGrantValues
<1>2. \A f \in StringFields : stringErrs(f) = {} <=> Granted(f, values[f])
  BY Zenon DEF isEmpty, Granted, Good, validateFieldValue, validateReferenceValue, validateValue
<1>3. \A f \in SetFields : listErrors(values[f]) = {} <=> Bounded(values[f])
  BY ListIsBounded, Zenon DEF IsValues
<1> HIDE DEF stringErrs
<1>4. strings = {} <=> \A f \in StringFields : stringErrs(f) = {}
  BY NothingLocated
<1>5. lists = {} <=> \A f \in SetFields : listErrors(values[f]) = {}
  BY NothingLocated
<1> HIDE DEF strings, lists
<1> QED
  BY <1>1, <1>2, <1>3, <1>4, <1>5, Zenon

\* The signer is one the grant authorises, and not its issuer.
LEMMA SignerIsAuthorised ==
    ASSUME NEW g, NEW signer
    PROVE  signerErrors(g, signer) = {} <=>
              /\ Good(signer) /\ signer # g.issuerKey
              /\ signer \in {g.confirmationKey, g.values["agent_public_key"]} \cup Elements(g.endpointKeys)
<1>1. Good(signer) => signer # EmptyString /\ ~isEmpty(signer)
  BY RulesAssumption, Zenon DEF Good, isEmpty
<1>2. Good(signer) => (allowsBindingKey(g, signer) <=>
        signer \in {g.confirmationKey, g.values["agent_public_key"]} \cup Elements(g.endpointKeys))
  BY <1>1, Zenon DEF allowsBindingKey, Elements
<1> QED
  BY <1>1, <1>2, RequiredIsGood, Zenon DEF signerErrors

LEMMA SignerIsABindingKey ==
    ASSUME NEW g, NEW signer, signerErrors(g, signer) = {}
    PROVE  hasBindingKey(g)
<1>1. Good(signer) /\ signer \in {g.confirmationKey, g.values["agent_public_key"]} \cup Elements(g.endpointKeys)
  BY SignerIsAuthorised, Zenon
<1>2. ~isEmpty(signer)
  BY <1>1, Zenon DEF Good
<1> QED
  BY <1>1, <1>2, Zenon DEF hasBindingKey, Elements

\* What a statement's own binding must be.
LEMMA StatementBinding ==
    ASSUME NEW b, NEW t \in Nat, b.iat \in Nat, b.exp \in Nat
    PROVE  validateStatementBinding(b, t) = {} <=>
              /\ \A f \in BindingFields \ {"binder"} : Good(b[f])
              /\ b.binder = EmptyString \/ Good(b.binder)
              /\ Live(b.iat, b.exp, t)
<1> DEFINE required == UNION {requiredString("session_binding", f, b[f], "missing_binding") :
                                 f \in {"leaf", "exporter", "context", "nonce"}}
           binder == IF b.binder = EmptyString THEN {}
                     ELSE requiredString("session_binding", "binder", b.binder, "missing_binding")
           times == lifetimeErrors("session_binding", b.iat, b.exp, "missing_binding", t)
<1>1. validateStatementBinding(b, t) = required \cup binder \cup times
  BY Zenon DEF validateStatementBinding
<1>2. BindingFields \ {"binder"} = {"leaf", "exporter", "context", "nonce"}
  BY Zenon DEF BindingFields
<1>3. required = {} <=> \A f \in BindingFields \ {"binder"} : Good(b[f])
  BY <1>2, RequiredIsGood
<1>4. binder = {} <=> (b.binder = EmptyString \/ Good(b.binder))
  BY RequiredIsGood, Zenon
<1>5. times = {} <=> Live(b.iat, b.exp, t)
  BY LifetimeIsLive, Zenon
<1> HIDE DEF required, binder, times
<1> QED
  BY <1>1, <1>3, <1>4, <1>5, Zenon

\* The comparison of a binding with the session that the verifier observed.
LEMMA SessionComparison ==
    ASSUME NEW b, NEW e, NEW t \in Nat, b.iat \in Nat, b.exp \in Nat
    PROVE  validateBinding(b, e, t) = {} <=>
              /\ \E f \in BindingFields : e[f] \notin Blank
              /\ \A f \in BindingFields : e[f] \notin Blank =>
                    b[f] = e[f] /\ e[f] \notin Unsafe
              /\ Live(b.iat, b.exp, t)
<1> DEFINE bound == {f \in BindingFields : ~isEmpty(e[f])}
           none == IF bound = {} THEN {Error("binding", "*", "missing_expected")} ELSE {}
           errs(f) == boundFieldErrors(e[f], b[f])
           fields == UNION {Located("binding", f, errs(f)) : f \in bound}
           times == lifetimeErrors("binding", b.iat, b.exp, "missing_binding", t)
<1>1. validateBinding(b, e, t) = none \cup fields \cup times
  BY Zenon DEF validateBinding
<1>2. none = {} <=> \E f \in BindingFields : e[f] \notin Blank
  BY Zenon DEF isEmpty
<1>3. \A f \in bound : errs(f) = {} <=> b[f] = e[f] /\ e[f] \notin Unsafe
  BY Zenon DEF boundFieldErrors, isEmpty
<1>4. times = {} <=> Live(b.iat, b.exp, t)
  BY LifetimeIsLive, Zenon
<1>5. \A f : f \in bound <=> f \in BindingFields /\ e[f] \notin Blank
  BY Zenon DEF isEmpty
<1> HIDE DEF bound, errs
<1>6. fields = {} <=> \A f \in bound : errs(f) = {}
  BY NothingLocated
<1> HIDE DEF none, fields, times
<1> QED
  BY <1>1, <1>2, <1>3, <1>4, <1>5, <1>6, Zenon

(***************************************************************************)
(* The package's acceptance rule is exact, for every policy, grant,        *)
(* session, time and statement: ValidateSessionBindingStatement and        *)
(* ValidateAssertion together return no error exactly when the grant, the  *)
(* statement and the session identify the same interaction.                *)
(***************************************************************************)
THEOREM InteractionIsExact ==
    ASSUME NEW p, NEW g, NEW e, NEW t \in Nat, NEW s,
           p.require \subseteq Layers, IsValues(p.expected),
           IsValues(g.values), g.endpointKeys \in Seq(STRING), g.iat \in Nat, g.exp \in Nat,
           s.binding.iat \in Nat, s.binding.exp \in Nat
    PROVE  StatementAccepted(p, g, e, t, s) <=> SameInteraction(p, g, e, t, s)
<1> DEFINE b == s.binding
           issuer == requiredString("identity_grant", "issuer", g.issuer, "missing_expected")
           aud == requiredString("identity_grant", "aud", g.audience, "missing_expected")
           hash == requiredString("identity_grant", "grant_hash", g.grantHash, "missing_expected")
           sameHash == agreesWithGrant("grant_hash", g.grantHash, s.grantHash)
           sameAud == agreesWithGrant("aud", g.audience, s.audience)
           signer == signerErrors(g, s.signer)
           key == IF hasBindingKey(g) THEN {}
                  ELSE {Error("identity_grant", "confirmation_key", "missing_expected")}
           values == validateGrantValues(g.values)
           keys == Located("identity_grant", "authorized_endpoint_key", listErrors(g.endpointKeys))
           times == lifetimeErrors("identity_grant", g.iat, g.exp, "missing_expected", t)
           binding == validateStatementBinding(b, t)
           session == validateBinding(b, e, t)
<1>1. ValidateSessionBindingStatement(g, s, t) =
        issuer \cup aud \cup hash \cup sameHash \cup sameAud \cup signer \cup key \cup values
           \cup keys \cup times \cup binding
  BY Zenon DEF ValidateSessionBindingStatement
<1>2. ValidateAssertion(p, NewAssertion(g, s), e, t) = session \cup Validate(p, g.values)
  BY Zenon DEF ValidateAssertion, NewAssertion
<1>3. /\ issuer = {} <=> Good(g.issuer)
      /\ aud = {} <=> Good(g.audience)
      /\ hash = {} <=> Good(g.grantHash)
  BY RequiredIsGood, Zenon
<1>4. /\ sameHash = {} <=> Good(s.grantHash) /\ g.grantHash = s.grantHash
      /\ sameAud = {} <=> Good(s.audience) /\ g.audience = s.audience
  BY RequiredIsGood, Zenon DEF agreesWithGrant
<1>5. signer = {} <=>
        /\ Good(s.signer) /\ s.signer # g.issuerKey
        /\ s.signer \in {g.confirmationKey, g.values["agent_public_key"]} \cup Elements(g.endpointKeys)
  BY SignerIsAuthorised, Zenon
<1>6. signer = {} => key = {}
  BY SignerIsABindingKey, Zenon
<1>7. values = {} <=> /\ \A f \in StringFields : Granted(f, g.values[f])
                      /\ \A f \in SetFields : Bounded(g.values[f])
  BY GrantValues, Zenon
<1>8. keys = {} <=> Bounded(g.endpointKeys)
  BY ListIsBounded, NothingLocated
<1>9. times = {} <=> Live(g.iat, g.exp, t)
  BY LifetimeIsLive, Zenon
<1>10. binding = {} <=>
         /\ \A f \in BindingFields \ {"binder"} : Good(b[f])
         /\ b.binder = EmptyString \/ Good(b.binder)
         /\ Live(b.iat, b.exp, t)
  BY StatementBinding, Zenon
<1>11. session = {} <=>
         /\ \E f \in BindingFields : e[f] \notin Blank
         /\ \A f \in BindingFields : e[f] \notin Blank => b[f] = e[f] /\ e[f] \notin Unsafe
         /\ Live(b.iat, b.exp, t)
  BY SessionComparison, Zenon
<1>12. Validate(p, g.values) = {} <=> Conforms(p, g.values)
  BY ComparisonIsExact, Zenon DEF Accepted
<1>13. binding = {} => \A f \in BindingFields : b[f] \notin Unsafe
  <2>1. binding = {} => b["binder"] \notin Unsafe
    BY <1>10, RulesAssumption, Zenon DEF Good
  <2> QED
    BY <1>10, <2>1, Zenon DEF Good
<1>14. WellFormed(g) <=> issuer = {} /\ aud = {} /\ hash = {} /\ values = {} /\ keys = {}
  BY <1>3, <1>7, <1>8, Zenon DEF WellFormed, Granted
<1> HIDE DEF issuer, aud, hash, sameHash, sameAud, signer, key, values, keys, times, binding, session
<1>15. StatementAccepted(p, g, e, t, s) <=>
         /\ issuer = {} /\ aud = {} /\ hash = {} /\ sameHash = {} /\ sameAud = {} /\ signer = {}
         /\ key = {} /\ values = {} /\ keys = {} /\ times = {} /\ binding = {} /\ session = {}
         /\ Conforms(p, g.values)
  <2>1. ValidateSessionBindingStatement(g, s, t) = {} <=>
         /\ issuer = {} /\ aud = {} /\ hash = {} /\ sameHash = {} /\ sameAud = {} /\ signer = {}
         /\ key = {} /\ values = {} /\ keys = {} /\ times = {} /\ binding = {}
    BY <1>1, Zenon
  <2>2. ValidateAssertion(p, NewAssertion(g, s), e, t) = {} <=> session = {} /\ Conforms(p, g.values)
    BY <1>2, <1>12, Zenon
  <2> QED
    BY <2>1, <2>2, Zenon DEF StatementAccepted
<1>16. ASSUME StatementAccepted(p, g, e, t, s)
       PROVE  SameInteraction(p, g, e, t, s)
  BY <1>4, <1>5, <1>9, <1>10, <1>11, <1>14, <1>15, <1>16, Zenon DEF SameInteraction
<1>17. ASSUME SameInteraction(p, g, e, t, s)
       PROVE  StatementAccepted(p, g, e, t, s)
  <2>1. /\ issuer = {} /\ aud = {} /\ hash = {} /\ values = {} /\ keys = {}
        /\ times = {} /\ Conforms(p, g.values)
    BY <1>9, <1>14, <1>17, Zenon DEF SameInteraction
  <2>2. sameHash = {} /\ sameAud = {}
    BY <1>3, <1>4, <1>17, <2>1, Zenon DEF SameInteraction
  <2>3. signer = {} /\ key = {}
    BY <1>5, <1>6, <1>17, Zenon DEF SameInteraction
  <2>4. binding = {}
    BY <1>10, <1>17, Zenon DEF SameInteraction
  <2>5. session = {}
    BY <1>11, <1>13, <1>17, <2>4, Zenon DEF SameInteraction
  <2> QED
    BY <1>15, <2>1, <2>2, <2>3, <2>4, <2>5, Zenon
<1> QED
  BY <1>16, <1>17, Zenon

\* The policy, grants and statements of the question have the types of the theorem.
LEMMA SampleBindings ==
    /\ ServicePolicy.require \subseteq Layers /\ IsValues(ServicePolicy.expected)
    /\ \A g \in Grants : /\ IsValues(g.values) /\ g.endpointKeys \in Seq(STRING)
                         /\ g.iat \in Nat /\ g.exp \in Nat
    /\ \A s \in Statements : s.binding.iat \in Nat /\ s.binding.exp \in Nat
<1>1. \A k : IsValues(PlainValues(k))
  <2> SUFFICES ASSUME NEW k
               PROVE  IsValues(PlainValues(k))
    BY Zenon
  <2>1. <<>> \in Seq(STRING)
    BY EmptySeq, Zenon
  <2>2. IsValues(ValuesWith("a", EmptyString, <<>>))
    BY <2>1, SampleValues, Zenon
  <2>3. \A f \in SetFields : f # "agent_public_key"
    BY Zenon DEF SetFields
  <2>4. SetFields \subseteq DOMAIN ValuesWith("a", EmptyString, <<>>)
    BY Zenon DEF ValuesWith
  <2> QED
    BY <2>2, <2>3, <2>4, Zenon DEF IsValues, PlainValues
<1>2. \A g \in Grants : /\ IsValues(g.values) /\ g.endpointKeys \in Seq(STRING)
                        /\ g.iat \in Nat /\ g.exp \in Nat
  <2> SUFFICES ASSUME NEW g \in Grants
               PROVE  /\ IsValues(g.values) /\ g.endpointKeys \in Seq(STRING)
                      /\ g.iat \in Nat /\ g.exp \in Nat
    BY Zenon
  <2>1. PICK ik \in {EmptyString, "k1"}, ak \in {EmptyString, "k1"}, ck \in {EmptyString, "k2"},
             ek \in KeyLists, e \in {ZeroTime, 2} :
          g = [issuer |-> "a", issuerKey |-> ik, audience |-> "a", grantHash |-> "a",
               values |-> PlainValues(ak), confirmationKey |-> ck, endpointKeys |-> ek,
               iat |-> 1, exp |-> e]
    BY SMT DEF Grants
  <2> QED
    BY <1>1, <2>1, RulesAssumption, SMT DEF ZeroTime
<1>3. \A s \in Statements : s.binding.iat \in Nat /\ s.binding.exp \in Nat
  <2> SUFFICES ASSUME NEW signer \in Signers, NEW text \in Texts,
                      NEW field \in BindingFields \cup {"grantHash", "audience"},
                      NEW iat \in {ZeroTime, 2}, NEW exp \in {ZeroTime, 2, 3}
               PROVE  /\ Statement(signer, field, text, iat, exp).binding.iat \in Nat
                      /\ Statement(signer, field, text, iat, exp).binding.exp \in Nat
    BY SMT DEF Statements
  <2>1. {"iat", "exp"} \cap (BindingFields \cup {"grantHash", "audience"}) = {}
    BY Zenon DEF BindingFields
  <2> QED
    BY <2>1 DEF Statement, ZeroTime
<1> QED
  BY <1>1, <1>2, <1>3, Zenon DEF ServicePolicy, Layers

(***************************************************************************)
(* In every question, a statement is accepted exactly when the verified    *)
(* grant, the session proof and the accepted session identify the same     *)
(* interaction.                                                            *)
(***************************************************************************)
THEOREM StatementIsExact == Spec => []AcceptsExactlySameInteraction
<1>1. QuestionInv => AcceptsExactlySameInteraction
  <2> SUFFICES ASSUME QuestionInv, Asks("binding")
               PROVE  StatementAccepted(ServicePolicy, given.grant, given.session, given.now, shown)
                        <=> SameInteraction(ServicePolicy, given.grant, given.session, given.now, shown)
    BY Zenon DEF AcceptsExactlySameInteraction
  <2>1. given.grant \in Grants /\ given.now \in Nat /\ shown \in Statements
    BY RulesAssumption, Zenon DEF QuestionInv, Posed, Asks
  <2> QED
    BY <2>1, SampleBindings, InteractionIsExact, Zenon
<1> QED
  BY <1>1, QuestionInvariant, PTL
-----------------------------------------------------------------------------
(* The replay key. *)

Join(a, z, x) == (a \o <<z>>) \o x

\* Sequence j is a, a separator z, and x.
Joined(j, a, z, x) ==
    /\ Len(j) = Len(a) + 1 + Len(x)
    /\ \A i \in 1..Len(a) : j[i] = a[i]
    /\ j[Len(a) + 1] = z
    /\ \A i \in 1..Len(x) : j[Len(a) + 1 + i] = x[i]

LEMMA ConcatIsJoined ==
    ASSUME NEW B, NEW z \in B, NEW a \in Seq(B), NEW x \in Seq(B)
    PROVE  Joined(Join(a, z, x), a, z, x)
<1> DEFINE u == a \o <<z>>
<1>1. /\ u \in Seq(B) /\ Len(u) = Len(a) + 1 /\ \A i \in 1..Len(a) : u[i] = a[i]
      /\ u[Len(a) + 1] = z
  BY ConcatProperties
<1> HIDE DEF u
<1>2. /\ Len(u \o x) = Len(u) + Len(x)
      /\ \A i \in 1..(Len(u) + Len(x)) : (u \o x)[i] = IF i <= Len(u) THEN u[i] ELSE x[i - Len(u)]
  BY <1>1, ConcatProperties, Zenon
<1> DEFINE j == u \o x
<1> HIDE DEF j
<1>3. /\ Len(j) = Len(a) + 1 + Len(x)
      /\ \A i \in 1..(Len(a) + 1 + Len(x)) : j[i] = IF i <= Len(a) + 1 THEN u[i] ELSE x[i - (Len(a) + 1)]
  BY <1>1, <1>2, Zenon DEF j
<1>4. Len(a) \in Nat /\ Len(x) \in Nat
  OBVIOUS
<1>5. \A i \in 1..Len(a) : j[i] = a[i]
  BY <1>1, <1>3, <1>4
<1>6. j[Len(a) + 1] = z
  BY <1>1, <1>3, <1>4
<1>7. \A i \in 1..Len(x) : j[Len(a) + 1 + i] = x[i]
  BY <1>3, <1>4
<1> QED
  BY <1>3, <1>5, <1>6, <1>7, Zenon DEF Joined, Join, j, u

LEMMA NotBefore ==
    ASSUME NEW B, NEW z \in B, NEW a \in Seq(B), NEW b \in Seq(B), NEW x \in Seq(B), NEW y \in Seq(B),
           NEW j, Joined(j, a, z, x), Joined(j, b, z, y), \A i \in DOMAIN b : b[i] # z
    PROVE  ~(Len(a) < Len(b))
<1> SUFFICES ASSUME Len(a) < Len(b)
             PROVE  FALSE
  BY Zenon
<1>1. Len(a) + 1 \in 1..Len(b) /\ DOMAIN b = 1..Len(b)
  OBVIOUS
<1>2. j[Len(a) + 1] = z
  BY Zenon DEF Joined
<1>3. j[Len(a) + 1] = b[Len(a) + 1]
  BY <1>1, Zenon DEF Joined
<1> QED
  BY <1>1, <1>2, <1>3, Zenon

\* What precedes the first separator, and what follows it, is determined.
LEMMA FirstSeparator ==
    ASSUME NEW B, NEW z \in B, NEW a \in Seq(B), NEW b \in Seq(B), NEW x \in Seq(B), NEW y \in Seq(B),
           \A i \in DOMAIN a : a[i] # z, \A i \in DOMAIN b : b[i] # z,
           Join(a, z, x) = Join(b, z, y)
    PROVE  a = b /\ x = y
<1>1. PICK j : Joined(j, a, z, x) /\ Joined(j, b, z, y)
  <2>1. Joined(Join(a, z, x), a, z, x) /\ Joined(Join(b, z, y), b, z, y)
    BY ConcatIsJoined, Zenon
  <2> QED
    BY <2>1, Zenon
<1>2. Len(a) \in Nat /\ Len(b) \in Nat /\ Len(x) \in Nat /\ Len(y) \in Nat
  OBVIOUS
<1>3. ~(Len(a) < Len(b)) /\ ~(Len(b) < Len(a))
  BY <1>1, NotBefore, Zenon
<1>4. Len(a) = Len(b)
  BY <1>2, <1>3
<1>5. Len(x) = Len(y)
  BY <1>1, <1>2, <1>4 DEF Joined
<1>6. \A i \in 1..Len(a) : a[i] = b[i]
  BY <1>1, <1>4, Zenon DEF Joined
<1>7. \A i \in 1..Len(x) : x[i] = y[i]
  BY <1>1, <1>4, <1>5, Zenon DEF Joined
<1>8. a = b
  BY <1>4, <1>6, SeqEqual, Zenon
<1>9. x = y
  BY <1>5, <1>7, SeqEqual, Zenon
<1> QED
  BY <1>8, <1>9, Zenon

LEMMA JoinedIsSeq ==
    ASSUME NEW B, NEW z \in B, NEW a \in Seq(B), NEW x \in Seq(B)
    PROVE  Join(a, z, x) \in Seq(B)
<1>1. a \o <<z>> \in Seq(B)
  BY ConcatProperties
<1> QED
  BY <1>1, ConcatProperties, Zenon DEF Join

(***************************************************************************)
(* The key MarkSessionBindingUsed stores is injective: statements whose    *)
(* parts are safe texts have the same key only if all five parts agree,    *)
(* since no safe text holds the separator.                                 *)
(***************************************************************************)
THEOREM KeyDeterminesParts ==
    ASSUME NEW s, NEW r,
           \A i \in 1..5 : replayKeyParts(s)[i] \in KeyTexts \ Unsafe,
           \A i \in 1..5 : replayKeyParts(r)[i] \in KeyTexts \ Unsafe,
           replayKey(s, Bytes, <<"0">>) = replayKey(r, Bytes, <<"0">>)
    PROVE  replayKeyParts(s) = replayKeyParts(r)
<1> DEFINE B == STRING \cup {"0"}
           z == "0"
           p == replayKeyParts(s)
           q == replayKeyParts(r)
           a(i) == Bytes[p[i]]
           b(i) == Bytes[q[i]]
           before(x, rest) == Join(x, z, rest)
<1>1. \A v \in KeyTexts \ Unsafe : Bytes[v] \in Seq(B) /\ \A i \in DOMAIN Bytes[v] : Bytes[v][i] # z
  BY RulesAssumption, SeqMonotonic, Zenon
<1>2. /\ \A i \in 1..5 : Bytes[p[i]] \in Seq(B) /\ \A k \in DOMAIN Bytes[p[i]] : Bytes[p[i]][k] # z
      /\ \A i \in 1..5 : Bytes[q[i]] \in Seq(B) /\ \A k \in DOMAIN Bytes[q[i]] : Bytes[q[i]][k] # z
  BY <1>1, Zenon
<1>3. z \in B
  BY Zenon
<1>4. 1 \in 1..5 /\ 2 \in 1..5 /\ 3 \in 1..5 /\ 4 \in 1..5 /\ 5 \in 1..5
  OBVIOUS
<1>5. /\ replayKey(s, Bytes, <<z>>) = before(a(1), before(a(2), before(a(3), before(a(4), a(5)))))
      /\ replayKey(r, Bytes, <<z>>) = before(b(1), before(b(2), before(b(3), before(b(4), b(5)))))
  BY Zenon DEF replayKey, Join
<1> HIDE DEF B, z, p, q
<1>6. \A x, rest \in Seq(B) : before(x, rest) \in Seq(B)
  BY <1>3, JoinedIsSeq, Zenon
<1>7. \A x, y, m, n \in Seq(B) : (\A i \in DOMAIN x : x[i] # z) /\ (\A i \in DOMAIN y : y[i] # z)
          /\ before(x, m) = before(y, n) => x = y /\ m = n
  <2> SUFFICES ASSUME NEW x \in Seq(B), NEW y \in Seq(B), NEW m \in Seq(B), NEW n \in Seq(B),
                      \A i \in DOMAIN x : x[i] # z, \A i \in DOMAIN y : y[i] # z, before(x, m) = before(y, n)
               PROVE  x = y /\ m = n
    BY Zenon
  <2> QED
    BY <1>3, FirstSeparator
<1> HIDE DEF before
<1>8. \A i \in 1..5 : \A m, n \in Seq(B) : before(a(i), m) = before(b(i), n) => a(i) = b(i) /\ m = n
  <2> SUFFICES ASSUME NEW i \in 1..5, NEW m \in Seq(B), NEW n \in Seq(B), before(a(i), m) = before(b(i), n)
               PROVE  a(i) = b(i) /\ m = n
    BY Zenon
  <2>1. /\ a(i) \in Seq(B) /\ \A k \in DOMAIN a(i) : a(i)[k] # z
        /\ b(i) \in Seq(B) /\ \A k \in DOMAIN b(i) : b(i)[k] # z
    BY <1>2, Zenon
  <2> HIDE DEF a, b
  <2> QED
    BY <1>7, <2>1, Zenon
<1>9. \A i \in 1..5 : a(i) \in Seq(B) /\ b(i) \in Seq(B)
  BY <1>2, Zenon
<1>10. before(a(1), before(a(2), before(a(3), before(a(4), a(5)))))
         = before(b(1), before(b(2), before(b(3), before(b(4), b(5)))))
  BY <1>5, Zenon DEF z, before
<1> HIDE DEF a, b
<1>11. /\ before(a(4), a(5)) \in Seq(B) /\ before(b(4), b(5)) \in Seq(B)
       /\ before(a(3), before(a(4), a(5))) \in Seq(B) /\ before(b(3), before(b(4), b(5))) \in Seq(B)
       /\ before(a(2), before(a(3), before(a(4), a(5)))) \in Seq(B)
       /\ before(b(2), before(b(3), before(b(4), b(5)))) \in Seq(B)
  BY <1>4, <1>6, <1>9, Zenon
<1>12. /\ a(1) = b(1)
       /\ before(a(2), before(a(3), before(a(4), a(5)))) = before(b(2), before(b(3), before(b(4), b(5))))
  BY <1>4, <1>8, <1>10, <1>11
<1>13. a(2) = b(2) /\ before(a(3), before(a(4), a(5))) = before(b(3), before(b(4), b(5)))
  BY <1>4, <1>8, <1>11, <1>12
<1>14. a(3) = b(3) /\ before(a(4), a(5)) = before(b(4), b(5))
  BY <1>4, <1>8, <1>11, <1>13
<1>15. a(4) = b(4) /\ a(5) = b(5)
  BY <1>4, <1>8, <1>9, <1>14
<1>16. p[1] = q[1] /\ p[2] = q[2] /\ p[3] = q[3] /\ p[4] = q[4] /\ p[5] = q[5]
  <2>1. \A i \in 1..5 : p[i] \in KeyTexts /\ q[i] \in KeyTexts
    BY Zenon DEF p, q
  <2> QED
    BY <1>4, <1>12, <1>13, <1>14, <1>15, <2>1, RulesAssumption, Zenon DEF a, b
<1> QED
  BY <1>16, Zenon DEF p, q, replayKeyParts

(***************************************************************************)
(* Two statements that pass validation share a replay key only if they     *)
(* agree in all that MarkSessionBindingUsed joins.                         *)
(***************************************************************************)
THEOREM ReplayKeyInjective == Spec => []ReplayKeyIsInjective
<1>1. \A s \in KeyStatements : Valid(s) => \A i \in 1..5 : replayKeyParts(s)[i] \notin Unsafe
  <2> SUFFICES ASSUME NEW s \in KeyStatements, Valid(s)
               PROVE  \A i \in 1..5 : replayKeyParts(s)[i] \notin Unsafe
    BY Zenon
  <2> DEFINE g == GrantOf(s)
  <2>1. /\ agreesWithGrant("grant_hash", g.grantHash, s.grantHash) = {}
        /\ agreesWithGrant("aud", g.audience, s.audience) = {}
        /\ validateStatementBinding(s.binding, 1) = {}
    BY Zenon DEF Valid, ValidateSessionBindingStatement
  <2>2. Good(s.grantHash) /\ Good(s.audience)
    BY <2>1, RequiredIsGood, Zenon DEF agreesWithGrant
  <2>3. \A f \in {"exporter", "context", "nonce"} : Good(s.binding[f])
    BY <2>1, RequiredIsGood DEF validateStatementBinding
  <2> QED
    BY <2>2, <2>3 DEF Good, replayKeyParts
<1>2. \A s \in KeyStatements : \A i \in 1..5 : replayKeyParts(s)[i] \in KeyTexts
  BY RulesAssumption DEF KeyStatements, replayKeyParts
<1>3. QuestionInv => ReplayKeyIsInjective
  <2> SUFFICES ASSUME QuestionInv, Asks("key"), Valid(given), Valid(shown),
                      replayKey(given, Bytes, <<"0">>) = replayKey(shown, Bytes, <<"0">>)
               PROVE  replayKeyParts(given) = replayKeyParts(shown)
    BY Zenon DEF ReplayKeyIsInjective
  <2>1. given \in KeyStatements /\ shown \in KeyStatements
    BY Zenon DEF QuestionInv, Posed, Asks
  <2>2. /\ \A i \in 1..5 : replayKeyParts(given)[i] \in KeyTexts \ Unsafe
        /\ \A i \in 1..5 : replayKeyParts(shown)[i] \in KeyTexts \ Unsafe
    BY <1>1, <1>2, <2>1, Zenon
  <2> QED
    BY <2>2, KeyDeterminesParts, Zenon
<1> QED
  BY <1>3, QuestionInvariant, PTL
-----------------------------------------------------------------------------
(* The static policies of AGTP. *)

AgtpInv ==
    /\ Posed("caching", [policy : CachePolicies, context : CacheContexts], RequestPairs)
    /\ Posed("diversion", DiversionPolicies, DiversionRequests)

LEMMA AgtpInvariant == AgtpSpec => []AgtpInv
<1>1. AgtpInit => AgtpInv
  BY Zenon DEF AgtpInit, AgtpInv, Posed
<1>2. AgtpInv /\ [AgtpNext]_vars => AgtpInv'
  BY Zenon DEF AgtpNext, Show, vars, AgtpInv, Posed
<1> QED
  BY <1>1, <1>2, PTL DEF AgtpSpec

(***************************************************************************)
(* A response that ValidateResponseCachePolicy lets a cache keep goes only *)
(* to callers that agree in every field it depends on, whatever the policy,*)
(* the context and the requests.                                           *)
(***************************************************************************)
THEOREM PartitionKeepsCallersApart ==
    ASSUME NEW p, NEW ctx, NEW r, NEW s, Stored(p, ctx)
    PROVE  /\ ~ctx.securityState
           /\ Shares(p, r, s) =>
                 /\ \A f \in normalizeCacheVary(ctx.callerFields) \cap DOMAIN r : r[f] = s[f]
                 /\ ctx.sessionBound /\ p.directive = "private" /\ "Session-ID" \in DOMAIN r =>
                       r["Session-ID"] = s["Session-ID"]
<1> DEFINE d == EffectiveResponseCacheDirective(p)
           vary == normalizeCacheVary(p.vary)
           caller == normalizeCacheVary(ctx.callerFields)
<1>1. /\ d \in {"public", "private"} /\ ~ctx.securityState
      /\ d = "public" => caller = {}
      /\ d = "private" /\ ctx.sessionBound => "Session-ID" \in vary
      /\ d = "private" => caller \subseteq vary
  BY Zenon DEF Stored, ValidateResponseCachePolicy
<1>2. p.directive = "private" => d = "private"
  <2>1. Absent # "private"
    BY Zenon DEF Absent
  <2> QED
    BY <2>1, Zenon DEF EffectiveResponseCacheDirective
<1>3. caller \subseteq vary
  BY <1>1, Zenon
<1> QED
  BY <1>1, <1>2, <1>3, Zenon DEF Shares

(***************************************************************************)
(* A cached response never reaches another caller, and security state is   *)
(* never kept.                                                             *)
(***************************************************************************)
THEOREM CachesKeepCallersApart == AgtpSpec => []CallersNeverShare
<1>1. AgtpInv => CallersNeverShare
  <2> SUFFICES ASSUME AgtpInv, Asks("caching"), Stored(given.policy, given.context)
               PROVE  /\ ~given.context.securityState
                      /\ Shares(given.policy, shown[1], shown[2]) =>
                            /\ \A f \in normalizeCacheVary(given.context.callerFields) \cap DOMAIN shown[1] :
                                  shown[1][f] = shown[2][f]
                            /\ given.context.sessionBound /\ given.policy.directive = "private" =>
                                  shown[1]["Session-ID"] = shown[2]["Session-ID"]
    BY Zenon DEF CallersNeverShare
  <2>1. "Session-ID" \in DOMAIN shown[1]
    BY DEF AgtpInv, Posed, Asks, RequestPairs, Requests
  <2> QED
    BY <2>1, PartitionKeepsCallersApart
<1> QED
  BY <1>1, AgtpInvariant, PTL

\* The rules of a policy are a list.
LEMMA FirstHit ==
    ASSUME NEW S, NEW rules \in Seq(S), NEW hits \in SUBSET DOMAIN rules, hits # {}
    PROVE  LET first == CHOOSE i \in hits : \A j \in hits : i <= j
           IN first \in hits /\ \A j \in hits : first <= j
<1>1. hits \in SUBSET Nat
  OBVIOUS
<1>2. \E i \in hits : \A j \in hits : i <= j
  BY <1>1, LeastNatural, Zenon
<1> QED
  BY <1>2, Zenon

(***************************************************************************)
(* Policy.Evaluate, for every policy and every request: what is allowed is *)
(* allowed by the first rule that matches, under a complete policy, with   *)
(* the notice that rule demands.                                           *)
(***************************************************************************)
THEOREM AllowedByFirstMatch ==
    ASSUME NEW S, NEW p, p.rules \in Seq(S), NEW req, EvaluateDiversion(p, req).allowed
    PROVE  /\ ValidatePolicy(p) /\ validateDiversion(req)
           /\ \E i \in DOMAIN p.rules :
                 /\ matches(p.rules[i], req) /\ p.rules[i].allowed
                 /\ p.rules[i].id = EvaluateDiversion(p, req).rule
                 /\ p.rules[i].requireNotice => req.notified
                 /\ \A j \in 1..(i - 1) : ~matches(p.rules[j], req)
<1> DEFINE hits == {i \in DOMAIN p.rules : matches(p.rules[i], req)}
           first == CHOOSE i \in hits : \A j \in hits : i <= j
           d == EvaluateDiversion(p, req)
<1>1. /\ ValidatePolicy(p) /\ validateDiversion(req) /\ hits # {}
      /\ ~(p.rules[first].requireNotice /\ ~req.notified) /\ p.rules[first].allowed
      /\ d.rule = p.rules[first].id
  BY Zenon DEF EvaluateDiversion, Decision
<1>2. hits \in SUBSET DOMAIN p.rules
  BY Zenon
<1>3. first \in hits /\ \A j \in hits : first <= j
  BY <1>1, <1>2, FirstHit, Zenon
<1>4. \A j \in 1..(first - 1) : ~matches(p.rules[j], req)
  BY <1>3
<1> QED
  BY <1>1, <1>3, <1>4, Zenon

\* A policy whose first rule matches decides as its first rule alone.
LEMMA LaterRulesAreSilent ==
    ASSUME NEW S, NEW p, NEW q, NEW req,
           p.rules \in Seq(S), ValidatePolicy(p), matches(p.rules[1], req),
           q.id = p.id, q.version = p.version, q.mode = p.mode, q.auditFields = p.auditFields,
           q.rules = <<p.rules[1]>>
    PROVE  EvaluateDiversion(p, req) = EvaluateDiversion(q, req)
<1> DEFINE hits(x) == {i \in DOMAIN x.rules : matches(x.rules[i], req)}
           first(x) == CHOOSE i \in hits(x) : \A j \in hits(x) : i <= j
<1>1. 1 \in DOMAIN p.rules
  BY EmptySeq DEF ValidatePolicy
<1>2. DOMAIN q.rules = {1} /\ q.rules[1] = p.rules[1]
  OBVIOUS
<1>3. ValidatePolicy(q)
  BY <1>1, <1>2 DEF ValidatePolicy
<1>4. 1 \in hits(p) /\ hits(q) = {1}
  BY <1>1, <1>2, Zenon
<1>5. first(p) = 1
  <2>1. hits(p) \in SUBSET DOMAIN p.rules /\ hits(p) # {}
    BY <1>4, Zenon
  <2>2. first(p) \in hits(p) /\ \A j \in hits(p) : first(p) <= j
    BY <2>1, FirstHit, Zenon
  <2>3. \A i \in hits(p) : i \in Nat /\ i >= 1
    OBVIOUS
  <2> HIDE DEF hits, first
  <2> QED
    BY <1>4, <2>2, <2>3
<1>6. first(q) = 1
  BY <1>4
<1>7. req.visibility = "hidden" => hasHiddenRuleFor(p, req) /\ hasHiddenRuleFor(q, req)
  BY <1>1, <1>2, Zenon DEF hasHiddenRuleFor, matches
<1> DEFINE decision(x) ==
             IF ~validateDiversion(req) THEN Decision(FALSE, "invalid_request", Absent)
             ELSE IF p.rules[1].requireNotice /\ ~req.notified
             THEN Decision(FALSE, "notice_required", p.rules[1].id)
             ELSE IF ~p.rules[1].allowed THEN Decision(FALSE, "denied", p.rules[1].id)
             ELSE Decision(TRUE, Absent, p.rules[1].id)
<1>8. \A x \in {p, q} : EvaluateDiversion(x, req) =
        IF ~ValidatePolicy(x) THEN Decision(FALSE, "invalid_policy", Absent)
        ELSE IF ~validateDiversion(req) THEN Decision(FALSE, "invalid_request", Absent)
        ELSE IF req.visibility = "hidden" /\ ~hasHiddenRuleFor(x, req) THEN Decision(FALSE, "hidden", Absent)
        ELSE IF hits(x) = {} THEN Decision(FALSE, "no_matching_rule", Absent)
        ELSE IF x.rules[first(x)].requireNotice /\ ~req.notified
        THEN Decision(FALSE, "notice_required", x.rules[first(x)].id)
        ELSE IF ~x.rules[first(x)].allowed THEN Decision(FALSE, "denied", x.rules[first(x)].id)
        ELSE Decision(TRUE, Absent, x.rules[first(x)].id)
  BY Zenon DEF EvaluateDiversion
<1> HIDE DEF hits, first
<1>9. EvaluateDiversion(p, req) = decision(p)
  BY <1>4, <1>5, <1>7, <1>8, Zenon
<1>10. EvaluateDiversion(q, req) = decision(q)
  BY <1>2, <1>3, <1>4, <1>6, <1>7, <1>8, Zenon
<1> QED
  BY <1>9, <1>10

\* The rules of the policies in question are lists of rules.
LEMMA SampleDiversions ==
    \A p \in DiversionPolicies : p.rules \in Seq(Rules) /\ DOMAIN p = {"id", "version", "mode", "auditFields", "rules"}
<1>1. (UNION {[1..n -> Rules] : n \in 0..2}) \subseteq Seq(Rules)
  <2> SUFFICES ASSUME NEW n \in 0..2, NEW rs \in [1..n -> Rules]
               PROVE  rs \in Seq(Rules)
    BY Zenon
  <2>1. n \in Nat
    OBVIOUS
  <2>2. rs \in UNION {[1..m -> Rules] : m \in Nat}
    BY <2>1, Zenon
  <2>3. Seq(Rules) = UNION {[1..m -> Rules] : m \in Nat}
    BY SeqDef, Zenon
  <2> QED
    BY <2>2, <2>3, Zenon
<1> QED
  BY <1>1, Zenon DEF DiversionPolicies

(***************************************************************************)
(* The first matching rule decides a diversion, in every question: no rule *)
(* further down allows what it denied or takes back its notice.            *)
(***************************************************************************)
THEOREM FirstRuleAlwaysDecides == AgtpSpec => []FirstRuleDecides
<1>1. AgtpInv => FirstRuleDecides
  <2> DEFINE d == EvaluateDiversion(given, shown)
             first == [given EXCEPT !.rules = <<given.rules[1]>>]
  <2> SUFFICES ASSUME AgtpInv, Asks("diversion")
               PROVE  /\ d.allowed =>
                            /\ ValidatePolicy(given) /\ validateDiversion(shown)
                            /\ \E i \in DOMAIN given.rules :
                                  /\ matches(given.rules[i], shown) /\ given.rules[i].allowed
                                  /\ given.rules[i].id = d.rule
                                  /\ given.rules[i].requireNotice => shown.notified
                                  /\ \A j \in 1..(i - 1) : ~matches(given.rules[j], shown)
                      /\ ValidatePolicy(given) /\ matches(given.rules[1], shown)
                            => d = EvaluateDiversion(first, shown)
    BY Zenon DEF FirstRuleDecides
  <2>1. /\ given.rules \in Seq(Rules)
        /\ DOMAIN given = {"id", "version", "mode", "auditFields", "rules"}
    BY SampleDiversions, Zenon DEF AgtpInv, Posed, Asks
  <2>2. /\ first.id = given.id /\ first.version = given.version /\ first.mode = given.mode
        /\ first.auditFields = given.auditFields /\ first.rules = <<given.rules[1]>>
    BY <2>1, Zenon
  <2> HIDE DEF first
  <2>3. d.allowed =>
            /\ ValidatePolicy(given) /\ validateDiversion(shown)
            /\ \E i \in DOMAIN given.rules :
                  /\ matches(given.rules[i], shown) /\ given.rules[i].allowed
                  /\ given.rules[i].id = d.rule
                  /\ given.rules[i].requireNotice => shown.notified
                  /\ \A j \in 1..(i - 1) : ~matches(given.rules[j], shown)
    BY <2>1, AllowedByFirstMatch, Zenon
  <2>4. ValidatePolicy(given) /\ matches(given.rules[1], shown) => d = EvaluateDiversion(first, shown)
    BY <2>1, <2>2, LaterRulesAreSilent
  <2> QED
    BY <2>3, <2>4, Zenon
<1> QED
  BY <1>1, AgtpInvariant, PTL
=============================================================================
