--------------------------- MODULE IdentityPolicy ---------------------------
(***************************************************************************)
(* pkg/atls/identitypolicy: the comparison of an observed identity with    *)
(* the local policy (policy.go) and of a session-binding statement with    *)
(* the grant that authorises its signer (session_binding.go).  Every       *)
(* validator returns the set of its errors; the empty set is nil.  Strings *)
(* are told apart only by what the code asks of them.                      *)
(***************************************************************************)
EXTENDS Integers, Sequences, FiniteSets

CONSTANTS
    Blank,          \* strings that are empty after trimming; contains EmptyString
    TooLong,        \* strings of more than MaxValueLength bytes
    Unsafe,         \* strings with control characters, angle brackets or bad UTF-8
    References,     \* strings of printable ASCII with an inner colon
    MaxSetValues

\* The zero values of a string and of a time.Time.
EmptyString == ""
ZeroTime == 0

ExactLayers == [L3 |-> {"service", "tenant", "deployment", "environment"},
                L4 |-> {"workload", "agent", "agent_public_key"},
                L5 |-> {"computation_id", "task_id", "thread_id", "delegation_id", "intent_ref"}]
L6References == {"capability_ref", "ontology_id"}
SetFields == {"scopes", "resources", "authorization_details"}
StringFields == (UNION {ExactLayers[l] : l \in DOMAIN ExactLayers}) \cup L6References
Layers == {"L3", "L4", "L5", "L6"}

Error(layer, field, err) == [layer |-> layer, field |-> field, err |-> err]
Located(layer, field, errs) == {Error(layer, field, e) : e \in errs}
-----------------------------------------------------------------------------
isEmpty(v) == v \in Blank

\* Mutant of validateValue: only the length is checked.
valueLength(v) == IF v \in TooLong THEN {"too_long"} ELSE {}

validateValue(v) ==
    IF v \in TooLong THEN {"too_long"} ELSE IF v \in Unsafe THEN {"unsafe"} ELSE {}

validateReferenceValue(v) ==
    IF validateValue(v) # {} THEN validateValue(v)
    ELSE IF v \in References THEN {} ELSE {"unsafe"}

validateFieldValue(f, v) ==
    IF f \in {"intent_ref"} \cup L6References THEN validateReferenceValue(v)
    ELSE validateValue(v)

\* The comparison of one field whose expected value is not blank.
fieldErrors(f, want, got) ==
    IF validateFieldValue(f, want) # {} THEN validateFieldValue(f, want)
    ELSE IF isEmpty(got) THEN {"missing_observed"}
    ELSE IF validateFieldValue(f, got) # {} THEN validateFieldValue(f, got)
    ELSE IF got # want THEN {"mismatch"} ELSE {}

\* The fields of fs that the local policy names.
wanted(fs, expected) == {f \in fs : ~isEmpty(expected[f])}

comparedFields(layer, fs, expected, observed) ==
    UNION {Located(layer, f, fieldErrors(f, expected[f], observed[f])) :
              f \in wanted(fs, expected)}

\* Mutant of validateExactLayer: a layer without an expected value passes.
exactLayerVacuous(layer, expected, observed, fs) ==
    comparedFields(layer, fs, expected, observed)

validateExactLayer(layer, expected, observed, fs) ==
    IF wanted(fs, expected) = {} THEN {Error(layer, "*", "missing_expected")}
    ELSE comparedFields(layer, fs, expected, observed)
-----------------------------------------------------------------------------
\* What is wrong with one element of a list; a blank one only counts as an
\* error in the local policy.
elementErrors(v, emptyErr) ==
    IF isEmpty(v) THEN IF emptyErr = "missing_expected" THEN {emptyErr} ELSE {}
    ELSE validateValue(v)

\* The error of the first offending element: the loops return at once.
firstError(values, emptyErr) ==
    LET bad == {i \in DOMAIN values : elementErrors(values[i], emptyErr) # {}}
    IN UNION {elementErrors(values[i], emptyErr) : i \in {j \in bad : \A k \in bad : j <= k}}

nonBlank(values) == {values[i] : i \in {j \in DOMAIN values : ~isEmpty(values[j])}}

\* The errors of validatedSet; without errors its result is nonBlank(values).
validatedSet(values, emptyErr) ==
    IF Len(values) > MaxSetValues THEN {"too_many"}
    ELSE IF firstError(values, emptyErr) # {} THEN firstError(values, emptyErr)
    ELSE IF nonBlank(values) = {} THEN {emptyErr} ELSE {}

requireExactSet(expected, observed) ==
    LET E == nonBlank(expected)
        O == nonBlank(observed)
    IN IF validatedSet(expected, "missing_expected") # {}
         THEN validatedSet(expected, "missing_expected")
       ELSE IF validatedSet(observed, "missing_observed") # {}
         THEN validatedSet(observed, "missing_observed")
       ELSE IF Cardinality(E) # Cardinality(O) \/ \E v \in E : v \notin O
         THEN {"mismatch"} ELSE {}

requireContainsAll(expected, observed) ==
    IF Len(expected) > MaxSetValues \/ Len(observed) > MaxSetValues THEN {"too_many"}
    ELSE IF firstError(expected, "missing_expected") # {}
      THEN firstError(expected, "missing_expected")
    ELSE IF firstError(observed, "missing_observed") # {}
      THEN firstError(observed, "missing_observed")
    ELSE IF nonBlank(observed) = {} THEN {"missing_observed"}
    ELSE IF \E v \in nonBlank(expected) : v \notin nonBlank(observed) THEN {"mismatch"}
    ELSE {}

validateSet(expected, observed, mode) ==
    IF mode = "exact" THEN requireExactSet(expected, observed)
    ELSE IF mode = "contains_all" THEN requireContainsAll(expected, observed)
    ELSE {"invalid_mode"}

validateL6(expected, observed, mode) ==
    LET sets == {f \in SetFields : Len(expected[f]) > 0}
    IN IF sets = {} /\ wanted(L6References, expected) = {}
         THEN {Error("L6", "*", "missing_expected")}
       ELSE comparedFields("L6", L6References, expected, observed)
            \cup UNION {Located("L6", f, validateSet(expected[f], observed[f], mode)) : f \in sets}
-----------------------------------------------------------------------------
\* Policy.Enabled; a policy is [mode, setMode, require, expected].
Enabled(p) == p.mode = "required" \/ (p.mode = EmptyString /\ p.require # {})

ValidateMode(p) ==
    IF p.mode \in {EmptyString, "disabled", "required"} /\ p.setMode \in {EmptyString, "contains_all", "exact"}
    THEN {} ELSE {"invalid_mode"}

setMode(p) == IF p.setMode = EmptyString THEN "exact" ELSE p.setMode

Validate(p, observed) ==
    Located("policy", "mode", ValidateMode(p))
    \cup (IF p.mode = "required" /\ p.require = {}
          THEN {Error("policy", "*", "missing_expected")} ELSE {})
    \cup (UNION {validateExactLayer(l, p.expected, observed, ExactLayers[l]) :
                    l \in p.require \cap DOMAIN ExactLayers})
    \cup (IF "L6" \in p.require THEN validateL6(p.expected, observed, setMode(p)) ELSE {})
=============================================================================
