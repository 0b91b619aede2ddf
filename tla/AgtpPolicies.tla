---------------------------- MODULE AgtpPolicies ----------------------------
(***************************************************************************)
(* Two static policies: which responses may be cached, for whom            *)
(* (pkg/agtp/cache_policy.go), and which diversions of a request to        *)
(* another target are allowed (pkg/agtp/diversionpolicy).                  *)
(***************************************************************************)
EXTENDS Integers, Sequences, FiniteSets

CONSTANTS
    Respelled,      \* other spellings of the names of known vary fields, with the name
    NoField,        \* a field name that is blank
    Malformed       \* strings validateValue refuses: blank, padded, long or with control characters

\* The zero value of a string.
Absent == ""

ProtectedVary == {"Agent-ID", "Principal-ID", "Authority-Scope", "Tenant-ID", "Deployment-ID",
                  "Policy-Grant-Hash", "Session-ID", "Task-ID"}

canonicalCacheVaryField(f) == IF f \in DOMAIN Respelled THEN Respelled[f] ELSE f

normalizeCacheVary(fields) == {canonicalCacheVaryField(f) : f \in fields} \ {NoField}

EffectiveResponseCacheDirective(p) == IF p.directive = Absent THEN "no-store" ELSE p.directive

\* Mutant of ValidateResponseCachePolicy: a partition by session is enough.
ValidateSessionPartition(p, ctx) ==
    IF EffectiveResponseCacheDirective(p) = "no-store" \/ (p.maxAge > 0 /\ "Session-ID" \in normalizeCacheVary(p.vary))
    THEN "ok" ELSE "missing_partition"

ValidateResponseCachePolicy(p, ctx) ==
    LET d == EffectiveResponseCacheDirective(p)
        vary == normalizeCacheVary(p.vary)
        caller == normalizeCacheVary(ctx.callerFields)
    IN IF d = "no-store" THEN "ok"
       ELSE IF d \notin {"public", "private"} THEN "unsupported_directive"
       ELSE IF p.maxAge <= 0 THEN "missing_freshness"
       ELSE IF ctx.securityState THEN "unsafe"
       ELSE IF d = "public"
       THEN IF caller # {} \/ vary \cap ProtectedVary # {} THEN "unsafe" ELSE "ok"
       ELSE IF ctx.sessionBound /\ ~(ctx.allowSessionPrivate /\ "Session-ID" \in vary)
       THEN "missing_partition"
       ELSE IF caller \subseteq vary THEN "ok" ELSE "missing_partition"
-----------------------------------------------------------------------------
(* Diversion. *)

AuditFields == {"policy_id", "original_target", "diverted_target", "trigger", "reason_code"}
Visibilities == {"client_visible", "hidden"}

wellFormed(v) == v \notin Malformed

\* A target maps its names to values; Absent is no value.
validateTarget(t) == (\E f \in DOMAIN t : t[f] # Absent) /\ \A f \in DOMAIN t : t[f] # Absent => wellFormed(t[f])

\* What rules and requests have in common.
validateDiversion(r) ==
    /\ validateTarget(r.original) /\ validateTarget(r.diverted)
    /\ r.visibility \in Visibilities
    /\ wellFormed(r.trigger) /\ r.reason # Absent /\ wellFormed(r.reason)

validateRule(r) ==
    /\ r.id # Absent /\ wellFormed(r.id)
    /\ validateDiversion(r)
    /\ ~(r.visibility = "hidden" /\ r.requireNotice)

validateAuditFields(fields) == (\A f \in fields : wellFormed(f)) /\ AuditFields \subseteq fields

ValidatePolicy(p) ==
    /\ p.id # Absent /\ wellFormed(p.id)
    /\ p.version = "1" /\ p.mode = "required"
    /\ validateAuditFields(p.auditFields)
    /\ p.rules # <<>> /\ \A i \in DOMAIN p.rules : validateRule(p.rules[i])

matches(r, req) ==
    /\ r.original = req.original /\ r.diverted = req.diverted
    /\ r.visibility = req.visibility /\ r.trigger = req.trigger /\ r.reason = req.reason

hasHiddenRuleFor(p, req) ==
    \E i \in DOMAIN p.rules : p.rules[i].visibility = "hidden" /\ matches(p.rules[i], req)

Decision(allowed, err, rule) == [allowed |-> allowed, err |-> err, rule |-> rule]

\* Mutant of EvaluateDiversion: any matching rule may allow.
EvaluateAny(p, req) ==
    IF \E i \in DOMAIN p.rules : matches(p.rules[i], req) /\ p.rules[i].allowed
    THEN Decision(TRUE, Absent, "r") ELSE Decision(FALSE, "no_matching_rule", Absent)

\* Policy.Evaluate: the first matching rule decides.
EvaluateDiversion(p, req) ==
    LET hits == {i \in DOMAIN p.rules : matches(p.rules[i], req)}
        rule == p.rules[CHOOSE i \in hits : \A j \in hits : i <= j]
    IN IF ~ValidatePolicy(p) THEN Decision(FALSE, "invalid_policy", Absent)
       ELSE IF ~validateDiversion(req) THEN Decision(FALSE, "invalid_request", Absent)
       ELSE IF req.visibility = "hidden" /\ ~hasHiddenRuleFor(p, req) THEN Decision(FALSE, "hidden", Absent)
       ELSE IF hits = {} THEN Decision(FALSE, "no_matching_rule", Absent)
       ELSE IF rule.requireNotice /\ ~req.notified THEN Decision(FALSE, "notice_required", rule.id)
       ELSE IF ~rule.allowed THEN Decision(FALSE, "denied", rule.id)
       ELSE Decision(TRUE, Absent, rule.id)
=============================================================================
