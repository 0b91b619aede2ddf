---------------------------- MODULE MCAgtpRules ----------------------------
(***************************************************************************)
(* The static policies of AGTP over bounded inputs, as two questions:      *)
(*   "caching"   a cache policy and a context, and two requests;           *)
(*   "diversion" a diversion policy, and a request.                        *)
(***************************************************************************)
EXTENDS AgtpPolicies, Questions

MCRespelled == [f \in {"agent-id", "session-id"} |-> IF f = "agent-id" THEN "Agent-ID" ELSE "Session-ID"]

VaryFields == {"Agent-ID", "agent-id", "Session-ID", "Accept", NoField}

CachePolicies == [directive : {"", "no-store", "public", "private", "typo"}, maxAge : {0, 1},
                  vary : SUBSET VaryFields]
CacheContexts == [securityState : BOOLEAN, callerFields : SUBSET {"Agent-ID", "session-id", "Accept"},
                  sessionBound : BOOLEAN, allowSessionPrivate : BOOLEAN]

\* The values of the fields in a request.
Requests == [{"Agent-ID", "Session-ID", "Accept"} -> {1, 2}]

Target(s) == [service |-> s, tenant |-> Absent]

Rule(name, to, vis, allowed, notice) ==
    [id |-> name, original |-> Target("s"), diverted |-> Target(to), visibility |-> vis, trigger |-> "t",
     reason |-> "r", allowed |-> allowed, requireNotice |-> notice]

Rules == {Rule("r", "u", vis, a, n) : vis \in {"client_visible", "hidden"}, a \in BOOLEAN, n \in BOOLEAN}
         \cup {Rule("q", "", "hidden", TRUE, FALSE), Rule("q", "w", "client_visible", TRUE, FALSE)}

DiversionPolicies ==
    [id : {"p", Absent}, version : {"1", "2"}, mode : {"required"},
     auditFields : {AuditFields, AuditFields \ {"trigger"}},
     rules : UNION {[1..n -> Rules] : n \in 0..2}]

DiversionRequests ==
    {[original |-> Target("s"), diverted |-> Target(to), visibility |-> vis, trigger |-> tr, reason |-> "r",
      notified |-> n] : to \in {"u", "", "w"}, vis \in {"client_visible", "hidden", "typo"}, tr \in {"t", " "},
                        n \in BOOLEAN}

RequestPairs == {<<r, [f \in DOMAIN r |-> 1]>> : r \in Requests}

AgtpInit ==
    /\ shown = Nothing
    /\ \/ question = "caching" /\ given \in [policy : CachePolicies, context : CacheContexts]
       \/ question = "diversion" /\ given \in DiversionPolicies

AgtpNext == Show("caching", RequestPairs) \/ Show("diversion", DiversionRequests)

AgtpSpec == AgtpInit /\ [][AgtpNext]_vars
-----------------------------------------------------------------------------
\* A cache answers one request with the response to another when they agree in
\* the fields of Vary.
Shares(p, r, s) == \A f \in normalizeCacheVary(p.vary) \cap DOMAIN r : r[f] = s[f]

Stored(p, ctx) ==
    ValidateResponseCachePolicy(p, ctx) = "ok" /\ EffectiveResponseCacheDirective(p) # "no-store"

(***************************************************************************)
(* A response that a valid policy lets a cache keep is never served to     *)
(* another caller: two requests that share it agree in every field the     *)
(* response depends on, however the fields are spelled; security state is  *)
(* never kept.                                                             *)
(***************************************************************************)
CallersNeverShare ==
    Asks("caching") /\ Stored(given.policy, given.context) =>
        /\ ~given.context.securityState
        /\ Shares(given.policy, shown[1], shown[2]) =>
              /\ \A f \in normalizeCacheVary(given.context.callerFields) \cap DOMAIN shown[1] :
                    shown[1][f] = shown[2][f]
              /\ given.context.sessionBound /\ given.policy.directive = "private" =>
                    shown[1]["Session-ID"] = shown[2]["Session-ID"]

-----------------------------------------------------------------------------
(***************************************************************************)
(* A diversion is allowed only under a complete policy and by its first    *)
(* rule for it: a rule further down can neither allow what an earlier one  *)
(* denied nor take back its demand for a notice, and nothing but a hidden  *)
(* rule allows a hidden diversion.                                         *)
(***************************************************************************)
FirstRuleDecides ==
    LET d == EvaluateDiversion(given, shown)
        first == [given EXCEPT !.rules = <<given.rules[1]>>]
    IN Asks("diversion") =>
          /\ d.allowed =>
                /\ ValidatePolicy(given) /\ validateDiversion(shown)
                /\ \E i \in DOMAIN given.rules :
                      /\ matches(given.rules[i], shown) /\ given.rules[i].allowed /\ given.rules[i].id = d.rule
                      /\ given.rules[i].requireNotice => shown.notified
                      /\ \A j \in 1..(i - 1) : ~matches(given.rules[j], shown)
          /\ ValidatePolicy(given) /\ matches(given.rules[1], shown)
                => d = EvaluateDiversion(first, shown)
=============================================================================
