------------------------- MODULE SessionAcceptance -------------------------
(***************************************************************************)
(* The acceptance transaction of an attested client: what follows once the *)
(* TLS handshake and the exported authenticator are valid.                 *)
(*   pkg/atls/internal_transport/conn.go  validateIdentityPolicy and the   *)
(*                                        context around it                *)
(*   pkg/clients/clients.go               the callback AGTPObservedIdentity*)
(*   pkg/clients/identity_jwt.go          VerifySessionIdentityJWT         *)
(* Attempts run concurrently and share one in-process replay cache, whose  *)
(* steps are those of MemoryReplayCache.  The code reads the clock up to   *)
(* three times per attempt: on entry, in the callback, in MarkUsed.        *)
(***************************************************************************)
EXTENDS SessionBinding

CONSTANTS
    Attempts,   \* calls of ClientContext
    Evidence,   \* what an attempt works with, see EvidenceOK
    NoEvidence, \* the evidence of an attempt that has not begun
    NoKey,      \* no replay key
    MaxTime     \* bound of the clock

VARIABLES
    clock,      \* time.Now
    pc,         \* where each attempt is
    evidence,   \* its configuration and its accepted session
    entered,    \* now in validateIdentityPolicy
    verified,   \* now in the validation of grant and statement
    cancelled,  \* the attempt's context is done
    \* the replay cache
    seen, cachePc, claim, markNow, marks

cacheVars == <<seen, cachePc, claim, markNow, marks>>
vars == <<clock, pc, evidence, entered, verified, cancelled, seen, cachePc, claim, markNow, marks>>

(***************************************************************************)
(* Evidence: [policy, path, cache, jwtOK, grant, statement, session].  The *)
(* path is "callback" when JWTs are configured and "direct" when a         *)
(* verified grant and statement are; cache says whether a replay cache is  *)
(* configured, which the callback demands; jwtOK stands for what the JWT   *)
(* library and the profile checks find, apart from the lifetimes.          *)
(* session: [leaf, context, exporter, binder, attested].                   *)
(***************************************************************************)
ClaimOf(e) == [key |-> replayKeyParts(e.statement), exp |-> e.statement.binding.exp]
Claims == {ClaimOf(e) : e \in Evidence}
Keys == {c.key : c \in Claims}

ASSUME EvidenceOK ==
    /\ EmptyString \in Blank
    /\ MaxTime \in Nat \ {0} /\ NoEvidence \notin Evidence /\ NoKey \notin Keys
    /\ \A e \in Evidence :
          /\ e.path \in {"callback", "direct"}
          /\ e.path = "callback" => e.cache /\ Enabled(e.policy)
          /\ e.statement.binding.exp \in Nat
          /\ e.cache \in BOOLEAN

Cache == INSTANCE MemoryReplayCache
            WITH Calls <- Attempts, pc <- cachePc, now <- markNow, accepts <- marks

Init ==
    /\ Cache!Init
    /\ pc = [a \in Attempts |-> "idle"]
    /\ evidence = [a \in Attempts |-> NoEvidence]
    /\ entered = [a \in Attempts |-> ZeroTime]
    /\ verified = [a \in Attempts |-> ZeroTime]
    /\ cancelled = [a \in Attempts |-> FALSE]
-----------------------------------------------------------------------------
\* ExpectedIdentityBinding: an unattested session expects no exporter or binder.
ExpectedIdentityBinding(s) ==
    [leaf |-> s.leaf, context |-> s.context, nonce |-> EmptyString,
     exporter |-> IF s.attested THEN s.exporter ELSE EmptyString,
     binder |-> IF s.attested THEN s.binder ELSE EmptyString,
     iat |-> ZeroTime, exp |-> ZeroTime]

\* IdentityBindingFromConnectionState always expects the exporter.
IdentityBindingFromConnectionState(s) ==
    [ExpectedIdentityBinding(s) EXCEPT !.exporter = s.exporter]

\* Both fail without a validated leaf certificate or a request context.
HasBindingContext(s) == ~isEmpty(s.leaf) /\ ~isEmpty(s.context)

\* The lifetime checks of the JWT library: here the expiry is exclusive.
JWTLive(iat, exp, t) == exp # ZeroTime /\ t < exp /\ iat <= t

AssertionOf(e) == NewAssertion(e.grant, e.statement)

\* VerifySessionIdentityJWT at time t, up to the replay cache.
VerifySessionIdentityJWT(e, t) ==
    /\ HasBindingContext(e.session)
    /\ e.jwtOK
    /\ JWTLive(e.grant.iat, e.grant.exp, t)
    /\ JWTLive(e.statement.binding.iat, e.statement.binding.exp, t)
    /\ ValidateSessionBindingStatement(e.grant, e.statement, t) = {}
    /\ ValidateAssertion(e.policy, AssertionOf(e), IdentityBindingFromConnectionState(e.session), t) = {}

\* The comparison that validateIdentityPolicy makes itself, at time t.
LocalPolicyAccepts(e, t) ==
    /\ HasBindingContext(e.session)
    /\ ValidateAssertion(e.policy, AssertionOf(e), ExpectedIdentityBinding(e.session), t) = {}

\* Preverified material is checked against its grant and the local policy.
DirectAccepts(e, t) ==
    /\ ValidateSessionBindingStatement(e.grant, e.statement, t) = {}
    /\ LocalPolicyAccepts(e, t)

Goto(a, place) == pc' = [pc EXCEPT ![a] = place]

\* validateIdentityPolicy up to observedIdentityAssertion.
Begin(a, e) ==
    /\ pc[a] = "idle"
    /\ evidence' = [evidence EXCEPT ![a] = e]
    /\ IF Enabled(e.policy)
       THEN entered' = [entered EXCEPT ![a] = clock] /\ Goto(a, "verify")
       ELSE UNCHANGED entered /\ Goto(a, "return")
    /\ UNCHANGED <<clock, verified, cancelled, cacheVars>>

\* The observed identity: the callback takes its own time, the direct path
\* the time of entry.
VerifyAt(a, t, accepts) ==
    /\ pc[a] = "verify"
    /\ verified' = [verified EXCEPT ![a] = t]
    /\ Goto(a, IF ~accepts THEN "rejected" ELSE IF evidence[a].cache THEN "mark" ELSE "return")
    /\ UNCHANGED <<clock, evidence, entered, cancelled, cacheVars>>

CallbackVerify(a) ==
    /\ pc[a] = "verify" /\ evidence[a].path = "callback"
    /\ VerifyAt(a, clock, VerifySessionIdentityJWT(evidence[a], clock))

DirectVerify(a) ==
    /\ pc[a] = "verify" /\ evidence[a].path = "direct"
    /\ VerifyAt(a, entered[a], DirectAccepts(evidence[a], entered[a]))

\* MarkSessionBindingUsed up to the mutex of the cache.
MarkInvoke(a) ==
    /\ pc[a] = "mark"
    /\ Cache!Invoke(a, ClaimOf(evidence[a]))
    /\ Goto(a, IF cachePc'[a] = "locking" THEN "marking" ELSE "rejected")
    /\ UNCHANGED <<evidence, entered, verified, cancelled>>

\* Mutant of MarkCommit: the error of the replay cache is dropped.
MarkCommitIgnored(a) ==
    /\ pc[a] = "marking"
    /\ Cache!Commit(a)
    /\ Goto(a, IF evidence[a].path = "callback" THEN "compare" ELSE "return")
    /\ UNCHANGED <<evidence, entered, verified, cancelled>>

\* The rest of MarkUsed; the callback then returns to the outer comparison.
MarkCommit(a) ==
    /\ pc[a] = "marking"
    /\ Cache!Commit(a)
    /\ Goto(a, IF cachePc'[a] = "replayed" THEN "rejected"
               ELSE IF evidence[a].path = "callback" THEN "compare" ELSE "return")
    /\ UNCHANGED <<evidence, entered, verified, cancelled>>

\* After the callback: the comparison with the local policy at the time of entry.
Compare(a) ==
    /\ pc[a] = "compare"
    /\ Goto(a, IF LocalPolicyAccepts(evidence[a], entered[a]) THEN "return" ELSE "rejected")
    /\ UNCHANGED <<clock, evidence, entered, verified, cancelled, cacheVars>>

\* Mutant of Return: the outcome is decided by the clock of the return.
ReturnLate(a) ==
    /\ pc[a] = "return"
    /\ Goto(a, IF cancelled[a] \/ ~LocalPolicyAccepts(evidence[a], clock)
               THEN "rejected" ELSE "accepted")
    /\ UNCHANGED <<clock, evidence, entered, verified, cancelled, cacheVars>>

\* withConnContext: an error of the context replaces the result.
Return(a) ==
    /\ pc[a] = "return"
    /\ Goto(a, IF cancelled[a] THEN "rejected" ELSE "accepted")
    /\ UNCHANGED <<clock, evidence, entered, verified, cancelled, cacheVars>>

\* The caller cancels, or the deadline passes.
Cancel(a) ==
    /\ ~cancelled[a] /\ pc[a] \notin {"accepted", "rejected"}
    /\ cancelled' = [cancelled EXCEPT ![a] = TRUE]
    /\ UNCHANGED <<clock, pc, evidence, entered, verified, cacheVars>>

Tick ==
    /\ Cache!Tick
    /\ UNCHANGED <<pc, evidence, entered, verified, cancelled>>

Next ==
    \/ Tick
    \/ \E a \in Attempts :
          \/ CallbackVerify(a) \/ DirectVerify(a) \/ MarkInvoke(a) \/ MarkCommit(a)
          \/ Compare(a) \/ Return(a) \/ Cancel(a)
          \/ \E e \in Evidence : Begin(a, e)

Spec == Init /\ [][Next]_vars
-----------------------------------------------------------------------------
TypeOK ==
    /\ clock \in 1..MaxTime
    /\ claim \in [Attempts -> Claims \cup {Cache!NoClaim}]
    /\ cachePc \in [Attempts -> Cache!Outcomes \cup {"idle", "locking"}]
    /\ pc \in [Attempts -> {"idle", "verify", "mark", "marking", "compare", "return",
                            "accepted", "rejected"}]
    /\ evidence \in [Attempts -> Evidence \cup {NoEvidence}]
    /\ entered \in [Attempts -> 0..MaxTime]
    /\ verified \in [Attempts -> 0..MaxTime]
    /\ cancelled \in [Attempts -> BOOLEAN]

Passed(e, t) ==
    IF e.path = "callback" THEN VerifySessionIdentityJWT(e, t) ELSE DirectAccepts(e, t)

Marked(a) == \E m \in marks : m.by = a

(***************************************************************************)
(* docs/SSOT.md section 17: replay state is committed only after the       *)
(* statement was verified and compared with the session and the policy.    *)
(* Whatever the attempts interleave, a key that MarkUsed stored is that of *)
(* an attempt whose verification succeeded, at the time it was made.       *)
(***************************************************************************)
CommittedAfterPolicy ==
    \A m \in marks :
        /\ m.claim = ClaimOf(evidence[m.by])
        /\ Passed(evidence[m.by], verified[m.by])

(***************************************************************************)
(* An attempt that validateIdentityPolicy accepts passed its verification, *)
(* passed the comparison with the local policy at the time of entry too,   *)
(* and consumed its nonce if a replay cache is configured.                 *)
(***************************************************************************)
AcceptedIsVerified ==
    \A a \in Attempts : pc[a] = "accepted" /\ Enabled(evidence[a].policy) =>
        /\ Passed(evidence[a], verified[a])
        /\ LocalPolicyAccepts(evidence[a], entered[a])
        /\ evidence[a].cache => Marked(a)

(***************************************************************************)
(* The inductive strengthening of the two invariants above: what an        *)
(* attempt has established at each place of the transaction.               *)
(***************************************************************************)
AttemptInv(a) ==
    /\ pc[a] # "idle" => evidence[a] \in Evidence
    /\ pc[a] \in {"idle", "verify", "mark", "marking"} => ~Marked(a)
    /\ pc[a] \in {"mark", "marking", "compare"} =>
          /\ Passed(evidence[a], verified[a])
          /\ evidence[a].path = "direct" => LocalPolicyAccepts(evidence[a], entered[a])
    /\ pc[a] = "marking" => claim[a] = ClaimOf(evidence[a])
    /\ pc[a] = "compare" => Marked(a)
    /\ pc[a] \in {"return", "accepted"} /\ Enabled(evidence[a].policy) =>
          /\ Passed(evidence[a], verified[a])
          /\ LocalPolicyAccepts(evidence[a], entered[a])
          /\ evidence[a].cache => Marked(a)

AcceptanceInv ==
    /\ TypeOK
    /\ \A a \in Attempts : AttemptInv(a)
    /\ \A m \in marks : m.by \in Attempts
    /\ CommittedAfterPolicy

(***************************************************************************)
(* One interaction is accepted once: two attempts accepted under the same  *)
(* replay key are apart by the lifetime of a statement, as marked.         *)
(***************************************************************************)
AcceptedOnce ==
    \A a, b \in Attempts :
        /\ a # b /\ pc[a] = "accepted" /\ pc[b] = "accepted"
        /\ Enabled(evidence[a].policy) /\ Enabled(evidence[b].policy)
        /\ evidence[a].cache /\ evidence[b].cache
        /\ ClaimOf(evidence[a]).key = ClaimOf(evidence[b]).key
        => \E m, n \in marks :
              /\ {m.by, n.by} = {a, b}
              /\ m.at > n.claim.exp

(***************************************************************************)
(* Which failed attempts cost their nonce: those whose context ended, and  *)
(* those of the callback path whose statement was issued after the attempt *)
(* entered validateIdentityPolicy, since the outer comparison uses the     *)
(* time of entry.                                                          *)
(***************************************************************************)
LostNonceHasReason ==
    \A a \in Attempts : Marked(a) /\ pc[a] = "rejected" =>
        \/ cancelled[a]
        \/ /\ evidence[a].path = "callback"
           /\ evidence[a].statement.binding.iat > entered[a]

(***************************************************************************)
(* Its inductive strengthening: the callback verifies no earlier than the  *)
(* attempt has entered, and only the callback comes to the comparison.     *)
(***************************************************************************)
LossInv(a) ==
    /\ pc[a] \in {"verify", "mark", "marking", "compare"} => entered[a] \in 1..clock
    /\ pc[a] \in {"mark", "marking", "compare"} /\ evidence[a].path = "callback" =>
          entered[a] <= verified[a]
    /\ pc[a] = "compare" => evidence[a].path = "callback"
    /\ Marked(a) /\ pc[a] = "rejected" =>
          \/ cancelled[a]
          \/ /\ evidence[a].path = "callback"
             /\ evidence[a].statement.binding.iat > entered[a]

(***************************************************************************)
(* The attempts drive the replay cache as it expects: the transaction      *)
(* implements MemoryReplayCache, with one call of MarkUsed per attempt.    *)
(***************************************************************************)
ImplementsCache == Cache!Spec
=============================================================================
