---------------------- MODULE SessionAcceptanceProofs -----------------------
(***************************************************************************)
(* Proofs about the acceptance transaction, for every set of attempts, all *)
(* evidence and whatever the validators of policy.go and                   *)
(* session_binding.go compute: their definitions are never expanded; and   *)
(* about the replay cache over a shared SETNX store, for every set of      *)
(* calls, nodes, keys and claims and every bound of the clock skew.        *)
(***************************************************************************)
EXTENDS SessionAcceptance, SetNXReplayCache, TLAPS
-----------------------------------------------------------------------------
(* The acceptance transaction. *)

LEMMA InitAcceptance == Init => AcceptanceInv
BY EvidenceOK
DEF Init, Cache!Init, Cache!NoClaim, Cache!Outcomes, Cache!ZeroTime, AcceptanceInv, AttemptInv,
    TypeOK, Marked, CommittedAfterPolicy, ZeroTime

\* An attempt whose own state a step leaves alone keeps its invariant.
LEMMA Frame ==
    ASSUME NEW b \in Attempts, AttemptInv(b),
           pc'[b] = pc[b], evidence'[b] = evidence[b], entered'[b] = entered[b],
           verified'[b] = verified[b], claim'[b] = claim[b], Marked(b)' = Marked(b)
    PROVE  AttemptInv(b)'
BY Zenon DEF AttemptInv, Passed, LocalPolicyAccepts, VerifySessionIdentityJWT, DirectAccepts

\* A step that leaves the marks alone, and the evidence and the verification
\* time of every attempt that has marked, keeps what was committed.
LEMMA CommittedFrame ==
    ASSUME CommittedAfterPolicy, marks' = marks,
           \A m \in marks : evidence'[m.by] = evidence[m.by] /\ verified'[m.by] = verified[m.by]
    PROVE  CommittedAfterPolicy'
BY Zenon DEF CommittedAfterPolicy, Passed, LocalPolicyAccepts, VerifySessionIdentityJWT, DirectAccepts

LEMMA BeginAcceptance ==
    ASSUME AcceptanceInv, NEW a \in Attempts, NEW e \in Evidence, Begin(a, e)
    PROVE  AcceptanceInv'
<1>1. /\ pc[a] = "idle" /\ ~Marked(a)
      /\ evidence' = [evidence EXCEPT ![a] = e]
      /\ UNCHANGED <<clock, verified, cancelled, seen, cachePc, claim, markNow, marks>>
  BY Zenon DEF AcceptanceInv, AttemptInv, Begin, cacheVars
<1>2. \/ /\ Enabled(e.policy) /\ pc' = [pc EXCEPT ![a] = "verify"]
         /\ entered' = [entered EXCEPT ![a] = clock]
      \/ ~Enabled(e.policy) /\ pc' = [pc EXCEPT ![a] = "return"] /\ UNCHANGED entered
  BY Zenon DEF Begin, Goto
<1>3. TypeOK'
  BY <1>1, <1>2 DEF AcceptanceInv, TypeOK
<1>4. AttemptInv(a)'
  BY <1>1, <1>2, Zenon DEF AcceptanceInv, TypeOK, AttemptInv, Marked
<1>5. \A b \in Attempts \ {a} : AttemptInv(b)'
  <2> TAKE b \in Attempts \ {a}
  <2>1. /\ pc'[b] = pc[b] /\ evidence'[b] = evidence[b] /\ entered'[b] = entered[b]
        /\ verified'[b] = verified[b] /\ claim'[b] = claim[b] /\ Marked(b)' = Marked(b)
    BY <1>1, <1>2, Zenon DEF AcceptanceInv, TypeOK, Marked
  <2> QED
    BY <2>1, Frame, Zenon DEF AcceptanceInv
<1>6. CommittedAfterPolicy'
  BY <1>1, CommittedFrame, Zenon DEF AcceptanceInv, TypeOK, Marked
<1> QED
  BY <1>1, <1>3, <1>4, <1>5, <1>6, Zenon DEF AcceptanceInv

\* The verification that the code performs here is what Passed says, and on
\* the direct path it includes the comparison at the time of entry.
LEMMA VerifyAcceptance ==
    ASSUME AcceptanceInv, NEW a \in Attempts, CallbackVerify(a) \/ DirectVerify(a)
    PROVE  AcceptanceInv'
<1> DEFINE e == evidence[a]
           t == IF e.path = "callback" THEN clock ELSE entered[a]
<1>1. /\ pc[a] = "verify" /\ ~Marked(a) /\ e \in Evidence
      /\ UNCHANGED <<clock, evidence, entered, cancelled, seen, cachePc, claim, markNow, marks>>
      /\ verified' = [verified EXCEPT ![a] = t]
      /\ pc' = [pc EXCEPT ![a] = IF ~Passed(e, t) THEN "rejected"
                                 ELSE IF e.cache THEN "mark" ELSE "return"]
  BY Zenon DEF AcceptanceInv, AttemptInv, CallbackVerify, DirectVerify, VerifyAt, Goto, Passed, cacheVars
<1>2. TypeOK'
  BY <1>1 DEF AcceptanceInv, TypeOK
<1>3. e.path = "callback" => e.cache
  BY <1>1, EvidenceOK, Zenon
<1>4. e.path = "direct" /\ Passed(e, t) => LocalPolicyAccepts(e, entered[a])
  BY Zenon DEF Passed, DirectAccepts
<1>5. AttemptInv(a)'
  <2>1. pc'[a] = IF ~Passed(e, t) THEN "rejected" ELSE IF e.cache THEN "mark" ELSE "return"
    BY <1>1, Zenon DEF AcceptanceInv, TypeOK
  <2>2. /\ verified'[a] = t /\ evidence'[a] = e /\ entered'[a] = entered[a] /\ ~Marked(a)'
        /\ e.path \in {"callback", "direct"} /\ e.cache \in BOOLEAN
    BY <1>1, EvidenceOK, Zenon DEF AcceptanceInv, TypeOK, Marked
  <2>3. Passed(evidence[a], verified[a])' <=> Passed(e, t)
    BY <2>2, <1>1, Zenon DEF Passed, LocalPolicyAccepts, VerifySessionIdentityJWT, DirectAccepts
  <2>4. LocalPolicyAccepts(evidence[a], entered[a])' <=> LocalPolicyAccepts(e, entered[a])
    BY <1>1, Zenon DEF LocalPolicyAccepts
  <2> QED
    BY <1>1, <1>3, <1>4, <2>1, <2>2, <2>3, <2>4 DEF AttemptInv
<1>6. \A b \in Attempts \ {a} : AttemptInv(b)'
  <2> TAKE b \in Attempts \ {a}
  <2>1. /\ pc'[b] = pc[b] /\ evidence'[b] = evidence[b] /\ entered'[b] = entered[b]
        /\ verified'[b] = verified[b] /\ claim'[b] = claim[b] /\ Marked(b)' = Marked(b)
    BY <1>1, Zenon DEF AcceptanceInv, TypeOK, Marked
  <2> QED
    BY <2>1, Frame, Zenon DEF AcceptanceInv
<1>7. CommittedAfterPolicy'
  BY <1>1, CommittedFrame, Zenon DEF AcceptanceInv, TypeOK, Marked
<1> QED
  BY <1>1, <1>2, <1>5, <1>6, <1>7, Zenon DEF AcceptanceInv

LEMMA MarkInvokeAcceptance ==
    ASSUME AcceptanceInv, NEW a \in Attempts, MarkInvoke(a)
    PROVE  AcceptanceInv'
<1> DEFINE c == ClaimOf(evidence[a])
<1>1. /\ pc[a] = "mark" /\ ~Marked(a) /\ evidence[a] \in Evidence
      /\ UNCHANGED <<clock, evidence, entered, verified, cancelled, seen, marks>>
      /\ claim' = [claim EXCEPT ![a] = c]
      /\ cachePc' = [cachePc EXCEPT ![a] = Cache!Precheck(c, clock)]
      /\ pc' \in {[pc EXCEPT ![a] = "marking"], [pc EXCEPT ![a] = "rejected"]}
  BY Zenon DEF AcceptanceInv, AttemptInv, MarkInvoke, Cache!Invoke, Goto
<1>2. c \in Claims
  BY <1>1, Zenon DEF Claims
<1>3. TypeOK'
  BY <1>1, <1>2, Zenon DEF AcceptanceInv, TypeOK, Cache!Precheck, Cache!Outcomes
<1>4. AttemptInv(a)'
  <2>1. /\ pc'[a] \in {"marking", "rejected"} /\ claim'[a] = c /\ ~Marked(a)'
    BY <1>1, Zenon DEF AcceptanceInv, TypeOK, Marked
  <2>2. Passed(evidence[a], verified[a])' <=> Passed(evidence[a], verified[a])
    BY <1>1, Zenon DEF Passed, LocalPolicyAccepts, VerifySessionIdentityJWT, DirectAccepts
  <2>3. LocalPolicyAccepts(evidence[a], entered[a])' <=> LocalPolicyAccepts(evidence[a], entered[a])
    BY <1>1, Zenon DEF LocalPolicyAccepts
  <2> QED
    BY <1>1, <2>1, <2>2, <2>3, Zenon DEF AcceptanceInv, AttemptInv
<1>5. \A b \in Attempts \ {a} : AttemptInv(b)'
  <2> TAKE b \in Attempts \ {a}
  <2>1. /\ pc'[b] = pc[b] /\ evidence'[b] = evidence[b] /\ entered'[b] = entered[b]
        /\ verified'[b] = verified[b] /\ claim'[b] = claim[b] /\ Marked(b)' = Marked(b)
    BY <1>1, Zenon DEF AcceptanceInv, TypeOK, Marked
  <2> QED
    BY <2>1, Frame, Zenon DEF AcceptanceInv
<1>6. CommittedAfterPolicy'
  BY <1>1, CommittedFrame, Zenon DEF AcceptanceInv
<1> QED
  BY <1>1, <1>3, <1>4, <1>5, <1>6, Zenon DEF AcceptanceInv

\* The only step that marks: it adds the mark of an attempt that has passed.
LEMMA MarkCommitAcceptance ==
    ASSUME AcceptanceInv, NEW a \in Attempts, MarkCommit(a)
    PROVE  AcceptanceInv'
<1> DEFINE e == evidence[a]
           new == [by |-> a, claim |-> ClaimOf(e), at |-> clock]
<1>1. /\ pc[a] = "marking" /\ ~Marked(a) /\ e \in Evidence /\ claim[a] = ClaimOf(e)
      /\ Passed(e, verified[a])
      /\ e.path = "direct" => LocalPolicyAccepts(e, entered[a])
      /\ e.path \in {"callback", "direct"}
      /\ UNCHANGED <<clock, evidence, entered, verified, cancelled, claim, markNow>>
  BY EvidenceOK, Zenon DEF AcceptanceInv, AttemptInv, MarkCommit, Cache!Commit
<1>2. \/ /\ cachePc' = [cachePc EXCEPT ![a] = "replayed"] /\ UNCHANGED marks
         /\ pc' = [pc EXCEPT ![a] = "rejected"]
      \/ /\ cachePc' = [cachePc EXCEPT ![a] = "accepted"] /\ marks' = marks \cup {new}
         /\ pc' = [pc EXCEPT ![a] = IF e.path = "callback" THEN "compare" ELSE "return"]
  BY <1>1, Zenon DEF MarkCommit, Cache!Commit, Goto, AcceptanceInv, TypeOK
<1>3. TypeOK'
  BY <1>1, <1>2, Zenon DEF AcceptanceInv, TypeOK, Cache!Outcomes
<1>4. /\ Passed(evidence[a], verified[a])' <=> Passed(e, verified[a])
      /\ LocalPolicyAccepts(evidence[a], entered[a])' <=> LocalPolicyAccepts(e, entered[a])
  BY <1>1, Zenon DEF Passed, LocalPolicyAccepts, VerifySessionIdentityJWT, DirectAccepts
<1>5. AttemptInv(a)'
  <2>1. CASE pc'[a] = "rejected"
    BY <1>1, <2>1, Zenon DEF AttemptInv
  <2>2. CASE /\ pc'[a] = IF e.path = "callback" THEN "compare" ELSE "return"
             /\ marks' = marks \cup {new}
    <3>1. Marked(a)'
      <4>1. new \in marks' /\ new.by = a
        BY <2>2, Zenon
      <4> QED
        BY <4>1, Zenon DEF Marked
    <3> QED
      BY <1>1, <1>4, <2>2, <3>1, Zenon DEF AttemptInv
  <2> QED
    BY <1>2, <2>1, <2>2, Zenon DEF AcceptanceInv, TypeOK
<1>6. \A b \in Attempts \ {a} : AttemptInv(b)'
  <2> TAKE b \in Attempts \ {a}
  <2>1. /\ pc'[b] = pc[b] /\ evidence'[b] = evidence[b] /\ entered'[b] = entered[b]
        /\ verified'[b] = verified[b] /\ claim'[b] = claim[b] /\ Marked(b)' = Marked(b)
    BY <1>1, <1>2 DEF AcceptanceInv, TypeOK, Marked
  <2> QED
    BY <2>1, Frame, Zenon DEF AcceptanceInv
<1>7. CommittedAfterPolicy'
  <2>1. CASE UNCHANGED marks
    BY <1>1, <2>1, CommittedFrame, Zenon DEF AcceptanceInv
  <2>2. CASE marks' = marks \cup {new}
    <3> SUFFICES ASSUME NEW m \in marks'
                 PROVE  /\ m.claim = ClaimOf(evidence[m.by])
                        /\ Passed(evidence[m.by], verified[m.by])'
      BY <1>1, Zenon DEF CommittedAfterPolicy
    <3>1. CASE m = new
      BY <1>1, <1>4, <3>1, Zenon
    <3>2. CASE m \in marks
      <4>1. m.claim = ClaimOf(evidence[m.by]) /\ Passed(evidence[m.by], verified[m.by])
        BY <3>2, Zenon DEF AcceptanceInv, CommittedAfterPolicy
      <4> QED
        BY <1>1, <4>1, Zenon DEF Passed, LocalPolicyAccepts, VerifySessionIdentityJWT, DirectAccepts
    <3> QED
      BY <2>2, <3>1, <3>2, Zenon
  <2> QED
    BY <1>2, <2>1, <2>2, Zenon
<1> QED
  BY <1>1, <1>2, <1>3, <1>5, <1>6, <1>7 DEF AcceptanceInv

LEMMA FinishAcceptance ==
    ASSUME AcceptanceInv, NEW a \in Attempts, Compare(a) \/ Return(a)
    PROVE  AcceptanceInv'
<1>1. UNCHANGED <<clock, evidence, entered, verified, cancelled, seen, cachePc, claim, markNow, marks>>
  BY Zenon DEF Compare, Return, cacheVars
<1>2. \/ /\ pc[a] = "compare"
         /\ pc' = [pc EXCEPT ![a] = IF LocalPolicyAccepts(evidence[a], entered[a])
                                    THEN "return" ELSE "rejected"]
      \/ pc[a] = "return" /\ pc' \in {[pc EXCEPT ![a] = "rejected"], [pc EXCEPT ![a] = "accepted"]}
  BY Zenon DEF Compare, Return, Goto
<1>3. TypeOK'
  BY <1>1, <1>2, Zenon DEF AcceptanceInv, TypeOK
<1>4. /\ Passed(evidence[a], verified[a])' <=> Passed(evidence[a], verified[a])
      /\ LocalPolicyAccepts(evidence[a], entered[a])' <=> LocalPolicyAccepts(evidence[a], entered[a])
      /\ Marked(a)' <=> Marked(a)
  BY <1>1, Zenon DEF Passed, LocalPolicyAccepts, VerifySessionIdentityJWT, DirectAccepts, Marked
<1>5. AttemptInv(a)'
  BY <1>1, <1>2, <1>4, Zenon DEF AcceptanceInv, TypeOK, AttemptInv
<1>6. \A b \in Attempts \ {a} : AttemptInv(b)'
  <2> TAKE b \in Attempts \ {a}
  <2>1. /\ pc'[b] = pc[b] /\ evidence'[b] = evidence[b] /\ entered'[b] = entered[b]
        /\ verified'[b] = verified[b] /\ claim'[b] = claim[b] /\ Marked(b)' = Marked(b)
    BY <1>1, <1>2, Zenon DEF AcceptanceInv, TypeOK, Marked
  <2> QED
    BY <2>1, Frame, Zenon DEF AcceptanceInv
<1>7. CommittedAfterPolicy'
  BY <1>1, CommittedFrame, Zenon DEF AcceptanceInv
<1> QED
  BY <1>1, <1>3, <1>5, <1>6, <1>7, Zenon DEF AcceptanceInv

\* Cancellation, the clock and stuttering concern no attempt's progress.
LEMMA OutsideAcceptance ==
    ASSUME AcceptanceInv, TypeOK',
           UNCHANGED <<pc, evidence, entered, verified, claim, marks>>
    PROVE  AcceptanceInv'
<1>1. \A b \in Attempts : AttemptInv(b)'
  BY Frame, Zenon DEF AcceptanceInv, Marked
<1>2. CommittedAfterPolicy'
  BY CommittedFrame, Zenon DEF AcceptanceInv
<1> QED
  BY <1>1, <1>2, Zenon DEF AcceptanceInv

\* AcceptanceInv is an invariant of the transaction.
THEOREM AcceptanceInvariant == Spec => []AcceptanceInv
<1>1. AcceptanceInv /\ [Next]_vars => AcceptanceInv'
  <2> SUFFICES ASSUME AcceptanceInv, [Next]_vars
               PROVE  AcceptanceInv'
    BY Zenon
  <2>1. CASE Tick
    <3>1. TypeOK'
      BY <2>1, EvidenceOK DEF Tick, Cache!Tick, AcceptanceInv, TypeOK
    <3> QED
      BY <2>1, <3>1, OutsideAcceptance, Zenon DEF Tick, Cache!Tick
  <2>2. ASSUME NEW a \in Attempts, Cancel(a)
        PROVE  AcceptanceInv'
    <3>1. TypeOK'
      BY <2>2, Zenon DEF Cancel, AcceptanceInv, TypeOK, cacheVars
    <3> QED
      BY <2>2, <3>1, OutsideAcceptance, Zenon DEF Cancel, cacheVars
  <2>3. ASSUME NEW a \in Attempts, CallbackVerify(a) \/ DirectVerify(a)
        PROVE  AcceptanceInv'
    BY <2>3, VerifyAcceptance, Zenon
  <2>4. ASSUME NEW a \in Attempts, MarkInvoke(a)
        PROVE  AcceptanceInv'
    BY <2>4, MarkInvokeAcceptance, Zenon
  <2>5. ASSUME NEW a \in Attempts, MarkCommit(a)
        PROVE  AcceptanceInv'
    BY <2>5, MarkCommitAcceptance, Zenon
  <2>6. ASSUME NEW a \in Attempts, Compare(a) \/ Return(a)
        PROVE  AcceptanceInv'
    BY <2>6, FinishAcceptance, Zenon
  <2>7. ASSUME NEW a \in Attempts, NEW e \in Evidence, Begin(a, e)
        PROVE  AcceptanceInv'
    BY <2>7, BeginAcceptance, Zenon
  <2>8. CASE UNCHANGED vars
    <3>1. TypeOK'
      BY <2>8, Zenon DEF vars, AcceptanceInv, TypeOK
    <3> QED
      BY <2>8, <3>1, OutsideAcceptance, Zenon DEF vars
  <2> QED
    BY <2>1, <2>2, <2>3, <2>4, <2>5, <2>6, <2>7, <2>8, Zenon DEF Next
<1> QED
  BY <1>1, InitAcceptance, PTL DEF Spec

\* Replay state is committed only for verified statements (SSOT section 17),
\* for any number of concurrent attempts.
THEOREM CommitFollowsPolicy == Spec => []CommittedAfterPolicy
BY AcceptanceInvariant, PTL DEF AcceptanceInv

\* No attempt is accepted by validateIdentityPolicy without verification, the
\* comparison with the local policy and, with a cache, the replay mark.
THEOREM AcceptanceIsVerified == Spec => []AcceptedIsVerified
<1>1. AcceptanceInv => AcceptedIsVerified
  BY Zenon DEF AcceptanceInv, AttemptInv, AcceptedIsVerified
<1> QED
  BY <1>1, AcceptanceInvariant, PTL

(***************************************************************************)
(* The comparison after the callback repeats, at the time of entry, what   *)
(* the callback has found at a later time, and asks for no more fields.    *)
(***************************************************************************)

\* The session that validateIdentityPolicy expects asks for at most the fields
\* that the callback has compared, with the same values.
LEMMA ExpectsNoMore ==
    ASSUME NEW s, NEW f \in BindingFields, ~isEmpty(ExpectedIdentityBinding(s)[f])
    PROVE  IdentityBindingFromConnectionState(s)[f] = ExpectedIdentityBinding(s)[f]
BY EvidenceOK
DEF ExpectedIdentityBinding, IdentityBindingFromConnectionState, BindingFields, isEmpty

\* Only a statement issued after the entry fails there.
LEMMA ComparisonRepeats ==
    ASSUME NEW e \in Evidence, NEW t \in Nat, NEW t0 \in 1..t,
           VerifySessionIdentityJWT(e, t), ~(e.statement.binding.iat > t0)
    PROVE  LocalPolicyAccepts(e, t0)
<1> DEFINE b == e.statement.binding
           outer == ExpectedIdentityBinding(e.session)
           inner == IdentityBindingFromConnectionState(e.session)
<1>1. /\ HasBindingContext(e.session)
      /\ validateBinding(b, inner, t) = {}
      /\ Validate(e.policy, e.grant.values) = {}
  BY Zenon DEF VerifySessionIdentityJWT, ValidateAssertion, AssertionOf, NewAssertion
<1>2. /\ b.exp \in Nat /\ b.exp # ZeroTime /\ ~(t > b.exp)
  <2>1. lifetimeErrors("binding", b.iat, b.exp, "missing_binding", t) = {}
    BY <1>1, Zenon DEF validateBinding
  <2>2. b.exp \in Nat
    BY EvidenceOK, Zenon
  <2>3. t \in Nat \ {0}
    OBVIOUS
  <2> HIDE DEF b
  <2> QED
    BY <2>1, <2>2, <2>3, Zenon DEF lifetimeErrors, ZeroTime
<1>3. lifetimeErrors("binding", b.iat, b.exp, "missing_binding", t0) = {}
  BY <1>2 DEF lifetimeErrors, ZeroTime
<1>4. \A f \in BindingFields : ~isEmpty(outer[f]) =>
          Located("binding", f, boundFieldErrors(outer[f], b[f])) = {}
  <2> SUFFICES ASSUME NEW f \in BindingFields, ~isEmpty(outer[f])
               PROVE  Located("binding", f, boundFieldErrors(outer[f], b[f])) = {}
    BY Zenon
  <2>1. inner[f] = outer[f]
    BY ExpectsNoMore, Zenon
  <2>2. Located("binding", f, boundFieldErrors(inner[f], b[f])) = {}
    BY <1>1, <2>1, Zenon DEF validateBinding
  <2> QED
    BY <2>1, <2>2, Zenon
<1>5. ~isEmpty(outer["leaf"]) /\ "leaf" \in BindingFields
  BY <1>1, Zenon DEF HasBindingContext, ExpectedIdentityBinding, BindingFields
<1>6. validateBinding(b, outer, t0) = {}
  BY <1>3, <1>4, <1>5, Zenon DEF validateBinding
<1> QED
  BY <1>1, <1>6, Zenon DEF LocalPolicyAccepts, ValidateAssertion, AssertionOf, NewAssertion

\* An attempt that a step leaves alone keeps LossInv: the clock does not go
\* back and a context stays cancelled.
LEMMA LossFrame ==
    ASSUME TypeOK, NEW b \in Attempts, LossInv(b),
           pc'[b] = pc[b], evidence'[b] = evidence[b], entered'[b] = entered[b],
           verified'[b] = verified[b], Marked(b)' = Marked(b),
           clock' \in Nat, clock <= clock', cancelled[b] => cancelled'[b]
    PROVE  LossInv(b)'
BY DEF LossInv, TypeOK

\* Each step of an attempt keeps its LossInv.
LEMMA OwnLoss ==
    ASSUME AcceptanceInv, AcceptanceInv', NEW a \in Attempts, LossInv(a),
           \/ CallbackVerify(a) \/ DirectVerify(a) \/ MarkInvoke(a) \/ MarkCommit(a)
           \/ Compare(a) \/ Return(a) \/ Cancel(a)
           \/ \E e \in Evidence : Begin(a, e)
    PROVE  LossInv(a)'
<1>1. TypeOK /\ TypeOK' /\ AttemptInv(a) /\ AttemptInv(a)'
  BY Zenon DEF AcceptanceInv
<1>2. clock \in 1..MaxTime /\ MaxTime \in Nat
  BY <1>1, EvidenceOK, Zenon DEF TypeOK
<1>3. CASE CallbackVerify(a)
  <2>1. /\ pc[a] = "verify" /\ pc'[a] \in {"rejected", "mark", "return"}
        /\ evidence' = evidence /\ entered' = entered /\ clock' = clock /\ marks' = marks
        /\ verified'[a] = clock
    BY <1>1, <1>3, Zenon DEF CallbackVerify, VerifyAt, Goto, TypeOK, cacheVars
  <2>2. ~Marked(a)'
    BY <1>1, <2>1, Zenon DEF AttemptInv, Marked
  <2> QED
    BY <1>1, <1>2, <2>1, <2>2 DEF LossInv, TypeOK
<1>4. CASE DirectVerify(a)
  <2>1. /\ pc[a] = "verify" /\ pc'[a] \in {"rejected", "mark", "return"}
        /\ evidence' = evidence /\ entered' = entered /\ clock' = clock /\ marks' = marks
        /\ evidence[a].path = "direct"
    BY <1>1, <1>4, Zenon DEF DirectVerify, VerifyAt, Goto, TypeOK, cacheVars
  <2>2. ~Marked(a)'
    BY <1>1, <2>1, Zenon DEF AttemptInv, Marked
  <2> QED
    BY <1>1, <1>2, <2>1, <2>2, Zenon DEF LossInv, TypeOK
<1>5. CASE MarkInvoke(a)
  <2>1. /\ pc[a] = "mark" /\ pc'[a] \in {"marking", "rejected"}
        /\ evidence' = evidence /\ entered' = entered /\ verified' = verified
        /\ clock' = clock /\ marks' = marks
    BY <1>1, <1>5, Zenon DEF MarkInvoke, Cache!Invoke, Goto, TypeOK
  <2>2. ~Marked(a)'
    BY <1>1, <2>1, Zenon DEF AttemptInv, Marked
  <2> QED
    BY <1>1, <1>2, <2>1, <2>2, Zenon DEF LossInv, TypeOK
<1>6. CASE MarkCommit(a)
  <2>1. /\ pc[a] = "marking" /\ evidence' = evidence /\ entered' = entered
        /\ verified' = verified /\ clock' = clock
        /\ \/ pc'[a] = "rejected" /\ marks' = marks
           \/ pc'[a] = IF evidence[a].path = "callback" THEN "compare" ELSE "return"
    BY <1>1, <1>6, Zenon DEF MarkCommit, Cache!Commit, Goto, TypeOK
  <2>2. marks' = marks => ~Marked(a)'
    BY <1>1, <2>1, Zenon DEF AttemptInv, Marked
  <2> QED
    BY <1>1, <1>2, <2>1, <2>2, Zenon DEF LossInv, TypeOK
<1>7. CASE Compare(a)
  <2>1. /\ pc[a] = "compare" /\ UNCHANGED <<clock, evidence, entered, verified, cancelled, marks>>
        /\ pc'[a] = IF LocalPolicyAccepts(evidence[a], entered[a]) THEN "return" ELSE "rejected"
    BY <1>1, <1>7, Zenon DEF Compare, Goto, TypeOK, cacheVars
  <2>2. /\ evidence[a] \in Evidence /\ evidence[a].path = "callback"
        /\ VerifySessionIdentityJWT(evidence[a], verified[a])
    BY <1>1, <2>1, Zenon DEF AttemptInv, LossInv, Passed
  <2>3. verified[a] \in Nat /\ entered[a] \in 1..verified[a]
    BY <1>1, <1>2, <2>1, <2>2 DEF LossInv, TypeOK
  <2>4. pc'[a] = "rejected" => evidence[a].statement.binding.iat > entered[a]
    BY <2>1, <2>2, <2>3, ComparisonRepeats, Zenon
  <2> QED
    BY <2>1, <2>2, <2>4, Zenon DEF LossInv
<1>8. CASE Return(a)
  <2>1. /\ UNCHANGED cancelled
        /\ pc'[a] = IF cancelled[a] THEN "rejected" ELSE "accepted"
    BY <1>1, <1>8, Zenon DEF Return, Goto, TypeOK, cacheVars
  <2> QED
    BY <2>1, Zenon DEF LossInv
<1>9. CASE Cancel(a)
  <2>1. /\ cancelled'[a] /\ UNCHANGED <<clock, pc, evidence, entered, verified, marks>>
    BY <1>1, <1>9, Zenon DEF Cancel, TypeOK, cacheVars
  <2> QED
    BY <2>1, Zenon DEF LossInv, Marked
<1>10. ASSUME NEW e \in Evidence, Begin(a, e)
       PROVE  LossInv(a)'
  <2>1. /\ clock' = clock /\ pc'[a] \in {"verify", "return"}
        /\ pc'[a] = "verify" => entered'[a] = clock
    BY <1>1, <1>10 DEF Begin, Goto, TypeOK
  <2> QED
    BY <1>2, <2>1 DEF LossInv
<1> QED
  BY <1>3, <1>4, <1>5, <1>6, <1>7, <1>8, <1>9, <1>10, Zenon

\* What a step of attempt a leaves alone of the others.
LEMMA OthersKept ==
    ASSUME TypeOK, NEW a \in Attempts, NEW b \in Attempts \ {a},
           \/ CallbackVerify(a) \/ DirectVerify(a) \/ MarkInvoke(a) \/ MarkCommit(a)
           \/ Compare(a) \/ Return(a) \/ Cancel(a)
           \/ \E e \in Evidence : Begin(a, e)
    PROVE  /\ pc'[b] = pc[b] /\ evidence'[b] = evidence[b] /\ entered'[b] = entered[b]
           /\ verified'[b] = verified[b] /\ Marked(b)' = Marked(b)
           /\ clock' = clock
           /\ cancelled[b] => cancelled'[b]
<1>1. CASE CallbackVerify(a) \/ DirectVerify(a)
  BY <1>1, Zenon DEF CallbackVerify, DirectVerify, VerifyAt, Goto, TypeOK, Marked, cacheVars
<1>2. CASE MarkInvoke(a)
  BY <1>2, Zenon DEF MarkInvoke, Cache!Invoke, Goto, TypeOK, Marked
<1>3. CASE MarkCommit(a)
  BY <1>3 DEF MarkCommit, Cache!Commit, Goto, TypeOK, Marked
<1>4. CASE Compare(a) \/ Return(a) \/ Cancel(a)
  BY <1>4, Zenon DEF Compare, Return, Cancel, Goto, TypeOK, Marked, cacheVars
<1>5. ASSUME NEW e \in Evidence, Begin(a, e)
      PROVE  /\ pc'[b] = pc[b] /\ evidence'[b] = evidence[b] /\ entered'[b] = entered[b]
             /\ verified'[b] = verified[b] /\ Marked(b)' = Marked(b)
             /\ clock' = clock
             /\ cancelled[b] => cancelled'[b]
  BY <1>5 DEF Begin, Goto, TypeOK, Marked, cacheVars
<1> QED
  BY <1>1, <1>2, <1>3, <1>4, <1>5, Zenon

\* A rejected attempt has spent its nonce only if its context ended, or if its
\* statement was issued after validateIdentityPolicy read the clock on entry.
THEOREM LossHasReason == Spec => []LostNonceHasReason
<1> DEFINE Loss == \A a \in Attempts : LossInv(a)
<1>1. Init => Loss
  BY Zenon DEF Init, LossInv, Marked, Cache!Init
<1>2. Loss /\ AcceptanceInv /\ AcceptanceInv' /\ [Next]_vars => Loss'
  <2> SUFFICES ASSUME Loss, AcceptanceInv, AcceptanceInv', [Next]_vars
               PROVE  Loss'
    BY Zenon
  <2>1. TypeOK /\ clock \in Nat
    BY DEF AcceptanceInv, TypeOK
  <2>2. ASSUME NEW a \in Attempts,
               \/ CallbackVerify(a) \/ DirectVerify(a) \/ MarkInvoke(a) \/ MarkCommit(a)
               \/ Compare(a) \/ Return(a) \/ Cancel(a)
               \/ \E e \in Evidence : Begin(a, e)
        PROVE  Loss'
    <3>1. LossInv(a)'
      BY <2>2, OwnLoss, Zenon
    <3>2. ASSUME NEW b \in Attempts \ {a}
          PROVE  LossInv(b)'
      <4>1. /\ pc'[b] = pc[b] /\ evidence'[b] = evidence[b] /\ entered'[b] = entered[b]
            /\ verified'[b] = verified[b] /\ Marked(b)' = Marked(b)
            /\ clock' = clock
            /\ cancelled[b] => cancelled'[b]
        BY <2>1, <2>2, OthersKept, Zenon
      <4>2. LossInv(b) /\ clock' \in Nat /\ clock <= clock'
        BY <2>1, <4>1
      <4> QED
        BY <2>1, <4>1, <4>2, LossFrame, Zenon
    <3> QED
      BY <3>1, <3>2, Zenon
  <2>3. CASE Tick
    <3>1. /\ UNCHANGED <<pc, evidence, entered, verified, cancelled, marks>>
          /\ clock' = clock + 1
      BY <2>3, Zenon DEF Tick, Cache!Tick
    <3> QED
      BY <2>1, <3>1, LossFrame DEF Marked
  <2>4. CASE UNCHANGED vars
    BY <2>1, <2>4, LossFrame DEF vars, Marked
  <2> QED
    BY <2>2, <2>3, <2>4, Zenon DEF Next
<1>3. Loss => LostNonceHasReason
  BY Zenon DEF LossInv, LostNonceHasReason
<1> QED
  BY <1>1, <1>2, <1>3, AcceptanceInvariant, PTL DEF Spec

(***************************************************************************)
(* The transaction implements the replay cache, so what is proved of the   *)
(* cache holds of the marks.                                               *)
(***************************************************************************)
CacheProofs == INSTANCE MemoryReplayCacheProofs
                  WITH Calls <- Attempts, pc <- cachePc, now <- markNow, accepts <- marks

\* Every step of an attempt is a step of MarkUsed or leaves the cache alone.
THEOREM CacheRefinement == Spec => ImplementsCache
<1>1. Init => Cache!Init
  BY Zenon DEF Init
<1>2. AcceptanceInv /\ [Next]_vars => [Cache!Next]_(Cache!vars)
  <2> SUFFICES ASSUME AcceptanceInv, [Next]_vars
               PROVE  [Cache!Next]_(Cache!vars)
    BY Zenon
  <2>1. CASE Tick
    BY <2>1, Zenon DEF Tick, Cache!Next
  <2>2. ASSUME NEW a \in Attempts, MarkInvoke(a)
        PROVE  [Cache!Next]_(Cache!vars)
    <3>1. ClaimOf(evidence[a]) \in Claims
      BY <2>2, Zenon DEF AcceptanceInv, AttemptInv, MarkInvoke, Claims
    <3> QED
      BY <2>2, <3>1, Zenon DEF MarkInvoke, Cache!Next
  <2>3. ASSUME NEW a \in Attempts, MarkCommit(a)
        PROVE  [Cache!Next]_(Cache!vars)
    BY <2>3, Zenon DEF MarkCommit, Cache!Next
  <2>4. ASSUME NEW a \in Attempts,
               CallbackVerify(a) \/ DirectVerify(a) \/ Compare(a) \/ Return(a) \/ Cancel(a)
        PROVE  [Cache!Next]_(Cache!vars)
    BY <2>4, Zenon DEF CallbackVerify, DirectVerify, VerifyAt, Compare, Return, Cancel, cacheVars,
                Cache!vars
  <2>5. ASSUME NEW a \in Attempts, NEW e \in Evidence, Begin(a, e)
        PROVE  [Cache!Next]_(Cache!vars)
    BY <2>5, Zenon DEF Begin, cacheVars, Cache!vars
  <2>6. CASE UNCHANGED vars
    BY <2>6, Zenon DEF vars, Cache!vars
  <2> QED
    BY <2>1, <2>2, <2>3, <2>4, <2>5, <2>6, Zenon DEF Next
<1> QED
  BY <1>1, <1>2, AcceptanceInvariant, PTL DEF Spec, ImplementsCache, Cache!Spec

\* What CacheProofs assumes of the claims follows from EvidenceOK.
LEMMA ClaimsAreTyped ==
    /\ NoKey \notin Keys
    /\ Claims \subseteq [key : Keys \cup {NoKey}, exp : Nat]
    /\ MaxTime \in Nat \ {0}
BY EvidenceOK DEF Claims, Keys, ClaimOf

\* Two attempts are accepted under one replay key only if one marked after
\* the statement of the other expired.
THEOREM AcceptedOnlyOnce == Spec => []AcceptedOnce
<1>1. CacheProofs!ClaimsAssumption
  BY ClaimsAreTyped, Zenon DEF CacheProofs!ClaimsAssumption
<1>2. CacheProofs!Spec => []CacheProofs!NoLiveReplay
  BY <1>1, CacheProofs!OneShotWhileLive, Zenon
<1>3. Cache!Init => CacheProofs!Init
  BY Zenon DEF Cache!Init, CacheProofs!Init, Cache!ZeroTime, CacheProofs!ZeroTime, Cache!NoClaim,
         CacheProofs!NoClaim
<1>4. [Cache!Next]_(Cache!vars) => [CacheProofs!Next]_(CacheProofs!vars)
  BY Zenon DEF Cache!Next, Cache!vars, Cache!Invoke, Cache!Commit, Cache!Tick, Cache!Precheck,
         Cache!Expired, Cache!Purge, Cache!ZeroTime,
         CacheProofs!Next, CacheProofs!vars, CacheProofs!Invoke, CacheProofs!Commit,
         CacheProofs!Tick, CacheProofs!Precheck, CacheProofs!Expired, CacheProofs!Purge,
         CacheProofs!ZeroTime
<1>5. Cache!Spec => CacheProofs!Spec
  BY <1>3, <1>4, PTL DEF Cache!Spec, CacheProofs!Spec
<1>6. AcceptanceInv /\ CacheProofs!NoLiveReplay => AcceptedOnce
  <2> SUFFICES ASSUME AcceptanceInv, CacheProofs!NoLiveReplay,
                      NEW a \in Attempts, NEW b \in Attempts,
                      a # b, pc[a] = "accepted", pc[b] = "accepted",
                      Enabled(evidence[a].policy), Enabled(evidence[b].policy),
                      evidence[a].cache, evidence[b].cache,
                      ClaimOf(evidence[a]).key = ClaimOf(evidence[b]).key
               PROVE  \E m, n \in marks : {m.by, n.by} = {a, b} /\ m.at > n.claim.exp
    BY Zenon DEF AcceptedOnce
  <2>1. PICK m \in marks : m.by = a
    BY Zenon DEF AcceptanceInv, AttemptInv, Marked
  <2>2. PICK n \in marks : n.by = b
    BY Zenon DEF AcceptanceInv, AttemptInv, Marked
  <2>3. m.claim.key = n.claim.key
    BY <2>1, <2>2, Zenon DEF AcceptanceInv, CommittedAfterPolicy
  <2>4. m.at > n.claim.exp \/ n.at > m.claim.exp
    BY <2>1, <2>2, <2>3, Zenon DEF CacheProofs!NoLiveReplay
  <2>5. {m.by, n.by} = {a, b} /\ {n.by, m.by} = {a, b}
    BY <2>1, <2>2, Zenon
  <2> QED
    BY <2>4, <2>5, Zenon
<1> QED
  BY <1>2, <1>5, <1>6, CacheRefinement, AcceptanceInvariant, PTL DEF ImplementsCache
-----------------------------------------------------------------------------
(* The replay cache over a shared store. *)

LEMMA InitStoreInv == StoreInit => StoreInv
BY StoreAssumption DEF StoreInit, StoreInv, StoreTypeOK, NoReplayAcrossNodes, NoStoreClaim, NoExpiry, StoreOutcomes

\* The time to live a node computes reaches up to the expiry less the skew.
LEMMA InvokeStoreInv ==
    ASSUME StoreInv, NEW p \in StoreCalls, NEW c \in StoreClaims, StoreInvoke(p, c)
    PROVE  StoreInv'
<1> DEFINE t == storeClock + skew[NodeOf[p]]
<1>1. /\ skew[NodeOf[p]] \in -MaxSkew..MaxSkew /\ t \in Int /\ t <= storeClock + MaxSkew
      /\ c.exp \in Nat /\ storeClock \in Nat
  BY StoreAssumption DEF StoreInv, StoreTypeOK
<1>2. StoreTypeOK'
  BY <1>1, StoreAssumption
  DEF StoreInv, StoreTypeOK, StoreInvoke, StorePrecheck, StoreOutcomes, NoStoreClaim, NoExpiry
<1>3. \A q \in StoreCalls : storePc'[q] = "calling" =>
            /\ storeClaim'[q] \in StoreClaims /\ storeClaim'[q].key \in StoreKeys
            /\ ttl'[q] > 0 /\ storeClock' + ttl'[q] >= storeClaim'[q].exp - MaxSkew
  <2> SUFFICES ASSUME NEW q \in StoreCalls, storePc'[q] = "calling"
               PROVE  /\ storeClaim'[q] \in StoreClaims /\ storeClaim'[q].key \in StoreKeys
                      /\ ttl'[q] > 0 /\ storeClock' + ttl'[q] >= storeClaim'[q].exp - MaxSkew
    BY Zenon
  <2>1. CASE q = p
    <3>1. storeClaim'[q] = c /\ ttl'[q] = c.exp - t /\ storeClock' = storeClock
      BY <2>1, Zenon DEF StoreInv, StoreTypeOK, StoreInvoke
    <3>2. c.key \in StoreKeys /\ c.exp - t > 0
      BY <1>1, <2>1, StoreAssumption DEF StoreInv, StoreTypeOK, StoreInvoke, StorePrecheck, NoExpiry
    <3>3. storeClock + (c.exp - t) >= c.exp - MaxSkew
      BY <1>1, StoreAssumption
    <3> QED
      BY <3>1, <3>2, <3>3, Zenon
  <2>2. CASE q # p
    BY <2>2, Zenon DEF StoreInv, StoreTypeOK, StoreInvoke
  <2> QED
    BY <2>1, <2>2, Zenon
<1>4. \A r \in storeAccepts : r.by # p /\ r.by \in StoreCalls
  BY Zenon DEF StoreInv, StoreTypeOK, StoreInvoke
<1>5. \A r \in storeAccepts : storePc'[r.by] = "accepted"
  BY <1>4, Zenon DEF StoreInv, StoreTypeOK, StoreInvoke
<1>6. NoReplayAcrossNodes'
  BY Zenon DEF StoreInv, NoReplayAcrossNodes, StoreInvoke
<1> QED
  BY <1>2, <1>3, <1>5, <1>6, Zenon DEF StoreInv, StoreInvoke

\* An insertion into a key the store does not hold disturbs no acceptance
\* that is still protected.
LEMMA InsertionKeepsProtected ==
    ASSUME StoreInv, NEW p \in StoreCalls, storePc[p] = "calling", ~Holds(storeClaim[p].key)
    PROVE  /\ \A r \in storeAccepts : r.claim.key = storeClaim[p].key => storeClock > r.claim.exp - SkewMargin
           /\ [store EXCEPT ![storeClaim[p].key] = storeClock + ttl[p]] \in [StoreKeys -> Nat]
           /\ \A r \in storeAccepts : storeClock <= r.claim.exp - SkewMargin =>
                [store EXCEPT ![storeClaim[p].key] = storeClock + ttl[p]][r.claim.key]
                    >= r.claim.exp - MaxSkew
<1>1. /\ storeClaim[p].key \in StoreKeys /\ store \in [StoreKeys -> Nat] /\ storeClock \in Nat
      /\ ttl[p] \in Int /\ ttl[p] > 0
  BY DEF StoreInv, StoreTypeOK
<1>2. \A r \in storeAccepts : r.claim.key = storeClaim[p].key => storeClock > r.claim.exp - SkewMargin
  <2> SUFFICES ASSUME NEW r \in storeAccepts, r.claim.key = storeClaim[p].key,
                      ~(storeClock > r.claim.exp - SkewMargin)
               PROVE  FALSE
    BY Zenon
  <2>1. r.claim.exp \in Nat /\ MaxSkew \in Nat
    BY StoreAssumption, Zenon DEF StoreInv, StoreTypeOK
  <2>2. storeClock <= r.claim.exp - SkewMargin
    BY <1>1, <2>1 DEF SkewMargin
  <2>3. store[storeClaim[p].key] >= r.claim.exp - MaxSkew
    BY <2>2, Zenon DEF StoreInv
  <2> QED
    BY <1>1, <2>1, <2>2, <2>3 DEF Holds, SkewMargin
<1>3. [store EXCEPT ![storeClaim[p].key] = storeClock + ttl[p]] \in [StoreKeys -> Nat]
  BY <1>1
<1>4. ASSUME NEW r \in storeAccepts, storeClock <= r.claim.exp - SkewMargin
      PROVE  [store EXCEPT ![storeClaim[p].key] = storeClock + ttl[p]][r.claim.key]
                 >= r.claim.exp - MaxSkew
  <2>1. r.claim.exp \in Nat /\ MaxSkew \in Nat /\ r.claim.key \in StoreKeys
    BY StoreAssumption, Zenon DEF StoreInv, StoreTypeOK
  <2>2. r.claim.key # storeClaim[p].key
    BY <1>1, <1>2, <1>4, <2>1 DEF SkewMargin
  <2>3. store[r.claim.key] >= r.claim.exp - MaxSkew
    BY <1>4, Zenon DEF StoreInv
  <2> QED
    BY <1>1, <2>1, <2>2, <2>3, Zenon
<1> QED
  BY <1>2, <1>3, <1>4, Zenon

LEMMA InsertStoreInv ==
    ASSUME StoreInv, NEW p \in StoreCalls, Insert(p)
    PROVE  StoreInv'
<1> DEFINE c == storeClaim[p]
           new == [by |-> p, claim |-> c, at |-> storeClock]
<1>1. /\ storePc[p] = "calling" /\ ~Holds(c.key)
      /\ store' = [store EXCEPT ![c.key] = storeClock + ttl[p]]
      /\ storePc' = [storePc EXCEPT ![p] = "accepted"]
      /\ storeAccepts' = storeAccepts \cup {new}
      /\ UNCHANGED <<storeClock, skew, storeClaim, ttl>>
  BY Zenon DEF Insert
<1>2. /\ c \in StoreClaims /\ c.key \in StoreKeys /\ c.exp \in Nat /\ storeClock \in 1..StoreMaxTime
      /\ storeClock + ttl[p] >= c.exp - MaxSkew /\ store \in [StoreKeys -> Nat]
  BY <1>1, StoreAssumption, Zenon DEF StoreInv, StoreTypeOK
<1>3. /\ \A r \in storeAccepts : r.claim.key = c.key => storeClock > r.claim.exp - SkewMargin
      /\ store' \in [StoreKeys -> Nat]
      /\ \A r \in storeAccepts : storeClock <= r.claim.exp - SkewMargin =>
            store'[r.claim.key] >= r.claim.exp - MaxSkew
  BY <1>1, InsertionKeepsProtected, Zenon
<1>4. StoreTypeOK'
  BY <1>1, <1>2, <1>3 DEF StoreInv, StoreTypeOK, StoreOutcomes
<1>5. \A q \in StoreCalls : storePc'[q] = "calling" =>
            /\ storeClaim'[q] \in StoreClaims /\ storeClaim'[q].key \in StoreKeys
            /\ ttl'[q] > 0 /\ storeClock' + ttl'[q] >= storeClaim'[q].exp - MaxSkew
  BY <1>1, Zenon DEF StoreInv, StoreTypeOK
<1>6. \A r \in storeAccepts' :
            /\ r.at <= storeClock'
            /\ storePc'[r.by] = "accepted"
            /\ r.claim.key \in StoreKeys
  BY <1>1, <1>2 DEF StoreInv, StoreTypeOK
<1>7. \A r \in storeAccepts' : storeClock' <= r.claim.exp - SkewMargin =>
            store'[r.claim.key] >= r.claim.exp - MaxSkew
  <2>1. store'[new.claim.key] >= new.claim.exp - MaxSkew
    BY <1>1, <1>2, Zenon
  <2> QED
    BY <1>1, <1>3, <2>1, Zenon
<1>8. NoReplayAcrossNodes'
  <2> SUFFICES ASSUME NEW r \in storeAccepts', NEW q \in storeAccepts',
                      r.by # q.by, r.claim.key = q.claim.key
               PROVE  \/ r.at > q.claim.exp - SkewMargin
                      \/ q.at > r.claim.exp - SkewMargin
    BY Zenon DEF NoReplayAcrossNodes
  <2>1. CASE r \in storeAccepts /\ q \in storeAccepts
    BY <2>1, Zenon DEF StoreInv, NoReplayAcrossNodes
  <2>2. CASE r = new /\ q \in storeAccepts
    BY <1>3, <2>2, Zenon
  <2>3. CASE q = new /\ r \in storeAccepts
    BY <1>3, <2>3, Zenon
  <2> QED
    BY <1>1, <2>1, <2>2, <2>3, Zenon
<1> QED
  BY <1>4, <1>5, <1>6, <1>7, <1>8, Zenon DEF StoreInv

\* A call that the store refuses, or whose answer is an error, accepts
\* nothing, whether or not its insertion took effect.
LEMMA NoAnswerStoreInv ==
    ASSUME StoreInv, NEW p \in StoreCalls, Refuse(p) \/ StoreFails(p)
    PROVE  StoreInv'
<1>1. /\ storePc[p] = "calling" /\ storeClaim[p].key \in StoreKeys
      /\ storePc' \in {[storePc EXCEPT ![p] = "replayed"], [storePc EXCEPT ![p] = "failed"]}
      /\ UNCHANGED <<storeClock, skew, storeClaim, ttl, storeAccepts>>
  BY Zenon DEF Refuse, StoreFails, StoreInv
<1>2. /\ store' \in [StoreKeys -> Nat]
      /\ \A r \in storeAccepts : storeClock <= r.claim.exp - SkewMargin =>
            store'[r.claim.key] >= r.claim.exp - MaxSkew
  <2>1. CASE UNCHANGED store
    BY <2>1, Zenon DEF StoreInv, StoreTypeOK
  <2>2. CASE ~Holds(storeClaim[p].key) /\ store' = [store EXCEPT ![storeClaim[p].key] = storeClock + ttl[p]]
    BY <1>1, <2>2, InsertionKeepsProtected, Zenon
  <2> QED
    BY <2>1, <2>2, Zenon DEF Refuse, StoreFails
<1>3. StoreTypeOK'
  BY <1>1, <1>2, Zenon DEF StoreInv, StoreTypeOK, StoreOutcomes
<1>4. \A r \in storeAccepts : r.by # p
  BY <1>1, Zenon DEF StoreInv
<1>5. \A q \in StoreCalls : storePc'[q] = "calling" => storePc[q] = "calling"
  BY <1>1, Zenon DEF StoreInv, StoreTypeOK
<1>6. \A r \in storeAccepts : storePc'[r.by] = "accepted"
  BY <1>1, <1>4, Zenon DEF StoreInv, StoreTypeOK
<1> QED
  BY <1>1, <1>2, <1>3, <1>5, <1>6, Zenon DEF StoreInv, NoReplayAcrossNodes

LEMMA TickStoreInv ==
    ASSUME StoreInv, StoreTick
    PROVE  StoreInv'
<1>1. /\ storeClock \in Nat /\ storeClock' = storeClock + 1
      /\ UNCHANGED <<skew, store, storePc, storeClaim, ttl, storeAccepts>>
  BY DEF StoreInv, StoreTypeOK, StoreTick
<1>2. StoreTypeOK'
  BY <1>1, StoreAssumption DEF StoreInv, StoreTypeOK, StoreTick
<1>3. \A q \in StoreCalls : storePc'[q] = "calling" =>
            /\ storeClaim'[q] \in StoreClaims /\ storeClaim'[q].key \in StoreKeys
            /\ ttl'[q] > 0 /\ storeClock' + ttl'[q] >= storeClaim'[q].exp - MaxSkew
  <2> SUFFICES ASSUME NEW q \in StoreCalls, storePc[q] = "calling"
               PROVE  /\ storeClaim[q] \in StoreClaims /\ storeClaim[q].key \in StoreKeys
                      /\ ttl[q] > 0 /\ storeClock + 1 + ttl[q] >= storeClaim[q].exp - MaxSkew
    BY <1>1, Zenon
  <2>1. storeClaim[q] \in StoreClaims /\ storeClaim[q].exp \in Nat /\ ttl[q] \in Int /\ MaxSkew \in Nat
    BY StoreAssumption, Zenon DEF StoreInv, StoreTypeOK
  <2> QED
    BY <1>1, <2>1 DEF StoreInv
<1>4. \A r \in storeAccepts' :
            /\ r.at <= storeClock'
            /\ storePc'[r.by] = "accepted"
            /\ r.claim.key \in StoreKeys
            /\ storeClock' <= r.claim.exp - SkewMargin =>
                  store'[r.claim.key] >= r.claim.exp - MaxSkew
  <2> SUFFICES ASSUME NEW r \in storeAccepts
               PROVE  /\ r.at <= storeClock + 1
                      /\ storePc[r.by] = "accepted"
                      /\ r.claim.key \in StoreKeys
                      /\ storeClock + 1 <= r.claim.exp - SkewMargin =>
                            store[r.claim.key] >= r.claim.exp - MaxSkew
    BY <1>1, Zenon
  <2>1. r.claim.exp \in Nat /\ MaxSkew \in Nat /\ r.at \in Nat
    BY StoreAssumption DEF StoreInv, StoreTypeOK
  <2> QED
    BY <1>1, <2>1 DEF StoreInv, SkewMargin
<1>5. NoReplayAcrossNodes'
  BY <1>1, Zenon DEF StoreInv, NoReplayAcrossNodes
<1> QED
  BY <1>2, <1>3, <1>4, <1>5, Zenon DEF StoreInv

\* StoreInv is an invariant of the distributed cache.
THEOREM StoreInvariant == StoreSpec => []StoreInv
<1>1. StoreInv /\ [StoreNext]_storeVars => StoreInv'
  <2> SUFFICES ASSUME StoreInv, [StoreNext]_storeVars
               PROVE  StoreInv'
    BY Zenon
  <2>1. CASE StoreTick
    BY <2>1, TickStoreInv, Zenon
  <2>2. ASSUME NEW p \in StoreCalls, Insert(p)
        PROVE  StoreInv'
    BY <2>2, InsertStoreInv, Zenon
  <2>3. ASSUME NEW p \in StoreCalls, Refuse(p) \/ StoreFails(p)
        PROVE  StoreInv'
    BY <2>3, NoAnswerStoreInv, Zenon
  <2>4. ASSUME NEW p \in StoreCalls, NEW c \in StoreClaims, StoreInvoke(p, c)
        PROVE  StoreInv'
    BY <2>4, InvokeStoreInv, Zenon
  <2>5. CASE UNCHANGED storeVars
    BY <2>5, Zenon DEF StoreInv, StoreTypeOK, NoReplayAcrossNodes, storeVars
  <2> QED
    BY <2>1, <2>2, <2>3, <2>4, <2>5, Zenon DEF StoreNext
<1> QED
  BY <1>1, InitStoreInv, PTL DEF StoreSpec

\* No two nodes accept one key, for any number of nodes whose clocks are
\* within MaxSkew of the store's, up to MaxSkew + 1 before the expiry.
THEOREM OneShotAcrossNodes == StoreSpec => []NoReplayAcrossNodes
BY StoreInvariant, PTL DEF StoreInv

\* The SETNX cache implements the abstract one-shot register with the margin
\* SkewMargin: an Insert is an Accept, a Tick a Tick, the rest stutters.
THEOREM StoreRefinement == StoreSpec => StoreImplementsOneShot
<1>1. StoreInit => StoreAbstract!Init
  BY StoreAssumption DEF StoreInit, StoreAbstract!Init
<1>2. StoreInv /\ [StoreNext]_storeVars => [StoreAbstract!Next]_(StoreAbstract!vars)
  <2> SUFFICES ASSUME StoreInv, [StoreNext]_storeVars
               PROVE  [StoreAbstract!Next]_(StoreAbstract!vars)
    BY Zenon
  <2>1. CASE StoreTick
    BY <2>1, Zenon DEF StoreTick, StoreAbstract!Next, StoreAbstract!Tick
  <2>2. ASSUME NEW p \in StoreCalls, Insert(p)
        PROVE  [StoreAbstract!Next]_(StoreAbstract!vars)
    <3>1. storeClaim[p] \in StoreClaims /\ storeClock \in Nat /\ MaxSkew \in Nat
      BY <2>2, StoreAssumption DEF StoreInv, StoreTypeOK, Insert
    <3>2. \A r \in storeAccepts : r.claim.key = storeClaim[p].key =>
              ~StoreAbstract!Protects(r.claim, storeClock)
      <4> SUFFICES ASSUME NEW r \in storeAccepts, r.claim.key = storeClaim[p].key,
                          storeClock <= r.claim.exp - SkewMargin
                   PROVE  FALSE
        BY Zenon DEF StoreAbstract!Protects
      <4>1. r.claim.exp \in Nat
        BY StoreAssumption, Zenon DEF StoreInv, StoreTypeOK
      <4>2. storeClock > r.claim.exp - SkewMargin
        BY <2>2, InsertionKeepsProtected, Zenon DEF Insert
      <4> QED
        BY <3>1, <4>1, <4>2 DEF SkewMargin
    <3>3. \A r \in storeAccepts : r.by # p
      BY <2>2, Zenon DEF StoreInv, Insert
    <3>4. StoreAbstract!Accept(p, storeClaim[p])
      BY <2>2, <3>2, <3>3, Zenon DEF Insert, StoreAbstract!Accept
    <3> QED
      BY <3>1, <3>4, Zenon DEF StoreAbstract!Next
  <2>3. ASSUME NEW p \in StoreCalls, Refuse(p) \/ StoreFails(p)
        PROVE  [StoreAbstract!Next]_(StoreAbstract!vars)
    BY <2>3, Zenon DEF Refuse, StoreFails, StoreAbstract!vars
  <2>4. ASSUME NEW p \in StoreCalls, NEW c \in StoreClaims, StoreInvoke(p, c)
        PROVE  [StoreAbstract!Next]_(StoreAbstract!vars)
    BY <2>4, Zenon DEF StoreInvoke, StoreAbstract!vars
  <2>5. CASE UNCHANGED storeVars
    BY <2>5, Zenon DEF storeVars, StoreAbstract!vars
  <2> QED
    BY <2>1, <2>2, <2>3, <2>4, <2>5, Zenon DEF StoreNext
<1> QED
  BY <1>1, <1>2, StoreInvariant, PTL DEF StoreSpec, StoreImplementsOneShot, StoreAbstract!Spec
=============================================================================
