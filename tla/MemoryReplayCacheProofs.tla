---------------------- MODULE MemoryReplayCacheProofs ----------------------
(***************************************************************************)
(* Proofs about the in-process replay cache, for every set of calls, keys  *)
(* and claims and every bound of the clock.                                *)
(***************************************************************************)
EXTENDS MemoryReplayCache, TLAPS

\* The purge keeps the map a map from keys to times.
LEMMA PurgeType ==
    ASSUME NEW s \in [Keys -> Nat], NEW t \in Nat
    PROVE  Purge(s, t) \in [Keys -> Nat]
BY DEF Purge, ZeroTime

\* A purge of a call whose local time is not past an entry's expiry keeps
\* that entry.
LEMMA PurgeKeepsLive ==
    ASSUME NEW s \in [Keys -> Nat], NEW t \in Nat, NEW k \in Keys, t <= s[k]
    PROVE  Purge(s, t)[k] = s[k]
BY DEF Purge, Expired

\* A purge only removes entries.
LEMMA PurgeRemoves ==
    ASSUME NEW s \in [Keys -> Nat], NEW t \in Nat, NEW k \in Keys,
           Purge(s, t)[k] # ZeroTime
    PROVE  Purge(s, t)[k] = s[k]
BY DEF Purge

LEMMA InitCacheInv == Init => CacheInv
BY ClaimsAssumption DEF Init, CacheInv, TypeOK, NoLiveReplay, EntriesAreAcceptances,
   NoClaim, ZeroTime, Outcomes

\* What a call that reached the mutex knows of its claim.
LEMMA InvokeCacheInv ==
    ASSUME CacheInv, NEW p \in Calls, NEW c \in Claims, Invoke(p, c)
    PROVE  CacheInv'
<1>1. TypeOK'
  BY ClaimsAssumption DEF CacheInv, TypeOK, Invoke, Precheck, Outcomes, NoClaim, ZeroTime
<1>2. \A q \in Calls : now'[q] <= clock'
  BY DEF CacheInv, TypeOK, Invoke
<1>3. \A q \in Calls : pc'[q] = "locking" =>
         claim'[q] \in Claims /\ claim'[q].key \in Keys /\ claim'[q].exp # ZeroTime
  BY ClaimsAssumption DEF CacheInv, TypeOK, Invoke, Precheck
<1>4. \A r \in accepts : pc'[r.by] = "accepted"
  BY DEF CacheInv, TypeOK, Invoke
<1>5. NoLiveReplay' /\ EntriesAreAcceptances'
  BY DEF CacheInv, NoLiveReplay, EntriesAreAcceptances, Invoke
<1>6. QED
  BY <1>1, <1>2, <1>3, <1>4, <1>5 DEF CacheInv, Invoke

LEMMA TickCacheInv ==
    ASSUME CacheInv, Tick
    PROVE  CacheInv'
<1>1. TypeOK'
  BY ClaimsAssumption DEF CacheInv, TypeOK, Tick
<1>2. /\ \A q \in Calls : now'[q] <= clock'
      /\ \A r \in accepts' : r.at <= clock'
  BY ClaimsAssumption DEF CacheInv, TypeOK, Tick
<1>3. \A r \in accepts' : clock' <= r.claim.exp => seen'[r.claim.key] = r.claim.exp
  BY ClaimsAssumption DEF CacheInv, TypeOK, Tick
<1>4. NoLiveReplay' /\ EntriesAreAcceptances'
  BY DEF CacheInv, NoLiveReplay, EntriesAreAcceptances, Tick
<1>5. QED
  BY <1>1, <1>2, <1>3, <1>4 DEF CacheInv, Tick

LEMMA CommitCacheInv ==
    ASSUME CacheInv, NEW p \in Calls, Commit(p)
    PROVE  CacheInv'
<1> DEFINE c == claim[p]
           purged == Purge(seen, now[p])
<1> USE DEF ZeroTime
<1>1. /\ c \in Claims /\ c.key \in Keys /\ c.exp \in Nat /\ c.exp # ZeroTime
      /\ now[p] \in Nat /\ now[p] <= clock /\ clock \in Nat
      /\ seen \in [Keys -> Nat]
  BY ClaimsAssumption DEF CacheInv, TypeOK, Commit
<1>2. purged \in [Keys -> Nat]
  BY <1>1, PurgeType
<1>3. \A r \in accepts : clock <= r.claim.exp => purged[r.claim.key] = r.claim.exp
  <2> SUFFICES ASSUME NEW r \in accepts, clock <= r.claim.exp
               PROVE  purged[r.claim.key] = r.claim.exp
    OBVIOUS
  <2>1. r.claim.key \in Keys /\ r.claim.exp \in Nat /\ seen[r.claim.key] = r.claim.exp
    BY ClaimsAssumption DEF CacheInv, TypeOK
  <2>2. now[p] <= seen[r.claim.key]
    BY <1>1, <2>1
  <2> QED
    BY <1>1, <2>1, <2>2, PurgeKeepsLive
<1>4. \A k \in Keys : purged[k] # ZeroTime =>
         \E r \in accepts : r.claim.key = k /\ r.claim.exp = purged[k]
  BY <1>1, PurgeRemoves DEF CacheInv, EntriesAreAcceptances
<1>5. CASE purged[c.key] # ZeroTime
  <2>1. /\ seen' = purged /\ pc' = [pc EXCEPT ![p] = "replayed"]
        /\ UNCHANGED <<accepts, clock, claim, now>>
    BY <1>5 DEF Commit
  <2>2. TypeOK'
    BY <1>2, <2>1 DEF CacheInv, TypeOK, Outcomes
  <2>3. \A r \in accepts : r.by # p
    BY DEF CacheInv, Commit
  <2> QED
    BY <1>2, <1>3, <1>4, <2>1, <2>2, <2>3
    DEF CacheInv, TypeOK, NoLiveReplay, EntriesAreAcceptances
<1>6. CASE purged[c.key] = ZeroTime
  <2> DEFINE new == [by |-> p, claim |-> c, at |-> clock]
  <2>1. /\ seen' = [purged EXCEPT ![c.key] = c.exp]
        /\ pc' = [pc EXCEPT ![p] = "accepted"]
        /\ accepts' = accepts \cup {new}
        /\ UNCHANGED <<clock, claim, now>>
    BY <1>6 DEF Commit
  <2>2. TypeOK'
    BY <1>1, <1>2, <2>1 DEF CacheInv, TypeOK, Outcomes
  <2>3. \A r \in accepts : r.by # p /\ r.by \in Calls
    BY DEF CacheInv, Commit, TypeOK
  \* the key was free, so every earlier acceptance of it has expired
  <2>4. \A r \in accepts : r.claim.key = c.key => clock > r.claim.exp
    BY <1>1, <1>3, <1>6, ClaimsAssumption DEF CacheInv, TypeOK
  <2>5. \A r \in accepts' :
            /\ r.at <= clock'
            /\ pc'[r.by] = "accepted"
            /\ r.claim.key \in Keys /\ r.claim.exp # ZeroTime
    BY <1>1, <2>1, <2>3 DEF CacheInv, TypeOK
  <2>6. \A r \in accepts' : clock' <= r.claim.exp => seen'[r.claim.key] = r.claim.exp
    <3> SUFFICES ASSUME NEW r \in accepts', clock <= r.claim.exp
                 PROVE  seen'[r.claim.key] = r.claim.exp
      BY <2>1
    <3>1. CASE r = new
      BY <1>1, <1>2, <2>1, <3>1
    <3>2. CASE r \in accepts
      <4>1. r.claim.key \in Keys /\ r.claim.exp \in Nat
        BY <3>2, ClaimsAssumption DEF CacheInv, TypeOK
      <4>2. r.claim.key # c.key
        BY <1>1, <2>4, <3>2, <4>1
      <4> QED
        BY <1>2, <1>3, <2>1, <3>2, <4>1, <4>2
    <3> QED
      BY <2>1, <3>1, <3>2
  <2>7. NoLiveReplay'
    <3> SUFFICES ASSUME NEW r \in accepts', NEW q \in accepts',
                        r.by # q.by, r.claim.key = q.claim.key
                 PROVE  r.at > q.claim.exp \/ q.at > r.claim.exp
      BY DEF NoLiveReplay
    <3>1. CASE r \in accepts /\ q \in accepts
      BY <3>1 DEF CacheInv, NoLiveReplay
    <3>2. CASE r = new /\ q \in accepts
      BY <2>4, <3>2
    <3>3. CASE q = new /\ r \in accepts
      BY <2>4, <3>3
    <3> QED
      BY <2>1, <3>1, <3>2, <3>3
  <2>8. EntriesAreAcceptances'
    <3> SUFFICES ASSUME NEW k \in Keys, seen'[k] # ZeroTime
                 PROVE  \E r \in accepts' : r.claim.key = k /\ r.claim.exp = seen'[k]
      BY DEF EntriesAreAcceptances
    <3>1. CASE k = c.key
      <4>1. new \in accepts' /\ new.claim.key = k
        BY <2>1, <3>1
      <4>2. new.claim.exp = seen'[k]
        BY <1>1, <1>2, <2>1, <3>1
      <4> QED
        BY <4>1, <4>2
    <3>2. CASE k # c.key
      BY <1>2, <1>4, <2>1, <3>2
    <3> QED
      BY <3>1, <3>2
  <2>9. /\ \A q \in Calls : now'[q] <= clock'
        /\ \A q \in Calls : pc'[q] = "locking" =>
              claim'[q] \in Claims /\ claim'[q].key \in Keys /\ claim'[q].exp # ZeroTime
    BY <2>1 DEF CacheInv, TypeOK
  <2> QED
    BY <2>2, <2>5, <2>6, <2>7, <2>8, <2>9 DEF CacheInv
<1> QED
  BY <1>5, <1>6

\* CacheInv is an invariant: it holds initially and every step keeps it.
THEOREM CacheInvariant == Spec => []CacheInv
<1>1. CacheInv /\ [Next]_vars => CacheInv'
  <2> SUFFICES ASSUME CacheInv, [Next]_vars
               PROVE  CacheInv'
    OBVIOUS
  <2>1. CASE Tick
    BY <2>1, TickCacheInv
  <2>2. ASSUME NEW p \in Calls, Commit(p)
        PROVE  CacheInv'
    BY <2>2, CommitCacheInv
  <2>3. ASSUME NEW p \in Calls, NEW c \in Claims, Invoke(p, c)
        PROVE  CacheInv'
    BY <2>3, InvokeCacheInv
  <2>4. CASE UNCHANGED vars
    BY <2>4 DEF CacheInv, TypeOK, NoLiveReplay, EntriesAreAcceptances, vars
  <2> QED
    BY <2>1, <2>2, <2>3, <2>4 DEF Next
<1> QED
  BY <1>1, InitCacheInv, PTL DEF Spec

\* MarkUsed never lets two calls succeed with one key while the claim of the
\* earlier one is live, however the calls interleave.
THEOREM OneShotWhileLive == Spec => []NoLiveReplay
BY CacheInvariant, PTL DEF CacheInv

\* Calls that fail leave no entry behind in the map of MarkUsed.
THEOREM OnlyAcceptancesConsume == Spec => []EntriesAreAcceptances
BY CacheInvariant, PTL DEF CacheInv

\* MarkUsed implements the abstract one-shot register: an accepting Commit is
\* an Accept, a clock tick a Tick, every other step a stutter.
THEOREM Refinement == Spec => ImplementsOneShot
<1>1. Init => Abstract!Init
  BY ClaimsAssumption DEF Init, Abstract!Init
<1>2. CacheInv /\ [Next]_vars => [Abstract!Next]_(Abstract!vars)
  <2> SUFFICES ASSUME CacheInv, [Next]_vars
               PROVE  [Abstract!Next]_(Abstract!vars)
    OBVIOUS
  <2> USE DEF ZeroTime
  <2>1. CASE Tick
    BY <2>1 DEF Tick, Abstract!Next, Abstract!Tick
  <2>2. ASSUME NEW p \in Calls, Commit(p)
        PROVE  [Abstract!Next]_(Abstract!vars)
    <3> DEFINE c == claim[p]
               purged == Purge(seen, now[p])
    <3>1. CASE purged[c.key] # ZeroTime
      BY <2>2, <3>1 DEF Commit, Abstract!vars
    <3>2. CASE purged[c.key] = ZeroTime
      <4>1. /\ c \in Claims /\ c.key \in Keys
            /\ now[p] \in Nat /\ now[p] <= clock /\ clock \in Nat
            /\ seen \in [Keys -> Nat]
        BY <2>2, ClaimsAssumption DEF CacheInv, TypeOK, Commit
      <4>2. \A r \in accepts : r.claim.key = c.key => ~Abstract!Protects(r.claim, clock)
        <5> SUFFICES ASSUME NEW r \in accepts, r.claim.key = c.key, clock <= r.claim.exp - 0
                     PROVE  FALSE
          BY DEF Abstract!Protects
        <5>1. r.claim.exp \in Nat /\ r.claim.exp # ZeroTime
          BY ClaimsAssumption DEF CacheInv, TypeOK
        <5>2. seen[c.key] = r.claim.exp
          BY <4>1, <5>1 DEF CacheInv
        <5>3. purged[c.key] = seen[c.key]
          BY <4>1, <5>1, <5>2, PurgeKeepsLive
        <5> QED
          BY <3>2, <5>1, <5>2, <5>3
      <4>3. \A r \in accepts : r.by # p
        BY <2>2 DEF CacheInv, Commit
      <4>4. /\ accepts' = accepts \cup {[by |-> p, claim |-> c, at |-> clock]}
            /\ UNCHANGED clock
        BY <2>2, <3>2 DEF Commit
      <4>5. Abstract!Accept(p, c)
        BY <4>2, <4>3, <4>4 DEF Abstract!Accept
      <4> QED
        BY <4>1, <4>5 DEF Abstract!Next
    <3> QED
      BY <3>1, <3>2
  <2>3. ASSUME NEW p \in Calls, NEW c \in Claims, Invoke(p, c)
        PROVE  [Abstract!Next]_(Abstract!vars)
    BY <2>3 DEF Invoke, Abstract!vars
  <2>4. CASE UNCHANGED vars
    BY <2>4 DEF vars, Abstract!vars
  <2> QED
    BY <2>1, <2>2, <2>3, <2>4 DEF Next
<1> QED
  BY <1>1, <1>2, CacheInvariant, PTL DEF Spec, ImplementsOneShot, Abstract!Spec
=============================================================================
