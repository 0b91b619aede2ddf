-------------------------- MODULE SetNXReplayCache --------------------------
(***************************************************************************)
(* pkg/atls/identitypolicy/setnx_replay_cache.go: the replay cache of a    *)
(* multi-node deployment.  Every node computes a time to live from its own *)
(* clock and asks a shared store to insert the key if it is absent.  The   *)
(* store is not part of the repository; it is modelled as SET key NX EX    *)
(* ttl on the store's clock, with calls that may fail before or after the  *)
(* insertion took effect.                                                  *)
(***************************************************************************)
EXTENDS Integers

CONSTANTS
    StoreCalls,    \* calls of MarkUsed
    Nodes,         \* verifier processes
    NodeOf,        \* the node a call runs on
    StoreKeys,     \* non-blank binding keys
    NoStoreKey,    \* a key that is blank after trimming
    StoreClaims,   \* the arguments of MarkUsed: [key, exp]; exp = NoExpiry is time.Time{}
    MaxSkew,       \* bound of the distance of a node's clock to the store's
    StoreMaxTime   \* bound of the clock

NoExpiry == 0

ASSUME StoreAssumption ==
    /\ NoStoreKey \notin StoreKeys
    /\ StoreClaims \subseteq [key : StoreKeys \cup {NoStoreKey}, exp : Nat]
    /\ NodeOf \in [StoreCalls -> Nodes]
    /\ MaxSkew \in Nat
    /\ StoreMaxTime \in Nat \ {0}

VARIABLES
    storeClock,    \* the store's clock, taken as the true time
    skew,          \* how far each node's clock is ahead of it
    store,         \* when the store drops a key; the key is present while clock is below
    storePc,       \* where each call is
    storeClaim,    \* its arguments
    ttl,           \* its local variable ttl
    storeAccepts   \* history: the calls that returned nil

storeVars == <<storeClock, skew, store, storePc, storeClaim, ttl, storeAccepts>>

NoStoreClaim == [key |-> NoStoreKey, exp |-> NoExpiry]

StoreOutcomes == {"accepted", "missing", "expired", "replayed", "failed"}

StoreInit ==
    /\ storeClock = 1
    /\ skew \in [Nodes -> -MaxSkew..MaxSkew]
    /\ store = [k \in StoreKeys |-> 0]
    /\ storePc = [p \in StoreCalls |-> "idle"]
    /\ storeClaim = [p \in StoreCalls |-> NoStoreClaim]
    /\ ttl = [p \in StoreCalls |-> 0]
    /\ storeAccepts = {}

\* The checks before the store is called; t is the node's time.  A time to
\* live of zero is refused as expired, so the instant exp itself is too late.
StorePrecheck(c, t) ==
    IF c.key = NoStoreKey \/ c.exp = NoExpiry THEN "missing"
    ELSE IF c.exp - t <= 0 THEN "expired" ELSE "calling"

\* Mutant of Invoke: the time to live is rounded down.
StoreInvokeShort(p, c) ==
    LET t == storeClock + skew[NodeOf[p]]
    IN /\ storePc[p] = "idle"
       /\ storePc' = [storePc EXCEPT ![p] = StorePrecheck(c, t)]
       /\ storeClaim' = [storeClaim EXCEPT ![p] = c]
       /\ ttl' = [ttl EXCEPT ![p] = (c.exp - t) - 1]
       /\ UNCHANGED <<storeClock, skew, store, storeAccepts>>

\* MarkUsed up to the call of store.SetNX.
StoreInvoke(p, c) ==
    LET t == storeClock + skew[NodeOf[p]]
    IN /\ storePc[p] = "idle"
       /\ storePc' = [storePc EXCEPT ![p] = StorePrecheck(c, t)]
       /\ storeClaim' = [storeClaim EXCEPT ![p] = c]
       /\ ttl' = [ttl EXCEPT ![p] = c.exp - t]
       /\ UNCHANGED <<storeClock, skew, store, storeAccepts>>

\* The store still holds key k.
Holds(k) == storeClock < store[k]

\* store.SetNX inserts the key and its answer arrives.
Insert(p) ==
    /\ storePc[p] = "calling"
    /\ ~Holds(storeClaim[p].key)
    /\ store' = [store EXCEPT ![storeClaim[p].key] = storeClock + ttl[p]]
    /\ storePc' = [storePc EXCEPT ![p] = "accepted"]
    /\ storeAccepts' = storeAccepts \cup {[by |-> p, claim |-> storeClaim[p], at |-> storeClock]}
    /\ UNCHANGED <<storeClock, skew, storeClaim, ttl>>

\* store.SetNX finds the key.
Refuse(p) ==
    /\ storePc[p] = "calling"
    /\ Holds(storeClaim[p].key)
    /\ storePc' = [storePc EXCEPT ![p] = "replayed"]
    /\ UNCHANGED <<storeClock, skew, store, storeClaim, ttl, storeAccepts>>

\* store.SetNX returns an error; the insertion may have happened.
StoreFails(p) ==
    /\ storePc[p] = "calling"
    /\ \/ UNCHANGED store
       \/ /\ ~Holds(storeClaim[p].key)
          /\ store' = [store EXCEPT ![storeClaim[p].key] = storeClock + ttl[p]]
    /\ storePc' = [storePc EXCEPT ![p] = "failed"]
    /\ UNCHANGED <<storeClock, skew, storeClaim, ttl, storeAccepts>>

StoreTick ==
    /\ storeClock < StoreMaxTime
    /\ storeClock' = storeClock + 1
    /\ UNCHANGED <<skew, store, storePc, storeClaim, ttl, storeAccepts>>

StoreNext ==
    \/ StoreTick
    \/ \E p \in StoreCalls :
          \/ Insert(p) \/ Refuse(p) \/ StoreFails(p)
          \/ \E c \in StoreClaims : StoreInvoke(p, c)

StoreSpec == StoreInit /\ [][StoreNext]_storeVars
-----------------------------------------------------------------------------
StoreTypeOK ==
    /\ storeClock \in 1..StoreMaxTime
    /\ skew \in [Nodes -> -MaxSkew..MaxSkew]
    /\ store \in [StoreKeys -> Nat]
    /\ storePc \in [StoreCalls -> StoreOutcomes \cup {"idle", "calling"}]
    /\ storeClaim \in [StoreCalls -> StoreClaims \cup {NoStoreClaim}]
    /\ ttl \in [StoreCalls -> Int]
    /\ storeAccepts \subseteq [by : StoreCalls, claim : StoreClaims, at : 1..StoreMaxTime]

\* The margin before a claim's expiry in which the store may already have
\* dropped the key: one unit because the store drops it at the instant exp,
\* and the largest skew because a node that is ahead asks for less time.
SkewMargin == MaxSkew + 1

(***************************************************************************)
(* Two nodes never both accept a key: of two successful calls of MarkUsed  *)
(* with one key, the later one comes at most SkewMargin before the expiry  *)
(* of the claim that the earlier one stored.                               *)
(***************************************************************************)
NoReplayAcrossNodes ==
    \A r, q \in storeAccepts :
        r.by # q.by /\ r.claim.key = q.claim.key =>
            \/ r.at > q.claim.exp - SkewMargin
            \/ q.at > r.claim.exp - SkewMargin

(***************************************************************************)
(* The inductive strengthening: what a pending call will ask for reaches   *)
(* at least up to its expiry less the skew, and the entry of an accepted   *)
(* claim outlives the margin.                                              *)
(***************************************************************************)
StoreInv ==
    /\ StoreTypeOK
    /\ \A p \in StoreCalls : storePc[p] = "calling" =>
            /\ storeClaim[p] \in StoreClaims /\ storeClaim[p].key \in StoreKeys
            /\ ttl[p] > 0 /\ storeClock + ttl[p] >= storeClaim[p].exp - MaxSkew
    /\ \A r \in storeAccepts :
            /\ r.at <= storeClock
            /\ storePc[r.by] = "accepted"
            /\ r.claim.key \in StoreKeys
            /\ storeClock <= r.claim.exp - SkewMargin =>
                  store[r.claim.key] >= r.claim.exp - MaxSkew
    /\ NoReplayAcrossNodes

(***************************************************************************)
(* The distributed cache implements the abstract one-shot register up to   *)
(* SkewMargin before the expiry of the claim.                              *)
(***************************************************************************)
StoreAbstract == INSTANCE OneShot WITH
    Calls <- StoreCalls, Claims <- StoreClaims, Margin <- SkewMargin,
    MaxTime <- StoreMaxTime, clock <- storeClock, accepts <- storeAccepts
StoreImplementsOneShot == StoreAbstract!Spec
=============================================================================
