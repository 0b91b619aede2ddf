------------------------- MODULE MemoryReplayCache -------------------------
(***************************************************************************)
(* pkg/atls/identitypolicy/replay_cache.go: the in-process replay cache.   *)
(* MarkUsed reads the clock BEFORE it takes the mutex, so the purge and    *)
(* the insertion of one call may run with a time older than the purge of   *)
(* another call that overtook it.  Each element of Calls is one call of    *)
(* MarkUsed.                                                               *)
(***************************************************************************)
EXTENDS Integers

CONSTANTS
    Calls,      \* concurrent calls of MarkUsed
    Keys,       \* non-blank binding keys
    NoKey,      \* a key that is blank after trimming
    Claims,     \* the arguments of MarkUsed: [key, exp]; exp = ZeroTime is time.Time{}
    MaxTime     \* bound of the clock

ZeroTime == 0

ASSUME ClaimsAssumption ==
    /\ NoKey \notin Keys
    /\ Claims \subseteq [key : Keys \cup {NoKey}, exp : Nat]
    /\ MaxTime \in Nat \ {0}

VARIABLES
    clock,      \* what c.now() returns
    seen,       \* c.seen: the expiry stored for a key, ZeroTime when absent
    pc,         \* where each call is
    claim,      \* its arguments
    now,        \* its local variable now
    accepts     \* history: the calls that returned nil

vars == <<clock, seen, pc, claim, now, accepts>>

NoClaim == [key |-> NoKey, exp |-> ZeroTime]

Outcomes == {"accepted", "missing", "expired", "replayed"}

Init ==
    /\ clock = 1
    /\ seen = [k \in Keys |-> ZeroTime]
    /\ pc = [p \in Calls |-> "idle"]
    /\ claim = [p \in Calls |-> NoClaim]
    /\ now = [p \in Calls |-> ZeroTime]
    /\ accepts = {}

\* now.After(expiresAt)
Expired(t, exp) == t > exp

\* The checks that precede the mutex, against the time t just read.
Precheck(c, t) ==
    IF c.key = NoKey \/ c.exp = ZeroTime THEN "missing"
    ELSE IF Expired(t, c.exp) THEN "expired" ELSE "locking"

\* MarkUsed up to c.mu.Lock().
Invoke(p, c) ==
    /\ pc[p] = "idle"
    /\ pc' = [pc EXCEPT ![p] = Precheck(c, clock)]
    /\ claim' = [claim EXCEPT ![p] = c]
    /\ now' = [now EXCEPT ![p] = clock]
    /\ UNCHANGED <<clock, seen, accepts>>

\* Mutant of Purge: an entry is dropped at its expiry instead of after it.
PurgeAtExpiry(s, t) ==
    [k \in Keys |-> IF s[k] # ZeroTime /\ t >= s[k] THEN ZeroTime ELSE s[k]]

\* The entries left after the purge of a call whose local time is t.
Purge(s, t) ==
    [k \in Keys |-> IF s[k] # ZeroTime /\ Expired(t, s[k]) THEN ZeroTime ELSE s[k]]

\* MarkUsed under c.mu: purge, then look up, then insert.
Commit(p) ==
    LET purged == Purge(seen, now[p])
        c == claim[p]
    IN /\ pc[p] = "locking"
       /\ \/ /\ purged[c.key] # ZeroTime
             /\ seen' = purged
             /\ pc' = [pc EXCEPT ![p] = "replayed"]
             /\ UNCHANGED accepts
          \/ /\ purged[c.key] = ZeroTime
             /\ seen' = [purged EXCEPT ![c.key] = c.exp]
             /\ pc' = [pc EXCEPT ![p] = "accepted"]
             /\ accepts' = accepts \cup {[by |-> p, claim |-> c, at |-> clock]}
       /\ UNCHANGED <<clock, claim, now>>

Tick ==
    /\ clock < MaxTime
    /\ clock' = clock + 1
    /\ UNCHANGED <<seen, pc, claim, now, accepts>>

Next ==
    \/ Tick
    \/ \E p \in Calls : Commit(p) \/ \E c \in Claims : Invoke(p, c)

Spec == Init /\ [][Next]_vars
-----------------------------------------------------------------------------
TypeOK ==
    /\ clock \in 1..MaxTime
    /\ seen \in [Keys -> Nat]
    /\ pc \in [Calls -> Outcomes \cup {"idle", "locking"}]
    /\ claim \in [Calls -> Claims \cup {NoClaim}]
    /\ now \in [Calls -> 0..MaxTime]
    /\ accepts \subseteq [by : Calls, claim : Claims, at : 1..MaxTime]

(***************************************************************************)
(* MarkUsed "records a one-shot binding key until its expiration time": of *)
(* two successful calls with one key, the later one comes after the expiry *)
(* of the claim the earlier one stored, whatever the calls interleave.     *)
(***************************************************************************)
NoLiveReplay ==
    \A r, q \in accepts :
        r.by # q.by /\ r.claim.key = q.claim.key =>
            r.at > q.claim.exp \/ q.at > r.claim.exp

(***************************************************************************)
(* A rejected call consumes nothing: every entry of the map was put there  *)
(* by a call that returned nil, with exactly the expiry of that claim.     *)
(***************************************************************************)
EntriesAreAcceptances ==
    \A k \in Keys : seen[k] # ZeroTime =>
        \E r \in accepts : r.claim.key = k /\ r.claim.exp = seen[k]

(***************************************************************************)
(* The inductive strengthening of the two invariants above: local times    *)
(* never run ahead of the clock, a call that waits for the mutex passed    *)
(* the checks before it, and the entry of an accepted claim stays in the   *)
(* map until the clock is past its expiry, because every purge uses a      *)
(* time that is not later than the clock.                                  *)
(***************************************************************************)
CacheInv ==
    /\ TypeOK
    /\ \A p \in Calls : now[p] <= clock
    /\ \A p \in Calls : pc[p] = "locking" =>
            claim[p] \in Claims /\ claim[p].key \in Keys /\ claim[p].exp # ZeroTime
    /\ \A r \in accepts :
            /\ r.at <= clock
            /\ pc[r.by] = "accepted"
            /\ r.claim.key \in Keys /\ r.claim.exp # ZeroTime
            /\ clock <= r.claim.exp => seen[r.claim.key] = r.claim.exp
    /\ NoLiveReplay
    /\ EntriesAreAcceptances

(***************************************************************************)
(* The cache implements the abstract one-shot register up to the expiry    *)
(* of the claim: every step of MarkUsed is an Accept or a stutter.         *)
(***************************************************************************)
Abstract == INSTANCE OneShot WITH Margin <- 0
ImplementsOneShot == Abstract!Spec
=============================================================================
