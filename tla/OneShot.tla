------------------------------ MODULE OneShot ------------------------------
(***************************************************************************)
(* What a replay cache promises its callers: a key that was accepted is    *)
(* not accepted again while the claim that was accepted is still live.     *)
(* A claim is live until Margin time units before its expiry; the in-      *)
(* process cache keeps the promise up to the expiry itself (Margin = 0),   *)
(* the SETNX cache only up to its clock granularity and the clock skew of  *)
(* the nodes.                                                              *)
(***************************************************************************)
EXTENDS Integers

CONSTANTS
    Calls,      \* the calls of MarkUsed, one process each
    Claims,     \* what a call presents: records [key, exp]
    Margin,     \* how long before its expiry a claim stops being protected
    MaxTime     \* bound of the clock

VARIABLES
    clock,      \* the true time
    accepts     \* the calls that returned nil: records [by, claim, at]

vars == <<clock, accepts>>

Init ==
    /\ clock \in 1..MaxTime
    /\ accepts = {}

\* The claim c still protects its key at time t.
Protects(c, t) == t <= c.exp - Margin

Accept(p, c) ==
    /\ \A r \in accepts : r.by # p
    /\ \A r \in accepts : r.claim.key = c.key => ~Protects(r.claim, clock)
    /\ accepts' = accepts \cup {[by |-> p, claim |-> c, at |-> clock]}
    /\ UNCHANGED clock

Tick ==
    /\ clock < MaxTime
    /\ clock' = clock + 1
    /\ UNCHANGED accepts

Next == Tick \/ \E p \in Calls, c \in Claims : Accept(p, c)

Spec == Init /\ [][Next]_vars
=============================================================================
