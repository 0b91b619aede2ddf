----------------------------- MODULE HostProofs -----------------------------
(***************************************************************************)
(* Proofs about the host: the manager, for any number of VMs and starts    *)
(* and every limit, and the egress proxy, for every request, every         *)
(* allowlist and any number of bytes.                                      *)
(***************************************************************************)
EXTENDS Manager, Egress, FiniteSetTheorems, TLAPS
-----------------------------------------------------------------------------
(* The manager. *)

\* A set of VMs that holds no others than a set within the limit is within it.
LEMMA FewerVMs ==
    ASSUME NEW S \in SUBSET VMs, NEW T \in SUBSET S, Cardinality(S) <= MaxVMs
    PROVE  Cardinality(T) <= MaxVMs
<1>1. IsFiniteSet(S)
  BY ManagerAssumption, FS_Subset, Zenon
<1>2. Cardinality(T) <= Cardinality(S) /\ IsFiniteSet(T)
  BY <1>1, FS_Subset, Zenon
<1>3. Cardinality(S) \in Nat /\ Cardinality(T) \in Nat
  BY <1>1, <1>2, FS_CardinalityType, Zenon
<1> QED
  BY <1>2, <1>3, ManagerAssumption

\* The limit of ManagerInv holds after every step that adds nothing to what
\* claims a place.
LimitInv == MaxVMs > 0 /\ ~late => Cardinality(Claiming) <= MaxVMs

LEMMA LimitStays ==
    ASSUME ManagerTypeOK, LimitInv, Claiming' \subseteq Claiming, late' = late
    PROVE  LimitInv'
<1>1. Claiming \in SUBSET VMs
  BY Zenon DEF Claiming, ManagerTypeOK
<1>2. CASE MaxVMs > 0 /\ ~late
  <2>1. Cardinality(Claiming) <= MaxVMs
    BY <1>2, Zenon DEF LimitInv
  <2>2. Cardinality(Claiming') <= MaxVMs
    BY <1>1, <2>1, FewerVMs, Zenon
  <2> QED
    BY <2>2, Zenon DEF LimitInv
<1>3. CASE ~(MaxVMs > 0 /\ ~late)
  BY <1>3, Zenon DEF LimitInv
<1> QED
  BY <1>2, <1>3, Zenon

\* The rest of the inductive invariant.
RestInv ==
    /\ ManagerTypeOK
    /\ ~up => vms = {} /\ child = {} /\ ~shutDown
    /\ \A v \in VMs :
          /\ creating[v] \in {"none", "mounting", "starting"} => process[v] = "none"
          /\ creating[v] \in {"none", "mounting", "starting", "inserting"} =>
                v \notin vms \cup removed /\ files[v] = "none"
          /\ creating[v] \in Steps => up
          /\ creating[v] \in {"timing", "saving"} /\ ~shutDown => v \in vms \cup removed
    /\ RemovedIsDead
    /\ SavedVMIsManaged
    /\ LiveVMHasTTL

LEMMA TwoParts == ManagerInv <=> RestInv /\ LimitInv
BY Zenon DEF ManagerInv, RestInv, LimitInv

LEMMA InitManagerInv == ManagerInit => ManagerInv
<1> SUFFICES ASSUME ManagerInit PROVE ManagerInv
  BY Zenon
<1>1. up \in BOOLEAN /\ shutDown \in BOOLEAN /\ late \in BOOLEAN
  <2>1. up \in BOOLEAN
    BY Zenon DEF ManagerInit
  <2>2. shutDown \in BOOLEAN
    BY Zenon DEF ManagerInit
  <2>3. late \in BOOLEAN
    BY Zenon DEF ManagerInit
  <2> QED
    BY <2>1, <2>2, <2>3, Zenon
<1>2. starts \in 1..MaxStarts
  BY ManagerAssumption DEF ManagerInit
<1>3. ManagerTypeOK
  <2>1. /\ creating \in [VMs -> Steps \cup Outcome \cup {"none"}]
        /\ ttl \in [VMs -> {"none", "good", "bad"}]
        /\ vms \subseteq VMs
        /\ vmState \in [VMs -> {"provision", "running", "stopped"}]
        /\ timer \in [VMs -> {"none", "set", "fired"}]
        /\ process \in [VMs -> {"none", "alive", "dead"}]
        /\ child \subseteq VMs /\ mounts \subseteq VMs
        /\ files \in [VMs -> {"none", "saved", "torn"}]
        /\ removed \subseteq VMs /\ stuck \subseteq VMs /\ skipped \subseteq VMs
    BY Zenon DEF ManagerInit
  <2> QED
    BY <1>1, <1>2, <2>1, Zenon DEF ManagerTypeOK
<1>4. RestInv
  <2>1. up /\ \A v \in VMs : creating[v] = "none" /\ process[v] = "none" /\ files[v] = "none"
    BY Zenon DEF ManagerInit
  <2>2. vms = {} /\ removed = {}
    BY Zenon DEF ManagerInit
  <2> QED
    BY <1>3, <2>1, <2>2, Zenon DEF RestInv, RemovedIsDead, SavedVMIsManaged, LiveVMHasTTL
<1>5. Claiming = {}
  BY Zenon DEF ManagerInit, Claiming
<1>6. Cardinality(Claiming) <= MaxVMs
  BY <1>5, FS_EmptySet, ManagerAssumption
<1> QED
  BY <1>4, <1>6, TwoParts, Zenon DEF LimitInv

\* Each step keeps the types, what holds of a VM on its way, and the three
\* properties that do not count.
LEMMA StepRestInv ==
    ASSUME RestInv, [ManagerNext]_managerVars
    PROVE  RestInv'
<1> USE ManagerAssumption
    DEF RestInv, ManagerTypeOK, RemovedIsDead, SavedVMIsManaged, LiveVMHasTTL, Steps, Outcome, At, GoTo
<1>1. CASE Shutdown
  BY <1>1, Zenon DEF Shutdown
<1>2. CASE Dies
  <2>1. /\ ~up' /\ ~shutDown' /\ vms' = {} /\ child' = {} /\ stuck' = {} /\ skipped' = {}
        /\ UNCHANGED <<starts, ttl, vmState, process, mounts, removed, late>>
    BY <1>2, Zenon DEF Dies
  <2>2. up' \in BOOLEAN /\ shutDown' \in BOOLEAN
    <3>1. up' \in BOOLEAN
      BY <1>2, Zenon DEF Dies
    <3>2. shutDown' \in BOOLEAN
      BY <1>2, Zenon DEF Dies
    <3> QED
      BY <3>1, <3>2, Zenon
  <2>3. /\ creating' \in [VMs -> Outcome \cup {"none"}]
        /\ \A w \in VMs : creating'[w] = creating[w] \/ creating'[w] = "lost"
    BY <1>2, Zenon DEF Dies
  <2>4. timer' \in [VMs -> {"none", "set", "fired"}]
    BY <1>2, Zenon DEF Dies
  <2>5. /\ files' \in [VMs -> {"none", "saved", "torn"}]
        /\ \A w \in VMs : files'[w] = files[w] \/ creating[w] = "saving"
    BY <1>2 DEF Dies
  <2> QED
    BY <2>1, <2>2, <2>3, <2>4, <2>5
<1>3. CASE Restore
  BY <1>3 DEF Restore, Transition
<1>4. ASSUME NEW v \in VMs, NEW t \in {"none", "good", "bad"}, CreateVM(v, t) PROVE RestInv'
  BY <1>4 DEF CreateVM
<1>5. ASSUME NEW v \in VMs, Mount(v) PROVE RestInv'
  BY <1>5 DEF Mount
<1>6. ASSUME NEW v \in VMs, StartVM(v) PROVE RestInv'
  BY <1>6 DEF StartVM
<1>7. ASSUME NEW v \in VMs, Insert(v) PROVE RestInv'
  <2>1. CASE Full
    BY <1>7, <2>1 DEF Insert
  <2>2. CASE ~Full
    <3>1. late' \in BOOLEAN
      BY <1>7, <2>2, Zenon DEF Insert
    <3>2. /\ up /\ creating[v] = "inserting" /\ creating' = [creating EXCEPT ![v] = "timing"]
          /\ vms' = vms \cup {v}
          /\ UNCHANGED <<up, starts, shutDown, ttl, vmState, timer, process, child, mounts, files,
                         removed, stuck, skipped>>
      BY <1>7, <2>2, Zenon DEF Insert
    <3> QED
      BY <3>1, <3>2
  <2> QED
    BY <2>1, <2>2, Zenon
<1>8. ASSUME NEW v \in VMs, UndoStart(v) PROVE RestInv'
  BY <1>8 DEF UndoStart, StopVM, Transition
<1>9. ASSUME NEW v \in VMs, SetTTL(v) PROVE RestInv'
  BY <1>9 DEF SetTTL
<1>10. ASSUME NEW v \in VMs, SaveVM(v) PROVE RestInv'
  BY <1>10 DEF SaveVM
<1>11. ASSUME NEW v \in VMs, Finish(v) PROVE RestInv'
  <2>1. CASE v \in vms
    BY <1>11, <2>1 DEF Finish, Transition
  <2>2. CASE v \notin vms
    <3>1. Dies
      BY <1>11, <2>2, Zenon DEF Finish
    <3> HIDE DEF RestInv
    <3> QED
      BY <1>2, <3>1, Zenon
  <2> QED
    BY <2>1, <2>2, Zenon
<1>12. ASSUME NEW v \in VMs, NEW t \in [VMs -> {"none", "set", "fired"}], RemoveVM(v, t),
              \A w \in VMs : w # v => t[w] = timer[w]
       PROVE  RestInv'
  BY <1>12 DEF RemoveVM, StopVM, Transition
<1>13. ASSUME NEW v \in VMs, RemoveByClient(v) PROVE RestInv'
  <2>1. /\ Cancelled(v) \in [VMs -> {"none", "set", "fired"}]
        /\ \A w \in VMs : w # v => Cancelled(v)[w] = timer[w]
    BY DEF Cancelled
  <2>2. RemoveVM(v, Cancelled(v))
    BY <1>13, Zenon DEF RemoveByClient
  <2> HIDE DEF RestInv
  <2> QED
    BY <1>12, <2>1, <2>2, Zenon
<1>14. ASSUME NEW v \in VMs, TTLExpires(v) PROVE RestInv'
  <2> DEFINE t == [timer EXCEPT ![v] = "none"]
  <2>1. /\ t \in [VMs -> {"none", "set", "fired"}]
        /\ \A w \in VMs : w # v => t[w] = timer[w]
    BY Zenon
  <2>2. RemoveVM(v, t)
    BY <1>14, Zenon DEF TTLExpires
  <2> HIDE DEF RestInv, t
  <2> QED
    BY <1>12, <2>1, <2>2, Zenon
<1>15. ASSUME NEW v \in VMs, TimerFires(v) PROVE RestInv'
  BY <1>15 DEF TimerFires
<1>16. ASSUME NEW v \in VMs, ProcessEnds(v) PROVE RestInv'
  BY <1>16 DEF ProcessEnds
<1>17. CASE UNCHANGED managerVars
  BY <1>17 DEF managerVars
<1> HIDE DEF RestInv
<1> QED
  BY <1>1, <1>2, <1>3, <1>4, <1>5, <1>6, <1>7, <1>8, <1>9, <1>10, <1>11, <1>13, <1>14, <1>15, <1>16, <1>17, Zenon
  DEF ManagerNext, Exit, CreateStep

\* Before the map was emptied or a live VM left out of it, whatever claims a
\* place is in the map.
LEMMA ClaimingIsManaged ==
    ASSUME RestInv, up, ~shutDown, skipped = {}
    PROVE  Claiming = vms
<1> SUFFICES ASSUME NEW v \in VMs, process[v] = "alive",
                    files[v] = "saved" \/ creating[v] \in {"timing", "saving"}
             PROVE  v \in vms
  BY Zenon DEF Claiming, RestInv, ManagerTypeOK
<1>1. v \notin removed
  BY Zenon DEF RestInv, RemovedIsDead
<1> QED
  BY <1>1, Zenon DEF RestInv, SavedVMIsManaged

\* CreateVM looks at the limit again under the lock under which it inserts.
LEMMA InsertLimitInv ==
    ASSUME RestInv, LimitInv, NEW v \in VMs, Insert(v)
    PROVE  LimitInv'
<1>1. /\ up /\ creating[v] = "inserting" /\ files[v] = "none"
      /\ UNCHANGED <<shutDown, process, files, skipped>>
  BY Zenon DEF Insert, At, RestInv
<1>2. creating \in [VMs -> Steps \cup Outcome \cup {"none"}] /\ vms \in SUBSET VMs
  BY Zenon DEF RestInv, ManagerTypeOK
<1>3. CASE Full
  <2>1. creating' = [creating EXCEPT ![v] = "undoing"] /\ UNCHANGED <<vms, late>>
    BY <1>3, Zenon DEF Insert, GoTo
  <2>2. Claiming' \subseteq Claiming
    BY <1>1, <1>2, <2>1, Zenon DEF Claiming
  <2> QED
    BY <2>1, <2>2, LimitStays, Zenon DEF RestInv
<1>4. CASE ~Full
  <2>1. /\ creating' = [creating EXCEPT ![v] = "timing"] /\ vms' = vms \cup {v}
        /\ ~late' => ~late /\ ~shutDown /\ skipped = {}
    BY <1>4, Zenon DEF Insert, GoTo
  <2>2. Claiming' \subseteq Claiming \cup {v} /\ Claiming' \in SUBSET VMs
    BY <1>1, <1>2, <2>1, Zenon DEF Claiming
  <2> SUFFICES ASSUME MaxVMs > 0, ~late'
               PROVE  Cardinality(Claiming') <= MaxVMs
    BY Zenon DEF LimitInv
  <2>3. Claiming = vms
    BY <1>1, <2>1, ClaimingIsManaged, Zenon
  <2>4. IsFiniteSet(vms)
    BY <1>2, FS_Subset, ManagerAssumption, Zenon
  <2>5. Cardinality(vms) \in Nat /\ ~(Cardinality(vms) >= MaxVMs)
    BY <1>4, <2>4, FS_CardinalityType, Zenon DEF Full
  <2>6. Cardinality(vms \cup {v}) <= MaxVMs
    <3>1. Cardinality(vms \cup {v}) = IF v \in vms THEN Cardinality(vms) ELSE Cardinality(vms) + 1
      BY <2>4, FS_AddElement, Zenon
    <3> QED
      BY <2>5, <3>1, ManagerAssumption
  <2>7. vms \cup {v} \in SUBSET VMs /\ Claiming' \in SUBSET (vms \cup {v})
    BY <1>2, <2>2, <2>3, Zenon
  <2> QED
    BY <2>6, <2>7, FewerVMs, Zenon
<1> QED
  BY <1>3, <1>4, Zenon

\* No other step lets a VM claim a place that did not do so before.
LEMMA StepLimitInv ==
    ASSUME RestInv, LimitInv, [ManagerNext]_managerVars
    PROVE  LimitInv'
<1> DEFINE Fewer == Claiming' \subseteq Claiming /\ late' = late
<1> USE DEF Claiming, RestInv, ManagerTypeOK, At, GoTo, Steps, Outcome
<1>1. Shutdown => Fewer
  BY Zenon DEF Shutdown
<1>2. Dies => Fewer
  BY DEF Dies
<1>3. Restore => Fewer
  BY DEF Restore
<1>4. ASSUME NEW v \in VMs, NEW t \in {"none", "good", "bad"}, CreateVM(v, t) PROVE Fewer
  BY <1>4 DEF CreateVM
<1>5. ASSUME NEW v \in VMs, Mount(v) PROVE Fewer
  BY <1>5 DEF Mount
<1>6. ASSUME NEW v \in VMs, StartVM(v) PROVE Fewer
  BY <1>6 DEF StartVM
<1>7. ASSUME NEW v \in VMs, UndoStart(v) PROVE Fewer
  BY <1>7 DEF UndoStart, StopVM
<1>8. ASSUME NEW v \in VMs, SetTTL(v) PROVE Fewer
  BY <1>8 DEF SetTTL
<1>9. ASSUME NEW v \in VMs, SaveVM(v) PROVE Fewer
  BY <1>9 DEF SaveVM
<1>10. ASSUME NEW v \in VMs, Finish(v) PROVE Fewer
  <2>1. CASE v \in vms
    BY <1>10, <2>1 DEF Finish
  <2>2. CASE v \notin vms
    BY <1>2, <1>10, <2>2, Zenon DEF Finish
  <2> QED
    BY <2>1, <2>2, Zenon
<1>11. ASSUME NEW v \in VMs, NEW t, RemoveVM(v, t) PROVE Fewer
  BY <1>11 DEF RemoveVM, StopVM
<1>12. ASSUME NEW v \in VMs, TimerFires(v) PROVE Fewer
  BY <1>12, Zenon DEF TimerFires
<1>13. ASSUME NEW v \in VMs, ProcessEnds(v) PROVE Fewer
  BY <1>13, Zenon DEF ProcessEnds
<1>14. UNCHANGED managerVars => Fewer
  BY Zenon DEF managerVars
<1> HIDE DEF Fewer, RestInv, ManagerTypeOK, Claiming
<1>15. Fewer => LimitInv'
  BY LimitStays, Zenon DEF Fewer, RestInv
<1>16. Fewer \/ \E v \in VMs : Insert(v)
  BY <1>1, <1>2, <1>3, <1>4, <1>5, <1>6, <1>7, <1>8, <1>9, <1>10, <1>11, <1>12, <1>13, <1>14, Zenon
  DEF ManagerNext, Exit, CreateStep, RemoveByClient, TTLExpires
<1> QED
  BY <1>15, <1>16, InsertLimitInv, Zenon

(***************************************************************************)
(* The inductive invariant of the manager holds in every behaviour, over   *)
(* any crashes and restarts.                                               *)
(***************************************************************************)
THEOREM ManagerInvariant == ManagerSpec => []ManagerInv
<1>1. ManagerInv /\ [ManagerNext]_managerVars => ManagerInv'
  BY TwoParts, StepRestInv, StepLimitInv, Zenon DEF ManagerInv, RestInv, LimitInv
<1> QED
  BY <1>1, InitManagerInv, PTL DEF ManagerSpec

(***************************************************************************)
(* RemoveVM and the TTL report success only of a VM that is gone for good. *)
(***************************************************************************)
THEOREM RemovedStaysDead == ManagerSpec => []RemovedIsDead
<1>1. ManagerInv => RemovedIsDead
  BY Zenon DEF ManagerInv
<1> QED
  BY <1>1, ManagerInvariant, PTL

(***************************************************************************)
(* A running manager knows every live VM that has a state file.            *)
(***************************************************************************)
THEOREM NoSavedVMIsForgotten == ManagerSpec => []SavedVMIsManaged
<1>1. ManagerInv => SavedVMIsManaged
  BY Zenon DEF ManagerInv
<1> QED
  BY <1>1, ManagerInvariant, PTL

(***************************************************************************)
(* A TTL is not lost while the manager that set it runs.                   *)
(***************************************************************************)
THEOREM TTLIsKept == ManagerSpec => []LiveVMHasTTL
<1>1. ManagerInv => LiveVMHasTTL
  BY Zenon DEF ManagerInv
<1> QED
  BY <1>1, ManagerInvariant, PTL

(***************************************************************************)
(* The limit of the managed VMs holds for any number of concurrent calls   *)
(* and of restarts.                                                        *)
(***************************************************************************)
THEOREM LimitIsKept == ManagerSpec => []LimitKept
<1>1. ManagerInv => LimitKept
  <2> SUFFICES ASSUME ManagerInv, MaxVMs > 0, ~late
               PROVE  Cardinality(vms) <= MaxVMs
    BY Zenon DEF LimitKept
  <2>1. Claiming \in SUBSET VMs /\ vms \in SUBSET Claiming
    BY Zenon DEF Claiming, ManagerInv, ManagerTypeOK
  <2>2. Cardinality(Claiming) <= MaxVMs
    BY Zenon DEF ManagerInv
  <2> QED
    BY <2>1, <2>2, FewerVMs, Zenon
<1> QED
  BY <1>1, ManagerInvariant, PTL

-----------------------------------------------------------------------------
(* The egress proxy. *)

LEMMA TwoEnds ==
    ASSUME NEW e \in Ends
    PROVE  Other(e) \in Ends /\ Other(e) # e /\ Other(Other(e)) = e
BY Zenon DEF Ends, Other

\* What holds of the two goroutines of the tunnel.
Goroutines ==
    \A e \in Ends :
        /\ Other(e) \in eof => copier[e] = "done"
        /\ copier[e] \in {"closing", "done"} /\ ended[e] # "gone" /\ ended[Other(e)] # "gone" =>
              ended[e] = "finished" /\ passed[e] + Dropped(e) = offered[e]

LEMMA InitEgressInv == EgressInit => EgressInv
BY DEF EgressInit, EgressInv, DialedIsAllowed, FinishedIsDelivered, Other, Ends

\* What the proxy connects to when it follows a URL whose destination was
\* allowed is allowed, too: both choose the same port where the URL has none.
LEMMA ReachedIsAllowed ==
    ASSUME NEW target, NEW scheme, allowDestination(target, scheme),
           target.port # NoPort \/ scheme \in {"http", "https"}
    PROVE  LET d == Reached(target, scheme)
           IN allowed(policy, d[1], d[2]) /\ d = <<d[1], d[2]>>
BY DEF allowDestination, destinationParts, defaultPort, Reached

\* A handler that answers leaves the tunnel alone.
LEMMA AnswerInv ==
    ASSUME EgressInv, handler = "start", NEW d, d = NoTarget \/ (allowed(policy, d[1], d[2]) /\ d = <<d[1], d[2]>>),
           NEW s \in {"forbidden", "unavailable", "bad gateway", "answered", "dialed"}, Answer(s, d)
    PROVE  EgressInv'
<1>1. DialedIsAllowed'
  BY Zenon DEF Answer, DialedIsAllowed, allowed
<1> QED
  BY <1>1, Zenon DEF Answer, EgressInv, FinishedIsDelivered, Dropped

LEMMA HandlersInv ==
    ASSUME EgressInv, handleConnect \/ handleHTTP \/ handleHTTP2
    PROVE  EgressInv'
<1>1. CASE handleConnect
  <2>1. CASE Answer("dialed", Reached(req.target, "")) /\ req.target.port # NoPort /\ allowDestination(req.target, "https")
    <3>1. Reached(req.target, "") = Reached(req.target, "https")
      BY <2>1, Zenon DEF Reached
    <3> QED
      BY <1>1, <2>1, <3>1, ReachedIsAllowed, AnswerInv, Zenon DEF handleConnect
  <2> QED
    BY <1>1, <2>1, AnswerInv, Zenon DEF handleConnect
<1>2. CASE handleHTTP \/ handleHTTP2
  <2> DEFINE url == outboundURL(req)
  <2>1. CASE Answer("answered", Reached(url.target, url.scheme)) /\ allowDestination(url.target, url.scheme)
             /\ Reached(url.target, url.scheme) # NoTarget
    <3>1. url.target.port # NoPort \/ url.scheme \in {"http", "https"}
      BY <2>1, Zenon DEF Reached
    <3> HIDE DEF url
    <3> QED
      BY <1>2, <2>1, <3>1, ReachedIsAllowed, AnswerInv, Zenon DEF handleHTTP, handleHTTP2
  <2> HIDE DEF url
  <2> QED
    BY <1>2, <2>1, AnswerInv, Zenon DEF handleHTTP, handleHTTP2, url
<1> QED
  BY <1>1, <1>2, Zenon

\* The tunnel, step by step.
LEMMA TunnelInv ==
    ASSUME EgressInv,
           Hijack \/ Establish \/ ReturnConnect \/ \E e \in Ends : Offer(e) \/ EndCloses(e) \/ PipeStep(e)
    PROVE  EgressInv'
<1>1. DialedIsAllowed'
  BY Zenon DEF EgressInv, DialedIsAllowed, Hijack, Establish, ReturnConnect, Offer, EndCloses, PipeStep, CopyBytes, CloseWrite
<1> DEFINE TypeOK ==
       /\ handler \in {"start", "forbidden", "unavailable", "bad gateway", "answered", "dialed", "failed", "hijacked", "piping", "closed"}
       /\ offered \in [Ends -> Nat] /\ passed \in [Ends -> Nat] /\ buffered \in Nat
       /\ copier \in [Ends -> {"none", "copying", "closing", "done"}]
       /\ ended \in [Ends -> {"open", "finished", "gone"}] /\ eof \subseteq Ends
       /\ handler \notin {"piping", "closed"} => \A e \in Ends : copier[e] = "none"
<1>a. TypeOK /\ Goroutines
  BY Zenon DEF EgressInv, Goroutines
<1>b. TypeOK' /\ Goroutines' => EgressInv'
  <2> SUFFICES ASSUME TypeOK', Goroutines' PROVE EgressInv'
    BY Zenon
  <2>1. FinishedIsDelivered'
    <3> SUFFICES ASSUME NEW e \in Ends, e \in eof', ended'[e] # "gone", ended'[Other(e)] # "gone"
                 PROVE  /\ ended'[Other(e)] = "finished"
                        /\ passed'[Other(e)] + Dropped(Other(e))' = offered'[Other(e)]
      BY Zenon DEF FinishedIsDelivered
    <3> QED
      BY TwoEnds, Zenon DEF Goroutines
  <2> QED
    BY <1>1, <2>1, Zenon DEF EgressInv, Goroutines
<1>2. CASE Hijack
  <2>1. /\ handler = "dialed" /\ handler' \in {"hijacked", "failed"} /\ buffered' \in Nat
        /\ UNCHANGED <<offered, passed, copier, ended, eof>>
    BY <1>2, <1>a DEF Hijack, Ends
  <2>2. \A e \in Ends : copier[e] = "none" /\ Other(e) \notin eof
    BY <1>a, <2>1, Zenon DEF Goroutines
  <2>3. TypeOK' /\ Goroutines'
    BY <1>a, <2>1, <2>2, Zenon DEF Goroutines
  <2> QED
    BY <1>b, <2>3, Zenon
<1>3. CASE Establish
  <2>1. TypeOK'
    BY <1>3, <1>a, Zenon DEF Establish
  <2>2. Goroutines'
    BY <1>3, <1>a, Zenon DEF Establish, Goroutines, Dropped
  <2> QED
    BY <1>b, <2>1, <2>2, Zenon
<1>4. CASE ReturnConnect
  <2>1. TypeOK' /\ Goroutines'
    BY <1>4, <1>a, Zenon DEF ReturnConnect, Goroutines, Dropped
  <2> QED
    BY <1>b, <2>1, Zenon
<1>5. ASSUME NEW e \in Ends, Offer(e) PROVE EgressInv'
  <2>1. /\ ended[e] = "open" /\ offered' = [offered EXCEPT ![e] = @ + 1]
        /\ UNCHANGED <<handler, buffered, passed, copier, ended, eof>>
    BY <1>5, Zenon DEF Offer
  <2>2. TypeOK' /\ \A o \in Ends \ {e} : offered'[o] = offered[o]
    <3>1. offered' \in [Ends -> Nat] /\ \A o \in Ends \ {e} : offered'[o] = offered[o]
      <4>1. offered \in [Ends -> Nat]
        BY <1>a, Zenon
      <4> QED
        BY <2>1, <4>1
    <3> QED
      BY <1>a, <2>1, <3>1, Zenon
  <2>3. copier[e] \in {"closing", "done"} => ended[Other(e)] = "gone"
    BY <1>a, <2>1, Zenon DEF Goroutines
  <2>4. Goroutines'
    <3> SUFFICES ASSUME NEW o \in Ends,
                        copier[o] \in {"closing", "done"}, ended[o] # "gone", ended[Other(o)] # "gone"
                 PROVE  ended[o] = "finished" /\ passed[o] + Dropped(o) = offered'[o]
      BY <1>a, <2>1, Zenon DEF Goroutines, Dropped
    <3>1. o # e
      BY <2>3, Zenon
    <3> QED
      BY <1>a, <2>2, <3>1, Zenon DEF Goroutines
  <2> QED
    BY <1>b, <2>2, <2>4, Zenon
<1>6. ASSUME NEW e \in Ends, EndCloses(e) PROVE EgressInv'
  <2>1. PICK how \in {"finished", "gone"} :
           /\ ended[e] # "gone" /\ ended[e] # how /\ ended' = [ended EXCEPT ![e] = how]
           /\ UNCHANGED <<handler, offered, buffered, passed, copier, eof>>
    BY <1>6, Zenon DEF EndCloses
  <2>2. TypeOK' /\ \A o \in Ends : ended'[o] = ended[o] \/ (o = e /\ ended'[o] = how)
    BY <1>a, <2>1, Zenon
  <2>3. Goroutines'
    BY <1>a, <2>1, <2>2, TwoEnds DEF Goroutines, Dropped
  <2> QED
    BY <1>b, <2>2, <2>3, Zenon
<1>7. ASSUME NEW e \in Ends, CopyBytes(e) PROVE EgressInv'
  <2>1. /\ handler = "piping" /\ copier[e] = "copying" /\ UNCHANGED <<handler, offered, buffered, ended, eof>>
        /\ Other(e) \notin eof
    BY <1>7, <1>a, Zenon DEF CopyBytes, Goroutines
  <2>2. CASE passed' = [passed EXCEPT ![e] = @ + 1] /\ copier' = copier
    <3>1. TypeOK' /\ \A o \in Ends \ {e} : passed'[o] = passed[o]
      BY <1>a, <2>1, <2>2
    <3>2. Goroutines'
      BY <1>a, <2>1, <2>2, <3>1, Zenon DEF Goroutines, Dropped
    <3> QED
      BY <1>b, <3>1, <3>2, Zenon
  <2>3. CASE copier' = [copier EXCEPT ![e] = "closing"] /\ passed' = passed
             /\ \/ ended[e] = "gone" \/ ended[Other(e)] = "gone"
                \/ passed[e] + Dropped(e) = offered[e] /\ ended[e] = "finished"
    <3>1. TypeOK'
      BY <1>a, <2>1, <2>3, Zenon
    <3>2. Goroutines'
      BY <1>a, <2>1, <2>3, Zenon DEF Goroutines, Dropped
    <3> QED
      BY <1>b, <3>1, <3>2, Zenon
  <2> QED
    BY <1>7, <2>2, <2>3, Zenon DEF CopyBytes
<1>8. ASSUME NEW e \in Ends, CloseWrite(e) PROVE EgressInv'
  <2>1. /\ handler = "piping" /\ copier[e] = "closing" /\ copier' = [copier EXCEPT ![e] = "done"] /\ eof' = eof \cup {Other(e)}
        /\ UNCHANGED <<handler, offered, buffered, passed, ended>>
    BY <1>8, Zenon DEF CloseWrite
  <2>2. TypeOK'
    BY <1>a, <2>1, TwoEnds, Zenon
  <2>3. \A o \in Ends : Other(o) = Other(e) => o = e
    BY TwoEnds, Zenon
  <2>4. Goroutines'
    BY <1>a, <2>1, <2>3, Zenon DEF Goroutines, Dropped
  <2> QED
    BY <1>b, <2>2, <2>4, Zenon
<1> QED
  BY <1>2, <1>3, <1>4, <1>5, <1>6, <1>7, <1>8, Zenon DEF PipeStep

(***************************************************************************)
(* The inductive invariant of the proxy.                                   *)
(***************************************************************************)
THEOREM EgressInvariant == EgressSpec => []EgressInv
<1>1. EgressInv /\ [EgressNext]_egressVars => EgressInv'
  <2> SUFFICES ASSUME EgressInv, [EgressNext]_egressVars PROVE EgressInv'
    BY Zenon
  <2>1. CASE UNCHANGED egressVars
    BY <2>1, Zenon DEF egressVars, EgressInv, DialedIsAllowed, FinishedIsDelivered, Dropped
  <2> QED
    BY <2>1, HandlersInv, TunnelInv, Zenon DEF EgressNext
<1> QED
  BY <1>1, InitEgressInv, PTL DEF EgressSpec

(***************************************************************************)
(* The proxy connects to nothing that the allowlist does not cover.        *)
(***************************************************************************)
THEOREM OnlyAllowedIsDialed == EgressSpec => []DialedIsAllowed
<1>1. EgressInv => DialedIsAllowed
  BY Zenon DEF EgressInv
<1> QED
  BY <1>1, EgressInvariant, PTL

(***************************************************************************)
(* The end of a stream is passed on only after all its bytes.              *)
(***************************************************************************)
THEOREM EndAfterBytes == EgressSpec => []FinishedIsDelivered
<1>1. EgressInv => FinishedIsDelivered
  BY Zenon DEF EgressInv
<1> QED
  BY <1>1, EgressInvariant, PTL
=============================================================================
