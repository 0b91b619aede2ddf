------------------------------ MODULE Manager ------------------------------
(***************************************************************************)
(* manager/service.go with its TTL timers (manager/ttl.go), the QEMU VMs   *)
(* (manager/qemu/vm.go, manager/vm/state.go) and the files that describe   *)
(* them (manager/qemu/persistence.go).  CreateVM runs in pieces between    *)
(* which it holds no lock; RemoveVM holds the mutex throughout.  The       *)
(* manager may be shut down or crash at any point and be started again;    *)
(* the QEMU processes outlive it and may end at any time.                  *)
(***************************************************************************)
EXTENDS Naturals, FiniteSets

CONSTANTS
    VMs,            \* the ids that CreateVM draws, one for each call
    MaxVMs,         \* ms.maxVMs
    MaxStarts       \* bound of the starts of the manager

ASSUME ManagerAssumption ==
    /\ IsFiniteSet(VMs)
    /\ MaxVMs \in Nat /\ MaxStarts \in Nat \ {0}

VARIABLES
    up,             \* the manager process runs
    starts,         \* how often it was started
    shutDown,       \* Shutdown ran in this process
    creating,       \* where CreateVM of each id is
    ttl,            \* the Ttl field of its request: "none", "good" or "bad"
    vms,            \* ms.vms
    vmState,        \* the state machine of each VM object
    timer,          \* the TTL timer: "none", "set", or "fired" while its callback is due
    process,        \* the QEMU process: "none", "alive" or "dead"
    child,          \* the processes that this manager process started itself
    mounts,         \* the VMs whose directories in /tmp exist
    files,          \* the state file: "none", "saved" or "torn"
    removed,        \* history: the VMs that RemoveVM removed
    stuck,          \* history: the VMs whose Stop failed in this process
    skipped,        \* history: the VMs that this process could not reattach
    late            \* history: a VM was inserted after Shutdown, or beside VMs that were not reattached

managerVars == <<up, starts, shutDown, creating, ttl, vms, vmState, timer, process, child,
                 mounts, files, removed, stuck, skipped, late>>

\* Where a CreateVM is under way.
Steps == {"mounting", "starting", "inserting", "undoing", "timing", "saving", "finishing"}
Outcome == {"done", "refused", "failed", "lost"}

ManagerInit ==
    /\ up = TRUE /\ starts = 1 /\ shutDown = FALSE
    /\ creating = [v \in VMs |-> "none"]
    /\ ttl = [v \in VMs |-> "none"]
    /\ vms = {}
    /\ vmState = [v \in VMs |-> "provision"]
    /\ timer = [v \in VMs |-> "none"]
    /\ process = [v \in VMs |-> "none"]
    /\ child = {} /\ mounts = {}
    /\ files = [v \in VMs |-> "none"]
    /\ removed = {} /\ stuck = {} /\ skipped = {} /\ late = FALSE

\* sm.Transition: the state after a request to go to state s.
Transition(from, s) ==
    CASE from = "provision" -> s
      [] from = "running" /\ s = "stopped" -> s
      [] from = "stopped" /\ s = "running" -> s
      [] OTHER -> from

\* len(ms.vms) >= ms.maxVMs, when there is a limit
Full == MaxVMs > 0 /\ Cardinality(vms) >= MaxVMs

At(v, s) == up /\ creating[v] = s
GoTo(v, s) == creating' = [creating EXCEPT ![v] = s]

\* CreateVM under its first lock: the limit and the parameters of the guest.
CreateVM(v, t) ==
    /\ At(v, "none")
    /\ ttl' = [ttl EXCEPT ![v] = t]
    /\ IF Full THEN GoTo(v, "refused") ELSE GoTo(v, "mounting") \/ GoTo(v, "refused")
    /\ UNCHANGED <<up, starts, shutDown, vms, vmState, timer, process, child, mounts, files,
                   removed, stuck, skipped, late>>

\* tempCertMount, tmpEnvironment and getFreePort.  What was created before an
\* error stays behind.
Mount(v) ==
    /\ At(v, "mounting")
    /\ \/ GoTo(v, "starting") /\ mounts' = mounts \cup {v}
       \/ GoTo(v, "failed") /\ mounts' \in {mounts, mounts \cup {v}}
    /\ UNCHANGED <<up, starts, shutDown, ttl, vms, vmState, timer, process, child, files,
                   removed, stuck, skipped, late>>

\* qemuVM.Start
StartVM(v) ==
    /\ At(v, "starting")
    /\ \/ /\ GoTo(v, "inserting")
          /\ process' = [process EXCEPT ![v] = "alive"]
          /\ child' = child \cup {v}
       \/ GoTo(v, "failed") /\ UNCHANGED <<process, child>>
    /\ UNCHANGED <<up, starts, shutDown, ttl, vms, vmState, timer, mounts, files,
                   removed, stuck, skipped, late>>

\* Mutant of Insert: the limit is not looked at again.
InsertUnchecked(v) ==
    /\ At(v, "inserting")
    /\ GoTo(v, "timing")
    /\ vms' = vms \cup {v}
    /\ late' = (late \/ shutDown \/ skipped # {})
    /\ UNCHANGED <<up, starts, shutDown, ttl, vmState, timer, process, child, mounts, files,
                   removed, stuck, skipped>>

\* CreateVM under its second lock: the limit again, and the map.
Insert(v) ==
    /\ At(v, "inserting")
    /\ IF Full THEN GoTo(v, "undoing") /\ UNCHANGED <<vms, late>>
       ELSE /\ GoTo(v, "timing")
            /\ vms' = vms \cup {v}
            /\ late' = (late \/ shutDown \/ skipped # {})
    /\ UNCHANGED <<up, starts, shutDown, ttl, vmState, timer, process, child, mounts, files,
                   removed, stuck, skipped>>

\* qemuVM.Stop with result ok.  A process that this manager started can be
\* waited for: Stop succeeds unless a directory cannot be removed or the kill
\* comes too late.  A process taken over from an earlier manager is no child:
\* SIGTERM is sent, and Wait fails.
StopVM(v, ok) ==
    /\ ok => v \in child
    /\ process' \in IF ok THEN {[process EXCEPT ![v] = "dead"]}
                    ELSE {process, [process EXCEPT ![v] = "dead"]}
    /\ mounts' \in IF ok THEN {mounts \ {v}}
                   ELSE IF v \notin child /\ process[v] = "dead" THEN {mounts}
                   ELSE {mounts, mounts \ {v}}
    /\ vmState' = [vmState EXCEPT ![v] = Transition(@, "stopped")]

\* CreateVM after the second refusal: the VM it started is stopped again.
UndoStart(v) ==
    /\ At(v, "undoing")
    /\ \E ok \in BOOLEAN :
          /\ StopVM(v, ok)
          /\ stuck' = IF ok THEN stuck ELSE stuck \cup {v}
    /\ GoTo(v, "refused")
    /\ UNCHANGED <<up, starts, shutDown, ttl, vms, timer, child, files, removed, skipped, late>>

\* Mutant of SetTTL: the duration is parsed and no timer is started.
SetNoTTL(v) ==
    /\ At(v, "timing")
    /\ GoTo(v, IF ttl[v] = "bad" THEN "failed" ELSE "saving")
    /\ UNCHANGED <<up, starts, shutDown, ttl, vms, vmState, timer, process, child, mounts, files,
                   removed, stuck, skipped, late>>

\* ParseDuration and SetTTL.  A TTL that does not parse ends CreateVM with an
\* error although the VM runs.
SetTTL(v) ==
    /\ At(v, "timing")
    /\ GoTo(v, IF ttl[v] = "bad" THEN "failed" ELSE "saving")
    /\ timer' = [timer EXCEPT ![v] = IF ttl[v] = "good" THEN "set" ELSE @]
    /\ UNCHANGED <<up, starts, shutDown, ttl, vms, vmState, process, child, mounts, files,
                   removed, stuck, skipped, late>>

\* SaveVM; its error is only logged.
SaveVM(v) ==
    /\ At(v, "saving")
    /\ GoTo(v, "finishing")
    /\ files' \in {files, [files EXCEPT ![v] = "saved"]}
    /\ UNCHANGED <<up, starts, shutDown, ttl, vms, vmState, timer, process, child, mounts,
                   removed, stuck, skipped, late>>

\* What the end of the manager process leaves: memory and timers are gone.
Dies ==
    /\ up' = FALSE
    /\ creating' = [w \in VMs |-> IF creating[w] \in Steps THEN "lost" ELSE creating[w]]
    /\ vms' = {} /\ child' = {} /\ stuck' = {} /\ skipped' = {} /\ shutDown' = FALSE
    /\ timer' = [w \in VMs |-> "none"]
    /\ files' \in {files} \cup
          {[files EXCEPT ![w] = "torn"] : w \in {w \in VMs : creating[w] = "saving"}}
    /\ UNCHANGED <<starts, ttl, vmState, process, mounts, removed, late>>

\* CreateVM under its last lock.  The map no longer holds a VM that its TTL or
\* Shutdown removed; the call on the missing entry panics.
Finish(v) ==
    /\ At(v, "finishing")
    /\ IF v \in vms
       THEN /\ GoTo(v, "done")
            /\ vmState' = [vmState EXCEPT ![v] = Transition(@, "running")]
            /\ UNCHANGED <<up, starts, shutDown, ttl, vms, timer, process, child, mounts, files,
                           removed, stuck, skipped, late>>
       ELSE Dies

\* Mutant of RemoveVM: the entry is deleted before Stop is tried.
RemoveVMFirst(v, t) ==
    /\ timer' = t
    /\ vms' = vms \ {v}
    /\ IF v \notin vms THEN UNCHANGED <<vmState, process, mounts, files, removed, stuck>>
       ELSE \E ok \in BOOLEAN :
              /\ StopVM(v, ok)
              /\ removed' = removed \cup {v}
              /\ files' \in IF ok THEN {files, [files EXCEPT ![v] = "none"]} ELSE {files}
              /\ stuck' = IF ok THEN stuck ELSE stuck \cup {v}
    /\ UNCHANGED <<up, starts, shutDown, creating, ttl, child, skipped, late>>

\* RemoveVM, all of it under the mutex; t is what becomes of the timers.  The
\* TTL is cancelled before anything can fail, and the error of DeleteVM is
\* only logged.
RemoveVM(v, t) ==
    /\ timer' = t
    /\ IF v \notin vms THEN UNCHANGED <<vms, vmState, process, mounts, files, removed, stuck>>
       ELSE \E ok \in BOOLEAN :
              /\ StopVM(v, ok)
              /\ vms' = IF ok THEN vms \ {v} ELSE vms
              /\ removed' = IF ok THEN removed \cup {v} ELSE removed
              /\ files' \in IF ok THEN {files, [files EXCEPT ![v] = "none"]} ELSE {files}
              /\ stuck' = IF ok THEN stuck ELSE stuck \cup {v}
    /\ UNCHANGED <<up, starts, shutDown, creating, ttl, child, skipped, late>>

\* timer.Stop: a timer that has fired is not stopped, its callback still runs.
Cancelled(v) == [timer EXCEPT ![v] = IF @ = "set" THEN "none" ELSE @]

\* A client asks for the removal of a VM whose id it knows.
RemoveByClient(v) ==
    /\ up /\ creating[v] \in Outcome \ {"refused"}
    /\ RemoveVM(v, Cancelled(v))

TimerFires(v) ==
    /\ up /\ timer[v] = "set"
    /\ timer' = [timer EXCEPT ![v] = "fired"]
    /\ UNCHANGED <<up, starts, shutDown, creating, ttl, vms, vmState, process, child, mounts,
                   files, removed, stuck, skipped, late>>

\* The callback that CreateVM gave to SetTTL.
TTLExpires(v) ==
    /\ up /\ timer[v] = "fired"
    /\ RemoveVM(v, [timer EXCEPT ![v] = "none"])

\* Shutdown: CancelAll and an empty map.  The processes and the files stay.
Shutdown ==
    /\ up /\ ~shutDown
    /\ shutDown' = TRUE
    /\ timer' = [v \in VMs |-> IF timer[v] = "set" THEN "none" ELSE timer[v]]
    /\ vms' = {}
    /\ UNCHANGED <<up, starts, creating, ttl, vmState, process, child, mounts, files,
                   removed, stuck, skipped, late>>

\* The manager exits after Shutdown, or crashes.
Exit == up /\ Dies

\* Mutant of Restore: a VM with a dead process is taken over, too.
RestoreAll ==
    /\ ~up /\ starts < MaxStarts
    /\ \A v \in VMs : files[v] # "torn"
    /\ up' = TRUE /\ starts' = starts + 1
    /\ vms' = {v \in VMs : files[v] = "saved"}
    /\ skipped' = {}
    /\ vmState' = [v \in VMs |-> IF v \in vms' THEN Transition("provision", "running") ELSE vmState[v]]
    /\ UNCHANGED <<shutDown, creating, ttl, timer, process, child, mounts, files, removed, stuck, late>>

\* New with restoreVMs: the file of a dead process is deleted, a live process
\* is taken over unless it cannot be attached to.  An unreadable file ends New
\* with an error.  No TTL is set again.
Restore ==
    /\ ~up /\ starts < MaxStarts
    /\ \A v \in VMs : files[v] # "torn"
    /\ up' = TRUE /\ starts' = starts + 1
    /\ \E failed \in SUBSET {v \in VMs : files[v] = "saved"} :
          LET alive == {v \in VMs : files[v] = "saved" /\ process[v] = "alive"}
          IN /\ vms' = alive \ failed
             /\ skipped' = alive \cap failed
             /\ files' = [v \in VMs |-> IF v \in alive \cup failed THEN files[v] ELSE "none"]
    /\ vmState' = [v \in VMs |-> IF v \in vms' THEN Transition("provision", "running") ELSE vmState[v]]
    /\ UNCHANGED <<shutDown, creating, ttl, timer, process, child, mounts, removed, stuck, late>>

\* A QEMU process ends, by itself or by a signal sent earlier.
ProcessEnds(v) ==
    /\ process[v] = "alive"
    /\ process' = [process EXCEPT ![v] = "dead"]
    /\ UNCHANGED <<up, starts, shutDown, creating, ttl, vms, vmState, timer, child, mounts, files,
                   removed, stuck, skipped, late>>

CreateStep(v) ==
    Mount(v) \/ StartVM(v) \/ Insert(v) \/ UndoStart(v) \/ SetTTL(v) \/ SaveVM(v) \/ Finish(v)

ManagerNext ==
    \/ Shutdown \/ Exit \/ Restore
    \/ \E v \in VMs :
          \/ \E t \in {"none", "good", "bad"} : CreateVM(v, t)
          \/ CreateStep(v)
          \/ RemoveByClient(v) \/ TimerFires(v) \/ TTLExpires(v) \/ ProcessEnds(v)

ManagerSpec == ManagerInit /\ [][ManagerNext]_managerVars

-----------------------------------------------------------------------------
ManagerTypeOK ==
    /\ up \in BOOLEAN /\ starts \in 1..MaxStarts /\ shutDown \in BOOLEAN
    /\ creating \in [VMs -> Steps \cup Outcome \cup {"none"}]
    /\ ttl \in [VMs -> {"none", "good", "bad"}]
    /\ vms \subseteq VMs
    /\ vmState \in [VMs -> {"provision", "running", "stopped"}]
    /\ timer \in [VMs -> {"none", "set", "fired"}]
    /\ process \in [VMs -> {"none", "alive", "dead"}]
    /\ child \subseteq VMs /\ mounts \subseteq VMs
    /\ files \in [VMs -> {"none", "saved", "torn"}]
    /\ removed \subseteq VMs /\ stuck \subseteq VMs /\ skipped \subseteq VMs
    /\ late \in BOOLEAN

(***************************************************************************)
(* A VM for which RemoveVM or its TTL reported success is gone: its        *)
(* process has ended, its directories are gone, also after crashes, and    *)
(* no later start of the manager manages it again, although CreateVM may   *)
(* have written its file after RemoveVM deleted it.                        *)
(***************************************************************************)
RemovedIsDead == \A v \in removed : process[v] = "dead" /\ v \notin vms \cup mounts

(***************************************************************************)
(* MANAGER_MAX_VMS, "Maximum managed VM count": two concurrent CreateVM    *)
(* may both pass the first check, and restoreVMs checks nothing, yet the   *)
(* map stays within the limit over any crashes and restarts, unless a VM   *)
(* was inserted after Shutdown had emptied the map or while live VMs were  *)
(* left out of it because they could not be attached to.                   *)
(***************************************************************************)
LimitKept == MaxVMs > 0 /\ ~late => Cardinality(vms) <= MaxVMs

(***************************************************************************)
(* No live VM with a state file is forgotten by a running manager: it is   *)
(* in the map and can be removed, after any crashes, unless it could not   *)
(* be attached to or Shutdown has run.                                     *)
(***************************************************************************)
SavedVMIsManaged ==
    up /\ ~shutDown => \A v \in VMs :
        files[v] = "saved" /\ process[v] = "alive" => v \in vms \cup skipped

(***************************************************************************)
(* The TTL of a VM is not lost while the manager that created it runs: a   *)
(* live VM has its timer or the callback ahead of it, unless Stop failed   *)
(* on it (RemoveVM cancels the TTL before it tries) or Shutdown ran.       *)
(***************************************************************************)
LiveVMHasTTL ==
    up /\ ~shutDown => \A v \in child \cap vms :
        /\ ttl[v] = "good" /\ creating[v] \in {"saving", "finishing", "done"}
        /\ v \notin stuck
        => timer[v] # "none"

(***************************************************************************)
(* A VM that was created with a TTL ends, unless the manager goes down or  *)
(* a Stop of it fails.                                                     *)
(***************************************************************************)
TTLEndsVM ==
    \A v \in VMs : (creating[v] = "done" /\ ttl[v] = "good")
        ~> (process[v] = "dead" \/ ~up \/ shutDown \/ v \in stuck \/ v \notin child)

\* The VMs that are in the map, or would be in the map of the next manager.
Claiming == vms \cup {v \in VMs : process[v] = "alive" /\ (files[v] = "saved" \/ creating[v] \in {"timing", "saving"})}

(***************************************************************************)
(* The inductive strengthening of the invariants above: a VM has no        *)
(* process, entry or file before CreateVM has made it, it is in the map or *)
(* removed while CreateVM goes on with it, and the limit also holds of     *)
(* what a restart would put into the map.                                  *)
(***************************************************************************)
ManagerInv ==
    /\ ManagerTypeOK
    /\ ~up => vms = {} /\ child = {} /\ ~shutDown
    /\ \A v \in VMs :
          /\ creating[v] \in {"none", "mounting", "starting"} => process[v] = "none"
          /\ creating[v] \in {"none", "mounting", "starting", "inserting"} =>
                v \notin vms \cup removed /\ files[v] = "none"
          /\ creating[v] \in Steps => up
          /\ creating[v] \in {"timing", "saving"} /\ ~shutDown => v \in vms \cup removed
    /\ RemovedIsDead
    /\ SavedVMIsManaged
    /\ LiveVMHasTTL
    /\ MaxVMs > 0 /\ ~late => Cardinality(Claiming) <= MaxVMs
=============================================================================
