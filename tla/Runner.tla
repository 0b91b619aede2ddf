------------------------------- MODULE Runner -------------------------------
(***************************************************************************)
(* The computation runner (agent/runner/service/service.go) with the       *)
(* algorithm drivers (agent/algorithm).  Run tests currentAlgo under one   *)
(* lock and sets it under another; the file of the algorithm has one name  *)
(* for all runs.  Stop reaches only a registered algorithm whose process   *)
(* has been started.                                                       *)
(***************************************************************************)
EXTENDS Naturals, FiniteSets

CONSTANTS
    Jobs,           \* the calls of Run
    NoJob,
    Kinds,          \* the AlgoType of a request, "other" for an unknown one
    MaxRunnerStops  \* bound of the calls of Stop

ASSUME RunnerAssumption ==
    /\ NoJob \notin Jobs /\ MaxRunnerStops \in Nat
    /\ Kinds \subseteq {"bin", "python", "wasm", "docker", "other"}

VARIABLES
    currentAlgo,    \* s.currentAlgo
    jobAt,          \* where each Run is
    kind,           \* the AlgoType of each Run
    algoFile,       \* whose algorithm is in the file "algo"
    algoProcess,    \* the process of each Run: "none", "alive" or "dead"
    executed,       \* history: the algorithm that the process of each Run executes
    raced,          \* history: a run passed the test before another had registered or returned
    runnerStops

runnerVars == <<currentAlgo, jobAt, kind, algoFile, algoProcess, executed, raced, runnerStops>>

RunnerInit ==
    /\ currentAlgo = NoJob /\ algoFile = NoJob
    /\ jobAt = [j \in Jobs |-> "idle"]
    /\ kind \in [Jobs -> Kinds]
    /\ algoProcess = [j \in Jobs |-> "none"]
    /\ executed = [j \in Jobs |-> NoJob]
    /\ raced = FALSE /\ runnerStops = 0

JobGoes(j, from, to) == jobAt[j] = from /\ jobAt' = [jobAt EXCEPT ![j] = to]

\* Mutant of RunTest: the deferred reset is in place before the test.
RunTestDeferred(j) ==
    /\ JobGoes(j, "idle", IF currentAlgo = NoJob THEN "writing" ELSE "clearing")
    /\ raced' = (raced \/ (currentAlgo = NoJob
                           /\ \E o \in Jobs \ {j} : jobAt[o] \notin {"idle", "done"}))
    /\ UNCHANGED <<currentAlgo, kind, algoFile, algoProcess, executed, runnerStops>>

\* "computation already running", or the run goes on without the lock.
RunTest(j) ==
    /\ JobGoes(j, "idle", IF currentAlgo = NoJob THEN "writing" ELSE "done")
    /\ raced' = (raced \/ (currentAlgo = NoJob
                           /\ \E o \in Jobs \ {j} : jobAt[o] \notin {"idle", "done"}))
    /\ UNCHANGED <<currentAlgo, kind, algoFile, algoProcess, executed, runnerStops>>

\* The files of the algorithm and its requirements; an unknown type and the
\* errors return through the deferred functions.
WriteAlgorithm(j) ==
    /\ \/ kind[j] # "other" /\ JobGoes(j, "writing", "registering") /\ algoFile' = j
       \/ JobGoes(j, "writing", "clearing") /\ algoFile' \in {algoFile, j}
       \/ kind[j] \in {"python", "other"} /\ JobGoes(j, "writing", "clearing") /\ algoFile' = NoJob
    /\ UNCHANGED <<currentAlgo, kind, algoProcess, executed, raced, runnerStops>>

\* s.currentAlgo = algo
Register(j) ==
    /\ JobGoes(j, "registering", IF kind[j] = "python" THEN "settingUp" ELSE "starting")
    /\ currentAlgo' = j
    /\ UNCHANGED <<kind, algoFile, algoProcess, executed, raced, runnerStops>>

\* The virtual environment and the packages of a python algorithm.
SetUp(j) ==
    /\ JobGoes(j, "settingUp", "starting") \/ JobGoes(j, "settingUp", "removing")
    /\ UNCHANGED <<currentAlgo, kind, algoFile, algoProcess, executed, raced, runnerStops>>

\* cmd.Start, for the algorithm that is in the file now.
Started(j) ==
    /\ JobGoes(j, "starting", "running")
    /\ algoProcess' = [algoProcess EXCEPT ![j] = "alive"]
    /\ executed' = [executed EXCEPT ![j] = algoFile]
    /\ UNCHANGED <<currentAlgo, kind, algoFile, raced, runnerStops>>

NotStarted(j) ==
    /\ JobGoes(j, "starting", "removing")
    /\ UNCHANGED <<currentAlgo, kind, algoFile, algoProcess, executed, raced, runnerStops>>

\* The file is the program: without it Start fails.
RunBinary(j) == kind[j] = "bin" /\ ((algoFile # NoJob /\ Started(j)) \/ NotStarted(j))

\* The file is an argument of the interpreter and of the runtime: they start without it, too.
RunPython(j) == kind[j] = "python" /\ (Started(j) \/ NotStarted(j))

RunWasm(j) == kind[j] = "wasm" /\ (Started(j) \/ NotStarted(j))

\* ErrDockerAlgorithmDisabled
RunDocker(j) == kind[j] = "docker" /\ NotStarted(j)

AlgorithmEnds(j) ==
    /\ algoProcess[j] = "alive"
    /\ algoProcess' = [algoProcess EXCEPT ![j] = "dead"]
    /\ UNCHANGED <<currentAlgo, jobAt, kind, algoFile, executed, raced, runnerStops>>

\* cmd.Wait returns.
Wait(j) ==
    /\ algoProcess[j] = "dead" /\ JobGoes(j, "running", "removing")
    /\ UNCHANGED <<currentAlgo, kind, algoFile, algoProcess, executed, raced, runnerStops>>

\* The deferred functions: the file, then currentAlgo, whoever registered it.
RemoveAlgorithm(j) ==
    /\ JobGoes(j, "removing", "clearing")
    /\ algoFile' = NoJob
    /\ UNCHANGED <<currentAlgo, kind, algoProcess, executed, raced, runnerStops>>

ClearCurrent(j) ==
    /\ JobGoes(j, "clearing", "done")
    /\ currentAlgo' = NoJob
    /\ UNCHANGED <<kind, algoFile, algoProcess, executed, raced, runnerStops>>

\* Kill of a process that has been started.
StopProcess(j) == algoProcess' = [algoProcess EXCEPT ![j] = IF @ = "alive" THEN "dead" ELSE @]

\* Stop of the registered algorithm.
StopAlgorithm ==
    /\ runnerStops < MaxRunnerStops /\ runnerStops' = runnerStops + 1
    /\ IF currentAlgo = NoJob THEN UNCHANGED algoProcess ELSE StopProcess(currentAlgo)
    /\ UNCHANGED <<currentAlgo, jobAt, kind, algoFile, executed, raced>>

JobStep(j) ==
    \/ RunTest(j) \/ WriteAlgorithm(j) \/ Register(j) \/ SetUp(j)
    \/ RunBinary(j) \/ RunPython(j) \/ RunWasm(j) \/ RunDocker(j) \/ Wait(j) \/ RemoveAlgorithm(j) \/ ClearCurrent(j)

RunnerNext == StopAlgorithm \/ \E j \in Jobs : JobStep(j) \/ AlgorithmEnds(j)

RunnerSpec == RunnerInit /\ [][RunnerNext]_runnerVars
-----------------------------------------------------------------------------
RunnerTypeOK ==
    /\ currentAlgo \in Jobs \cup {NoJob} /\ algoFile \in Jobs \cup {NoJob}
    /\ jobAt \in [Jobs -> {"idle", "writing", "registering", "settingUp", "starting", "running", "removing",
                            "clearing", "done"}]
    /\ kind \in [Jobs -> Kinds]
    /\ algoProcess \in [Jobs -> {"none", "alive", "dead"}]
    /\ executed \in [Jobs -> Jobs \cup {NoJob}]
    /\ raced \in BOOLEAN /\ runnerStops \in 0..MaxRunnerStops

(***************************************************************************)
(* Unless a run passes the test while another has not registered yet, or   *)
(* has failed and not returned yet, runs are kept apart:                   *)
(* at most one process runs, it executes the algorithm of its own          *)
(* request, and it is the one that Stop reaches.                           *)
(***************************************************************************)
RunsAreSeparate ==
    ~raced => \A j \in Jobs : algoProcess[j] = "alive" =>
        executed[j] = j /\ currentAlgo = j /\ \A o \in Jobs \ {j} : algoProcess[o] # "alive"

(***************************************************************************)
(* The strengthening: a run that has passed the test and not returned is   *)
(* alone, and holds the file and the registration it made.                 *)
(***************************************************************************)
RunnerInv ==
    /\ RunnerTypeOK
    /\ ~raced => \A j \in Jobs :
          /\ jobAt[j] \in {"writing", "registering"} => currentAlgo = NoJob
          /\ jobAt[j] \in {"registering", "settingUp", "starting", "running", "removing"} => algoFile = j
          /\ jobAt[j] \in {"settingUp", "starting", "running", "removing"} => currentAlgo = j
          /\ jobAt[j] \notin {"idle", "done"} => \A o \in Jobs \ {j} : jobAt[o] \in {"idle", "done"}
    /\ \A j \in Jobs :
          /\ algoProcess[j] = "alive" => jobAt[j] = "running"
          /\ jobAt[j] \in {"idle", "writing", "registering", "settingUp", "starting"} =>
                algoProcess[j] = "none"
    /\ RunsAreSeparate
=============================================================================
