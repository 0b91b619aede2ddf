--------------------------- MODULE AgentService ---------------------------
(***************************************************************************)
(* agent/service.go: a computation moves through the state machine while   *)
(* API calls, the actions the machine starts (downloads and the run) and   *)
(* StopComputation work on shared fields and on files of the working       *)
(* directory.  as.mu is held over each call's body; the check of the state *)
(* before it, and most of runComputation, run without it.                  *)
(* A call that fails changes nothing unless an action here says otherwise. *)
(***************************************************************************)
EXTENDS Integers, Sequences, FiniteSets, SequencesExt

CONSTANTS
    Callers,       \* goroutines of the API and of the CVMS client
    MaxInits,      \* bound of the calls of InitComputation
    New,           \* the constructor, as the first holder of the lock
    Nobody,        \* no holder
    Manifests,     \* computations InitComputation may be given, see ManifestsOK
    Uploads,       \* [hash, name]: contents that Algo and Data may be given
    Ops,           \* the calls the callers make
    UploadsRemote, \* whether somebody uploads an algorithm that the manifest marks remote
    Faults,        \* the file accesses that may fail: "algo" (the algorithm's file), "data",
                   \* "fetch", "run" or "stop" (the directories a Stop removes)
    MaxStops,      \* bound of the calls of StopComputation
    NoState, NilEvent, NoSend,
    None,          \* nil, or no file
    Partial        \* a file that is being written

AgentStates == {"Idle", "ReceivingManifest", "ReceivingAlgorithm", "ReceivingData",
                "Running", "ConsumingResults", "Complete", "Failed"}
AgentEvents == {"Start", "ManifestReceived", "AlgorithmReceived", "DataReceived",
                "RunComplete", "ResultsConsumed", "RunFailed"}

T(from, event, to) == [from |-> from, event |-> event, to |-> to]

\* The transitions New installs.
AgentTransitions ==
    {T("Idle", "Start", "ReceivingManifest"),
     T("ReceivingManifest", "ManifestReceived", "ReceivingAlgorithm"),
     T("ReceivingAlgorithm", "RunFailed", "Failed"),
     T("ReceivingData", "RunFailed", "Failed"),
     T("Running", "RunComplete", "ConsumingResults"),
     T("Running", "RunFailed", "Failed"),
     T("ConsumingResults", "ResultsConsumed", "Complete")}

\* Mutant of ManifestTransitions: the datasets are not waited for.
ManifestTransitionsShort(ds) == {T("ReceivingAlgorithm", "AlgorithmReceived", "Running")}

\* The transitions InitComputation adds for the datasets ds.
ManifestTransitions(ds) ==
    IF ds = <<>> THEN {T("ReceivingAlgorithm", "AlgorithmReceived", "Running")}
    ELSE {T("ReceivingAlgorithm", "AlgorithmReceived", "ReceivingData"),
          T("ReceivingData", "DataReceived", "Running")}

AgentLoops == 1..(MaxStops + 1)

VARIABLES
    st, trans, gen, lpc, lchan, levent, lnext, cancelled, sending, lost, panicked,
    mu,           \* the holder of as.mu
    computation,  \* what is left of the manifest: data shrinks
    algoReceived, result, runError, resultsConsumed,
    current,      \* the loop that as.cancel ends
    algoFile,     \* the file "algo": None, Partial or the hash of its content
    datasetsDir,  \* None, or the files in it
    resultsDir,   \* whether it exists
    jpc, jrun,    \* the actions of the state machine: where each is, what it ran
    at, arg,      \* where each caller is, and the input of its call
    ran,          \* history: what the runner was called with
    inits,        \* the number of calls of InitComputation
    quiet         \* history: nothing else was under way when the last Stop began

INSTANCE StateMachine WITH
    States <- AgentStates, Events <- AgentEvents, InitialState <- "Idle",
    Transitions <- AgentTransitions, Loops <- AgentLoops, Senders <- Callers,
    MaxGen <- MaxStops

machine == <<st, trans, gen, lpc, lchan, levent, lnext, cancelled, sending, lost, panicked>>
fields == <<computation, algoReceived, result, runError, resultsConsumed>>
files == <<algoFile, datasetsDir, resultsDir>>
jobs == <<jpc, jrun, ran>>
calls == <<at, arg, inits, quiet>>
vars == <<machine, mu, fields, current, files, jobs, calls>>

JobStates == {"ReceivingAlgorithm", "ReceivingData", "Running"}

\* The zero Computation.
NoComputation == [id |-> None, algo |-> [hash |-> None, remote |-> FALSE],
                  data |-> <<>>, consumers |-> 0]

Distinct(s) == \A i, j \in DOMAIN s : i # j => s[i].name # s[j].name

ASSUME ManifestsOK ==
    /\ MaxStops \in Nat /\ MaxInits \in Nat
    /\ \A m \in Manifests : Distinct(m.data) /\ m.id # None
    /\ \A m, n \in Manifests : m.id = n.id => m = n

\* New starts the first loop, waits, sends Start and waits, as a Stop does.
Init ==
    /\ MachineInit
    /\ mu = New /\ current = 0
    /\ computation = NoComputation /\ algoReceived = FALSE
    /\ result = None /\ runError = None /\ resultsConsumed = FALSE
    /\ algoFile = None /\ datasetsDir = None /\ resultsDir = FALSE
    /\ jpc = [j \in AgentLoops \X JobStates |-> "none"]
    /\ jrun = [l \in AgentLoops |-> None] /\ ran = {}
    /\ at = [c \in Callers \cup {New} |-> IF c = New THEN "start" ELSE "idle"]
    /\ arg = [c \in Callers |-> None] /\ inits = 0 /\ quiet = TRUE

Free == mu = Nobody
Goto(c, place) == at' = [at EXCEPT ![c] = place]

\* SendEvent by a holder of as.mu: no Reset can come between its two halves.
SendEvent(e) == Offer(e) /\ UNCHANGED <<st, trans, gen, lchan, lnext, cancelled, sending, panicked>>

\* The call may be made: New has returned.  The check of the state is not locked.
Begin(c, op, allowed, x) ==
    /\ at[New] = "idle" /\ at[c] = "idle" /\ op \in Ops /\ st \in allowed
    /\ Goto(c, op) /\ arg' = [arg EXCEPT ![c] = x]
    /\ op = "init" => inits < MaxInits
    /\ inits' = IF op = "init" THEN inits + 1 ELSE inits
    /\ UNCHANGED <<machine, mu, fields, current, files, jobs, quiet>>
-----------------------------------------------------------------------------
\* InitComputation, under the lock.
InitBody(c) ==
    /\ at[c] = "init" /\ Free
    /\ computation' = arg[c]
    /\ trans' = Added(trans, ManifestTransitions(arg[c].data))
    /\ Goto(c, "initUnlocked")
    /\ UNCHANGED <<st, gen, lpc, lchan, levent, lnext, cancelled, sending, lost, panicked, mu,
                   algoReceived, result, runError, resultsConsumed, current, files, jobs, arg, inits, quiet>>

\* Its deferred SendEvent runs after the unlock.
InitSend(c) ==
    /\ \/ at[c] = "initUnlocked" /\ SendRead(c, "ManifestReceived") /\ Goto(c, "initSend")
       \/ at[c] = "initSend" /\ SendSelect(c) /\ Goto(c, "idle")
    /\ UNCHANGED <<mu, fields, current, files, jobs, arg, inits, quiet>>

\* Algo until its file is created: a mismatch of the hash or a failed download
\* ends the call.
AlgoCreate(c) ==
    /\ at[c] = "algo" /\ Free
    /\ LET algo == computation.algo
           matches == algo.remote \/ arg[c].hash = algo.hash
       IN \/ /\ algoReceived \/ algo.remote \/ ~matches \/ "algo" \in Faults
             /\ Goto(c, "idle") /\ UNCHANGED <<mu, algoFile>>
          \/ /\ ~algoReceived /\ matches
             /\ algoFile' = Partial /\ mu' = c /\ Goto(c, "algoWrite")
    /\ UNCHANGED <<machine, fields, current, datasetsDir, resultsDir, jobs, arg, inits, quiet>>

\* The rest of Algo.  Without the datasets directory the algorithm counts as
\* received, and no event is sent.
AlgoWrite(c) ==
    /\ at[c] = "algoWrite"
    /\ mu' = Nobody /\ Goto(c, "idle")
    /\ \/ "algo" \in Faults /\ UNCHANGED <<machine, fields, algoFile, datasetsDir>>
       \/ /\ algoFile' = computation.algo.hash /\ algoReceived' = TRUE
          /\ IF datasetsDir = None
             THEN datasetsDir' = {} /\ SendEvent("AlgorithmReceived")
             ELSE UNCHANGED <<machine, datasetsDir>>
          /\ UNCHANGED <<computation, result, runError, resultsConsumed>>
       \/ /\ "algo" \in Faults
          /\ algoFile' = computation.algo.hash /\ algoReceived' = TRUE
          /\ UNCHANGED <<machine, datasetsDir, computation, result, runError, resultsConsumed>>
    /\ UNCHANGED <<current, resultsDir, jobs, arg, inits, quiet>>

Stored(dir, u) == {f \in dir : f.name # u.name} \cup {[name |-> u.name, hash |-> u.hash]}

FirstWhere(s, P(_)) == CHOOSE i \in DOMAIN s : P(s[i]) /\ \A j \in 1..(i - 1) : ~P(s[j])

\* What Data works on: the first remote dataset, or what was uploaded.
DataInput(u) ==
    IF \E d \in Range(computation.data) : d.remote
    THEN computation.data[FirstWhere(computation.data, LAMBDA d : d.remote)]
    ELSE u

\* Data, under the lock.  Every error but those after the match leaves all as
\* it is; a file that was written in vain is written again.
DataBody(c) ==
    LET u == DataInput(arg[c])
        i == FirstWhere(computation.data, LAMBDA d : d.hash = u.hash)
        takes == /\ \E d \in Range(computation.data) : d.hash = u.hash
                 /\ computation.data[i].name = u.name /\ datasetsDir # None
    IN /\ at[c] = "data" /\ Free
       /\ Goto(c, "idle")
       /\ \/ /\ ~takes \/ u # arg[c] \/ "data" \in Faults
             /\ UNCHANGED <<machine, computation, datasetsDir>>
          \/ /\ takes
             /\ datasetsDir' = Stored(datasetsDir, u)
             /\ computation' = [computation EXCEPT !.data = RemoveAt(@, i)]
             /\ IF Len(computation.data) = 1 THEN SendEvent("DataReceived") ELSE UNCHANGED machine
       /\ UNCHANGED <<mu, algoReceived, result, runError, resultsConsumed, current, algoFile,
                      resultsDir, jobs, arg, inits, quiet>>

\* Mutant of ResultBody: each consumer sends the event.
ResultBodyEach(c) ==
    /\ at[c] = "result" /\ Free
    /\ Goto(c, "idle")
    /\ IF computation.consumers > 0 /\ arg[c] = "ConsumingResults"
       THEN resultsConsumed' = TRUE /\ SendEvent("ResultsConsumed")
       ELSE UNCHANGED <<machine, resultsConsumed>>
    /\ UNCHANGED <<mu, computation, algoReceived, result, runError, current, files, jobs, arg,
                   inits, quiet>>

\* Result, under the lock; arg is the state its check has seen.
ResultBody(c) ==
    /\ at[c] = "result" /\ Free
    /\ Goto(c, "idle")
    /\ IF computation.consumers > 0 /\ ~resultsConsumed /\ arg[c] = "ConsumingResults"
       THEN resultsConsumed' = TRUE /\ SendEvent("ResultsConsumed")
       ELSE UNCHANGED <<machine, resultsConsumed>>
    /\ UNCHANGED <<mu, computation, algoReceived, result, runError, current, files, jobs, arg,
                   inits, quiet>>
-----------------------------------------------------------------------------
\* No loop can move: the two sleeps of 100 ms are taken to be long enough for this.
Settled == \A l \in AgentLoops : lpc[l] \in {"none", "parked", "dead"}

\* StopComputation: the loop's context is cancelled and the runner told to stop.
StopBegin(c) ==
    /\ at[New] = "idle" /\ at[c] = "idle" /\ "stop" \in Ops /\ Free /\ current <= MaxStops
    /\ mu' = c /\ Goto(c, "clean")
    /\ Cancel(current)
    /\ quiet' = /\ Settled
                /\ \A j \in DOMAIN jpc : jpc[j] \in {"none", "done"}
                /\ \A d \in Callers : at[d] = "idle"
    /\ UNCHANGED <<fields, current, files, jobs, arg, inits>>

\* The directories and the algorithm file are removed; an error with a directory
\* ends the call, one with the file is logged.
StopClean(c) ==
    /\ at[c] = "clean"
    /\ \/ /\ datasetsDir' = None /\ resultsDir' = FALSE
          /\ algoFile' = None \/ ("algo" \in Faults /\ UNCHANGED algoFile)
          /\ Goto(c, "reset") /\ UNCHANGED mu
       \/ /\ "stop" \in Faults /\ datasetsDir' \in {datasetsDir, None}
          /\ mu' = Nobody /\ Goto(c, "idle") /\ UNCHANGED <<algoFile, resultsDir>>
    /\ UNCHANGED <<machine, fields, current, jobs, arg, inits, quiet>>

\* Mutant of StopReset: the outcome of the last computation is kept.
StopResetKeeping(c) ==
    /\ at[c] = "reset" /\ Reset
    /\ computation' = NoComputation /\ algoReceived' = FALSE
    /\ Goto(c, "start")
    /\ UNCHANGED <<mu, result, runError, resultsConsumed, current, files, jobs, arg, inits, quiet>>

\* The machine is reset and the fields of the service are cleared.
StopReset(c) ==
    /\ at[c] = "reset" /\ Reset
    /\ computation' = NoComputation /\ algoReceived' = FALSE
    /\ result' = None /\ runError' = None /\ resultsConsumed' = FALSE
    /\ Goto(c, "start")
    /\ UNCHANGED <<mu, current, files, jobs, arg, inits, quiet>>

\* A new context and a new loop under it.
StopStart(c) ==
    /\ at[c] = "start"
    /\ StartLoop(current + 1) /\ current' = current + 1
    /\ Goto(c, "sleep")
    /\ UNCHANGED <<mu, fields, files, jobs, arg, inits, quiet>>

StopSend(c) ==
    /\ at[c] = "sleep" /\ Settled
    /\ SendEvent("Start") /\ Goto(c, "settle")
    /\ UNCHANGED <<mu, fields, current, files, jobs, arg, inits, quiet>>

\* Mutant of StopReturn: the lock is not released.
StopReturnLocked(c) ==
    /\ at[c] = "settle" /\ Settled
    /\ Goto(c, "idle")
    /\ UNCHANGED <<machine, mu, fields, current, files, jobs, arg, inits, quiet>>

StopReturn(c) ==
    /\ at[c] = "settle" /\ Settled
    /\ mu' = Nobody /\ Goto(c, "idle")
    /\ UNCHANGED <<machine, fields, current, files, jobs, arg, inits, quiet>>

\* The context of a Stop is that of the CVMS stream, and ends when it breaks.
Disconnect ==
    /\ "disconnect" \in Ops /\ current > 1 /\ ~cancelled[current]
    /\ Cancel(current)
    /\ UNCHANGED <<mu, fields, current, files, jobs, calls>>
-----------------------------------------------------------------------------
\* A committed transition starts the action of its state.
LoopCommit(l) ==
    /\ Commit(l)
    /\ jpc' = IF lnext[l] \in JobStates THEN [jpc EXCEPT ![<<l, lnext[l]>>] = "start"] ELSE jpc
    /\ UNCHANGED <<mu, fields, current, files, jrun, ran, calls>>

LoopTurn(l) ==
    \/ LoopCommit(l)
    \/ (Fetch(l) \/ Select(l) \/ Handle(l)) /\ UNCHANGED <<mu, fields, current, files, jobs, calls>>

JobGoto(j, place) == jpc' = [jpc EXCEPT ![j] = place]

\* downloadAlgorithmIfRemote: nothing to do, a failure before the file exists,
\* or the file is created.
FetchAlgo(j) ==
    /\ jpc[j] = "start" /\ j[2] = "ReceivingAlgorithm" /\ Free
    /\ \/ /\ ~computation.algo.remote
          /\ JobGoto(j, "done") /\ UNCHANGED <<machine, mu, runError, algoFile>>
       \/ /\ computation.algo.remote
          /\ runError' = "download" /\ SendEvent("RunFailed")
          /\ JobGoto(j, "done") /\ UNCHANGED <<mu, algoFile>>
       \/ /\ computation.algo.remote
          /\ algoFile' = Partial /\ mu' = j
          /\ JobGoto(j, "write") /\ UNCHANGED <<machine, runError>>
    /\ UNCHANGED <<computation, algoReceived, result, resultsConsumed, current, datasetsDir,
                   resultsDir, jrun, ran, calls>>

\* The file is written, or not; the datasets directory is made, or not.
WriteAlgo(j) ==
    /\ jpc[j] = "write"
    /\ mu' = Nobody /\ JobGoto(j, "done")
    /\ \/ /\ "fetch" \in Faults
          /\ runError' = "write" /\ SendEvent("RunFailed")
          /\ UNCHANGED <<algoReceived, algoFile, datasetsDir>>
       \/ /\ algoFile' = computation.algo.hash /\ algoReceived' = TRUE
          /\ datasetsDir = None
          /\ datasetsDir' = {} /\ SendEvent("AlgorithmReceived") /\ UNCHANGED runError
       \/ /\ algoFile' = computation.algo.hash /\ algoReceived' = TRUE
          /\ "fetch" \in Faults \/ datasetsDir # None
          /\ runError' = "mkdir" /\ SendEvent("RunFailed") /\ UNCHANGED datasetsDir
    /\ UNCHANGED <<computation, result, resultsConsumed, current, resultsDir, jrun, ran, calls>>

\* downloadDatasetsIfRemote takes the remote datasets from the last to the
\* first; all those after position k are stored, and k = 0 when none fails.
FetchData(j) ==
    LET data == computation.data
        remote == {i \in DOMAIN data : data[i].remote}
        rest(k) == SelectSeq([i \in DOMAIN data |-> <<i, data[i]>>],
                             LAMBDA x : ~(x[2].remote /\ x[1] > k))
        left(k) == [i \in DOMAIN rest(k) |-> rest(k)[i][2]]
        fetched(k) == {[name |-> data[i].name, hash |-> data[i].hash] :
                          i \in {x \in remote : x > k}}
    IN /\ jpc[j] = "start" /\ j[2] = "ReceivingData" /\ Free
       /\ JobGoto(j, "done")
       /\ \/ remote = {} /\ UNCHANGED <<machine, computation, runError, datasetsDir>>
          \/ \E k \in remote \cup {0} :
                /\ remote # {}
                /\ fetched(k) # {} => datasetsDir # None
                /\ computation' = [computation EXCEPT !.data = left(k)]
                /\ datasetsDir' = IF fetched(k) = {} THEN datasetsDir
                                  ELSE {f \in datasetsDir : \A g \in fetched(k) : f.name # g.name}
                                       \cup fetched(k)
                /\ IF k # 0 THEN runError' = "download" /\ SendEvent("RunFailed")
                   ELSE /\ UNCHANGED runError
                        /\ IF left(0) = <<>> THEN SendEvent("DataReceived") ELSE UNCHANGED machine
       /\ UNCHANGED <<mu, algoReceived, result, resultsConsumed, current, algoFile, resultsDir,
                      jrun, ran, calls>>
-----------------------------------------------------------------------------
\* runComputation makes the results directory and reads the algorithm file.
RunMkdir(l) ==
    /\ jpc[<<l, "Running">>] = "start"
    /\ \/ ~resultsDir /\ resultsDir' = TRUE /\ JobGoto(<<l, "Running">>, "read")
       \/ (resultsDir \/ "run" \in Faults) /\ UNCHANGED resultsDir /\ JobGoto(<<l, "Running">>, "error")
    /\ UNCHANGED <<machine, mu, fields, current, algoFile, datasetsDir, jrun, ran, calls>>

RunRead(l) ==
    /\ jpc[<<l, "Running">>] = "read"
    /\ \/ /\ algoFile # None /\ JobGoto(<<l, "Running">>, "call")
          /\ jrun' = [jrun EXCEPT ![l] = [id |-> None, algo |-> algoFile, data |-> {}]]
       \/ (algoFile = None \/ "run" \in Faults) /\ JobGoto(<<l, "Running">>, "error") /\ UNCHANGED jrun
    /\ UNCHANGED <<machine, mu, fields, current, files, ran, calls>>

\* The call of the runner, which finds the datasets on the shared file system.
RunCall(l) ==
    LET r == [jrun[l] EXCEPT !.id = computation.id,
                             !.data = IF datasetsDir = None THEN {} ELSE datasetsDir]
    IN /\ jpc[<<l, "Running">>] = "call"
       /\ jrun' = [jrun EXCEPT ![l] = r] /\ ran' = ran \cup {r}
       /\ JobGoto(<<l, "Running">>, "running")
       /\ UNCHANGED <<machine, mu, fields, current, files, calls>>

\* The runner answers, with an error or not, and the results are zipped.
RunAnswer(l) ==
    /\ jpc[<<l, "Running">>] = "running"
    /\ \/ resultsDir /\ JobGoto(<<l, "Running">>, "store")
       \/ JobGoto(<<l, "Running">>, "error")
    /\ UNCHANGED <<machine, mu, fields, current, files, jrun, ran, calls>>

\* as.result is assigned without the lock.
RunStore(l) ==
    /\ jpc[<<l, "Running">>] = "store"
    /\ result' = jrun[l] /\ JobGoto(<<l, "Running">>, "cleanup")
    /\ UNCHANGED <<machine, mu, computation, algoReceived, runError, resultsConsumed, current, files,
                   jrun, ran, calls>>

RunError(l) ==
    /\ jpc[<<l, "Running">>] = "error" /\ Free
    /\ runError' = "run" /\ JobGoto(<<l, "Running">>, "cleanup")
    /\ UNCHANGED <<machine, mu, computation, algoReceived, result, resultsConsumed, current, files,
                   jrun, ran, calls>>

RunCleanup(l) ==
    /\ jpc[<<l, "Running">>] = "cleanup" /\ JobGoto(<<l, "Running">>, "final")
    /\ \/ datasetsDir' = None /\ resultsDir' = FALSE /\ algoFile' = None
       \/ "run" \in Faults /\ UNCHANGED files
    /\ UNCHANGED <<machine, mu, fields, current, jrun, ran, calls>>

\* Mutant of RunFinal: no event is sent.
RunFinalSilent(l) ==
    /\ jpc[<<l, "Running">>] = "final" /\ Free
    /\ JobGoto(<<l, "Running">>, "done")
    /\ UNCHANGED <<machine, mu, fields, current, files, jrun, ran, calls>>

\* The first deferred function, which runs last.
RunFinal(l) ==
    /\ jpc[<<l, "Running">>] = "final" /\ Free
    /\ SendEvent(IF runError # None THEN "RunFailed" ELSE "RunComplete")
    /\ JobGoto(<<l, "Running">>, "done")
    /\ UNCHANGED <<mu, fields, current, files, jrun, ran, calls>>

RunStep(l) ==
    \/ RunMkdir(l) \/ RunRead(l) \/ RunCall(l) \/ RunStore(l) \/ RunError(l)
    \/ RunCleanup(l) \/ RunFinal(l)

JobStep(l) ==
    \/ FetchAlgo(<<l, "ReceivingAlgorithm">>) \/ WriteAlgo(<<l, "ReceivingAlgorithm">>)
    \/ FetchData(<<l, "ReceivingData">>)
    \/ RunStep(l)

CallBegin(c) ==
    \/ \E m \in Manifests : Begin(c, "init", {"ReceivingManifest"}, m)
    \/ \E u \in Uploads : \/ /\ UploadsRemote \/ ~computation.algo.remote
                             /\ Begin(c, "algo", {"ReceivingAlgorithm"}, u)
                          \/ Begin(c, "data", {"ReceivingData"}, u)
    \/ Begin(c, "result", {"ConsumingResults", "Complete", "Failed"}, st)

CallStep(c) ==
    \/ InitBody(c) \/ InitSend(c) \/ AlgoCreate(c) \/ AlgoWrite(c) \/ DataBody(c) \/ ResultBody(c)

StopStep(c) ==
    StopClean(c) \/ StopReset(c) \/ StopStart(c) \/ StopSend(c) \/ StopReturn(c)

Next ==
    /\ ~panicked
    /\ \/ \E l \in AgentLoops : LoopTurn(l) \/ JobStep(l) \/ RunAnswer(l)
       \/ \E c \in Callers : CallBegin(c) \/ CallStep(c) \/ StopBegin(c)
       \/ \E c \in Callers \cup {New} : StopStep(c)
       \/ Disconnect

Spec == Init /\ [][Next]_vars

\* The scheduler runs every runnable goroutine.  A sync.Mutex is handed to whoever
\* has waited for a millisecond, so a waiter is not overtaken forever: strong
\* fairness.  Nothing makes a caller call or the runner answer.
Fairness ==
    /\ \A l \in AgentLoops : WF_vars(~panicked /\ LoopTurn(l)) /\ SF_vars(~panicked /\ JobStep(l))
    /\ \A c \in Callers : SF_vars(~panicked /\ CallStep(c))
    /\ \A c \in Callers \cup {New} : WF_vars(~panicked /\ StopStep(c))

FairSpec == Spec /\ Fairness
-----------------------------------------------------------------------------
\* What the manifest m asks the runner to work on.
Inputs(m) == [id |-> m.id, algo |-> m.algo.hash,
              data |-> {[name |-> d.name, hash |-> d.hash] : d \in Range(m.data)}]

(***************************************************************************)
(* The runner is only ever called with the whole computation: the          *)
(* algorithm of the manifest, completely written, and all of its datasets. *)
(***************************************************************************)
RunnerInputsComplete == \A r \in ran : \E m \in Manifests : r = Inputs(m)

(***************************************************************************)
(* Without Stop and with one source of manifests no event reaches the      *)
(* machine in a state that has no transition for it, although each call    *)
(* checks the state before it locks: handleEvent ends the loop only where  *)
(* a download has failed while an upload was under way.                    *)
(***************************************************************************)
LoopSurvives ==
    \A l \in AgentLoops : lpc[l] = "dead" =>
        runError \in {"download", "write", "mkdir"} /\ levent[l] = "DataReceived"

(***************************************************************************)
(* A run that has ended is reported: the machine leaves Running, unless    *)
(* SendEvent found no loop waiting and dropped the event.                  *)
(***************************************************************************)
RunOutcomeReported ==
    \A l \in AgentLoops :
        jpc[<<l, "Running">>] \in {"store", "error"} ~>
            \/ st \in {"ConsumingResults", "Complete", "Failed"}
            \/ lost \cap {"RunComplete", "RunFailed"} # {}

Cleared == result = None /\ runError = None /\ ~resultsConsumed

(***************************************************************************)
(* A Stop that begins while no call, action or loop is under way leaves    *)
(* the agent as New does: it waits for a manifest, with a loop to serve it *)
(* unless the context of the Stop has ended, and nothing is left over.     *)
(***************************************************************************)
QuietStopIsClean ==
    \A c \in Callers \cup {New} : at[c] = "settle" /\ Settled /\ quiet =>
        /\ Cleared /\ computation = NoComputation /\ datasetsDir = None /\ ~resultsDir
        /\ cancelled[current] \/ (st = "ReceivingManifest" /\ lpc[current] = "parked")

(***************************************************************************)
(* Every call returns: whoever waits for as.mu gets it, and the loops that *)
(* a Stop waits for come to rest.                                          *)
(***************************************************************************)
EveryCallReturns ==
    \A c \in Callers : at[c] # "idle" ~> at[c] = "idle" \/ panicked
=============================================================================
