---------------------------- MODULE AgentProofs -----------------------------
(***************************************************************************)
(* Proofs about the agent: its state machine, for any states, events,      *)
(* transitions, number of loops, senders and resets; its runner of         *)
(* computations, for any number of runs and stops and any types of         *)
(* algorithms; the handlers of its event loop that start and stop the      *)
(* servers of a run, for any requests; and its authenticator, for every    *)
(* manifest, every set of signatures and methods, every number of calls    *)
(* and server starts.                                                      *)
(***************************************************************************)
EXTENDS StateMachine, Runner, RunHandlers, AgentAuth, WellFoundedInduction, TLAPS
-----------------------------------------------------------------------------
(* The state machine. *)

\* The table holds states, whatever transitions AddTransition is given.
LEMMA AddedType ==
    ASSUME NEW table \in [States \X Events -> States \cup {NoState}],
           NEW ts \in SUBSET [from : States, event : Events, to : States]
    PROVE  Added(table, ts) \in [States \X Events -> States \cup {NoState}]
<1>1. ASSUME NEW x \in States \X Events, \E t \in ts : <<t.from, t.event>> = x
      PROVE  (CHOOSE t \in ts : <<t.from, t.event>> = x).to \in States
  <2>1. (CHOOSE t \in ts : <<t.from, t.event>> = x) \in ts
    BY <1>1, Zenon
  <2>. QED BY <2>1, Zenon
<1>. QED BY <1>1, Zenon DEF Added

\* Offering an event touches only a parked loop, which then handles it.
LEMMA OfferKeeps ==
    ASSUME MachineInv, NEW e \in Events, Offer(e), UNCHANGED <<lchan, cancelled, gen, lnext>>
    PROVE  /\ lpc' \in [Loops -> {"none", "top", "select", "parked", "handle", "commit", "dead"}]
           /\ levent' \in [Loops -> Events \cup {NilEvent}]
           /\ lost' \in SUBSET Events
           /\ ParkedIsCurrent'
           /\ \A l \in Loops : lpc'[l] = "commit" => lnext'[l] \in States
<1>1. CASE Parked = {}
  BY <1>1, Zenon DEF Offer, MachineInv, MachineTypeOK, ParkedIsCurrent
<1>2. CASE Parked # {}
  BY <1>2, Zenon DEF Offer, Parked, MachineInv, MachineTypeOK, ParkedIsCurrent
<1>. QED BY <1>1, <1>2, Zenon

\* Every start of the machine satisfies the invariant.
LEMMA MachineInitInv == MachineInit => MachineInv
<1>. SUFFICES ASSUME MachineInit PROVE MachineInv
  BY Zenon
<1>1. trans \in [States \X Events -> States \cup {NoState}]
  BY AddedType, MachineAssumption, Zenon DEF MachineInit
<1>2. st \in States /\ gen \in 0..MaxGen /\ lost \in SUBSET Events /\ panicked \in BOOLEAN
  <2>1. st \in States
    BY MachineAssumption, Zenon DEF MachineInit
  <2>2. gen \in 0..MaxGen
    BY MachineAssumption DEF MachineInit
  <2>3. lost \in SUBSET Events
    BY Zenon DEF MachineInit
  <2>4. panicked \in BOOLEAN
    BY Zenon DEF MachineInit
  <2>. QED BY <2>1, <2>2, <2>3, <2>4, Zenon
<1>3. /\ lpc \in [Loops -> {"none", "top", "select", "parked", "handle", "commit", "dead"}]
      /\ lchan \in [Loops -> 0..MaxGen]
      /\ levent \in [Loops -> Events \cup {NilEvent}]
      /\ lnext \in [Loops -> States \cup {NoState}]
      /\ cancelled \in [Loops -> BOOLEAN]
  BY MachineAssumption DEF MachineInit
<1>4. sending \in [Senders -> [event : Events, chan : 0..MaxGen] \cup {NoSend}]
  BY Zenon DEF MachineInit
<1>5. \A l \in Loops : lpc[l] = "none"
  BY Zenon DEF MachineInit
<1>. QED BY <1>1, <1>2, <1>3, <1>4, <1>5, Zenon DEF MachineInv, MachineTypeOK, ParkedIsCurrent

\* Each operation of the machine, and each step of a loop, keeps the invariant.
LEMMA MachineStep ==
    ASSUME MachineInv, [MachineNext]_smVars
    PROVE  MachineInv'
<1>. USE MachineAssumption DEF MachineInv, MachineTypeOK, ParkedIsCurrent
<1>1. CASE Reset
  BY <1>1 DEF Reset, WokenLoops, WokenEvents
<1>2. ASSUME NEW l \in Loops, StartLoop(l) PROVE MachineInv'
  BY <1>2, Zenon DEF StartLoop
<1>3. ASSUME NEW l \in Loops, LoopStep(l) PROVE MachineInv'
  <2>1. CASE Fetch(l)
    BY <2>1, Zenon DEF Fetch
  <2>2. CASE Select(l)
    BY <2>2 DEF Select
  <2>3. CASE Handle(l)
    <3>1. (IF levent[l] = NilEvent THEN NoState ELSE trans[<<st, levent[l]>>])
             \in States \cup {NoState}
      BY Zenon
    <3>. QED BY <2>3, <3>1, Zenon DEF Handle
  <2>4. CASE Commit(l)
    BY <2>4, Zenon DEF Commit
  <2>. QED BY <1>3, <2>1, <2>2, <2>3, <2>4, Zenon DEF LoopStep
<1>4. ASSUME NEW l \in Loops, Cancel(l) PROVE MachineInv'
  BY <1>4, Zenon DEF Cancel
<1>5. ASSUME NEW c \in Senders, SendSelect(c) PROVE MachineInv'
  <2>1. CASE sending[c].chan # gen
    BY <1>5, <2>1, Zenon DEF SendSelect
  <2>2. CASE sending[c].chan = gen
    <3>1. Offer(sending[c].event) /\ sending[c].event \in Events
      BY <1>5, <2>2, Zenon DEF SendSelect
    <3>2. UNCHANGED <<st, trans, gen, lchan, lnext, cancelled, panicked>>
      BY <1>5, <2>2, Zenon DEF SendSelect
    <3>3. sending' \in [Senders -> [event : Events, chan : 0..MaxGen] \cup {NoSend}]
      BY <1>5, Zenon DEF SendSelect
    <3>. QED BY <3>1, <3>2, <3>3, OfferKeeps, Zenon
  <2>. QED BY <2>1, <2>2, Zenon
<1>6. ASSUME NEW c \in Senders, NEW e \in Events, SendRead(c, e) PROVE MachineInv'
  BY <1>6, Zenon DEF SendRead, loopVars
<1>7. CASE UNCHANGED smVars
  BY <1>7, Zenon DEF smVars
<1>. QED BY <1>1, <1>2, <1>3, <1>4, <1>5, <1>6, <1>7, Zenon DEF MachineNext

(***************************************************************************)
(* The inductive invariant of the state machine holds in every behaviour.  *)
(***************************************************************************)
THEOREM MachineInvariant == MachineSpec => []MachineInv
<1>1. MachineInv /\ [MachineNext]_smVars => MachineInv'
  BY MachineStep, Zenon
<1>. QED BY <1>1, MachineInitInv, PTL DEF MachineSpec

(***************************************************************************)
(* No loop of Start waits on channels that Reset closed, or under a        *)
(* context that is done.                                                   *)
(***************************************************************************)
THEOREM WaitersAreCurrent == MachineSpec => []ParkedIsCurrent
<1>1. MachineInv => ParkedIsCurrent
  BY Zenon DEF MachineInv
<1>. QED BY <1>1, MachineInvariant, PTL

(***************************************************************************)
(* A cancelled loop takes no event but the nil one of a closed channel.    *)
(***************************************************************************)
THEOREM NoEventAfterCancel == MachineSpec => CancelledLoopTakesNoEvent
<1>. DEFINE Quiet == \A l \in Loops :
                        cancelled[l] /\ levent'[l] # levent[l] => levent'[l] = NilEvent
<1>1. MachineInv /\ [MachineNext]_smVars => [Quiet]_smVars
  <2>. SUFFICES ASSUME MachineInv, MachineNext, NEW k \in Loops,
                       cancelled[k], levent'[k] # levent[k]
                PROVE  levent'[k] = NilEvent
    BY Zenon
  <2>. USE DEF MachineInv, MachineTypeOK, ParkedIsCurrent
  <2>1. CASE Reset
    BY <2>1, Zenon DEF Reset, WokenEvents
  <2>2. ASSUME NEW l \in Loops, StartLoop(l) \/ LoopStep(l) \/ Cancel(l)
        PROVE  levent'[k] = NilEvent
    BY <2>2, Zenon DEF StartLoop, LoopStep, Fetch, Select, Handle, Commit, Cancel
  <2>3. ASSUME NEW c \in Senders, SendSelect(c) PROVE levent'[k] = NilEvent
    BY <2>3, Zenon DEF SendSelect, Offer, Parked
  <2>4. ASSUME NEW c \in Senders, NEW e \in Events, SendRead(c, e) PROVE levent'[k] = NilEvent
    BY <2>4, Zenon DEF SendRead, loopVars
  <2>. QED BY <2>1, <2>2, <2>3, <2>4, Zenon DEF MachineNext
<1>. QED BY <1>1, MachineInvariant, PTL DEF MachineSpec, CancelledLoopTakesNoEvent

-----------------------------------------------------------------------------
(* The runner. *)

LEMMA InitRunnerInv == RunnerInit => RunnerInv
<1> SUFFICES ASSUME RunnerInit PROVE RunnerInv
  BY Zenon
<1>1. raced \in BOOLEAN
  BY Zenon DEF RunnerInit
<1>2. runnerStops \in 0..MaxRunnerStops
  BY RunnerAssumption DEF RunnerInit
<1> QED
  BY <1>1, <1>2, Zenon DEF RunnerInit, RunnerInv, RunnerTypeOK, RunsAreSeparate

\* A run that passes the test while no other is under way is alone; otherwise
\* raced says so from now on.
LEMMA RunTestInv ==
    ASSUME RunnerInv, NEW j \in Jobs, RunTest(j)
    PROVE  RunnerInv'
<1>1. /\ jobAt[j] = "idle"
      /\ jobAt' = [jobAt EXCEPT ![j] = IF currentAlgo = NoJob THEN "writing" ELSE "done"]
      /\ UNCHANGED <<currentAlgo, kind, algoFile, algoProcess, executed, runnerStops>>
  BY Zenon DEF RunTest, JobGoes
<1>2. /\ raced' \in BOOLEAN
      /\ ~raced' => ~raced /\ (currentAlgo = NoJob => \A o \in Jobs \ {j} : jobAt[o] \in {"idle", "done"})
  BY Zenon DEF RunTest
<1> QED
  BY <1>1, <1>2 DEF RunnerInv, RunnerTypeOK, RunsAreSeparate

\* The other steps of a run, in their order.
LEMMA JobStepInv ==
    ASSUME RunnerInv, NEW j \in Jobs, JobStep(j)
    PROVE  RunnerInv'
<1> USE RunnerAssumption DEF RunnerInv, RunnerTypeOK, RunsAreSeparate, JobGoes
<1>1. CASE WriteAlgorithm(j)
  BY <1>1 DEF WriteAlgorithm
<1>2. CASE Register(j)
  BY <1>2 DEF Register
<1>3. CASE SetUp(j)
  BY <1>3 DEF SetUp
<1>4. CASE Started(j)
  BY <1>4 DEF Started
<1>5. CASE NotStarted(j)
  BY <1>5 DEF NotStarted
<1>6. CASE Wait(j)
  BY <1>6 DEF Wait
<1>7. CASE RemoveAlgorithm(j)
  BY <1>7 DEF RemoveAlgorithm
<1>8. CASE ClearCurrent(j)
  BY <1>8 DEF ClearCurrent
<1> HIDE DEF RunnerInv
<1> QED
  BY <1>1, <1>2, <1>3, <1>4, <1>5, <1>6, <1>7, <1>8, RunTestInv, Zenon
  DEF JobStep, RunBinary, RunPython, RunWasm, RunDocker

\* Processes end, and Stop ends the registered one.
LEMMA ProcessInv ==
    ASSUME RunnerInv, StopAlgorithm \/ \E j \in Jobs : AlgorithmEnds(j)
    PROVE  RunnerInv'
<1> USE RunnerAssumption DEF RunnerInv, RunnerTypeOK, RunsAreSeparate
<1>1. CASE StopAlgorithm
  BY <1>1 DEF StopAlgorithm, StopProcess
<1>2. ASSUME NEW j \in Jobs, AlgorithmEnds(j) PROVE RunnerInv'
  BY <1>2 DEF AlgorithmEnds
<1> QED
  BY <1>1, <1>2, Zenon

(***************************************************************************)
(* The inductive invariant of the runner: unless a run passed the test     *)
(* while another was between its test and its registration, a run under    *)
(* way is alone.                                                           *)
(***************************************************************************)
THEOREM RunnerInvariant == RunnerSpec => []RunnerInv
<1>1. RunnerInv /\ [RunnerNext]_runnerVars => RunnerInv'
  <2> SUFFICES ASSUME RunnerInv, [RunnerNext]_runnerVars PROVE RunnerInv'
    BY Zenon
  <2>1. CASE UNCHANGED runnerVars
    BY <2>1, Zenon DEF runnerVars, RunnerInv, RunnerTypeOK, RunsAreSeparate
  <2> QED
    BY <2>1, JobStepInv, ProcessInv, Zenon DEF RunnerNext
<1> QED
  BY <1>1, InitRunnerInv, PTL DEF RunnerSpec

(***************************************************************************)
(* Without such a race the one process that runs executes the algorithm of *)
(* its own request, and Stop reaches it.                                   *)
(***************************************************************************)
THEOREM SeparateRuns == RunnerSpec => []RunsAreSeparate
<1>1. RunnerInv => RunsAreSeparate
  BY Zenon DEF RunnerInv
<1> QED
  BY <1>1, RunnerInvariant, PTL

-----------------------------------------------------------------------------
(* The handlers of run and stop requests. *)

\* A computation runs, or will once the state machine has taken its event.
Begun == computation = "Running" \/ settling

\* What is so while handler h is where it is and nothing has gone wrong.
HandlerInv(h) ==
    /\ at[h] \in {"checking", "initialising", "stopping"} => (Begun <=> agentServer = "serving")
    /\ h \in RunRequests /\ at[h] \in {"locking", "starting", "proxying", "answering"} => Begun
    /\ h \in RunRequests /\ at[h] \in {"proxying", "answering"} => agentServer = "serving"
    /\ h \in StopRequests /\ at[h] \in {"locking", "draining", "waitingForRpcs", "answering"} => ~Begun
    /\ h \in StopRequests /\ at[h] \in {"waitingForRpcs", "answering"} => agentServer # "serving"

HandlersTypes ==
    /\ at \in [Handlers -> {"waiting", "checking", "initialising", "locking", "starting", "proxying", "answering",
                            "stopping", "draining", "waitingForRpcs", "done"}]
    /\ settling \in BOOLEAN /\ disturbed \in BOOLEAN
    /\ proxy \in [started : BOOLEAN, stopped : BOOLEAN, serving : BOOLEAN]

\* One handler at a time, and the server follows the computation when it is done.
OneAtATime ==
    /\ \A h, o \in Handlers : Active(h) /\ Active(o) => h = o
    /\ (\A h \in Handlers : ~Active(h)) => (Begun <=> agentServer = "serving")
    /\ \A h \in Handlers : HandlerInv(h)

\* Before the first stop nobody has stopped the proxy.
ProxyInv ==
    (\A s \in StopRequests : at[s] = "waiting") =>
        ~proxy.stopped /\ (proxy.started => proxy.serving) /\ RunHasIngress

HandlersInv == HandlersTypes /\ (~disturbed => OneAtATime) /\ ProxyInv

\* A handler that is under way moves on, alone.
LEMMA HandlerMoves ==
    ASSUME HandlersTypes, OneAtATime, NEW h \in Handlers, Active(h),
           NEW to, at' = [at EXCEPT ![h] = to], HandlerInv(h)',
           to \in {"waiting", "done"} => (Begun' <=> agentServer' = "serving")
    PROVE  OneAtATime'
<1>1. \A o \in Handlers \ {h} : ~Active(o) /\ at'[o] = at[o]
  BY Zenon DEF OneAtATime, HandlersTypes
<1>2. at'[h] = to
  BY Zenon DEF HandlersTypes
<1>3. \A o \in Handlers \ {h} : ~Active(o)' /\ HandlerInv(o)'
  BY <1>1, Zenon DEF Active, HandlerInv
<1> QED
  BY <1>2, <1>3, Zenon DEF OneAtATime, Active

\* What leaves the proxy, and those that answer, alone.
LEMMA ProxyStays ==
    ASSUME HandlersTypes, ProxyInv, NEW h \in Handlers, NEW to, at' = [at EXCEPT ![h] = to], to # "waiting",
           to # "answering", UNCHANGED <<proxy, noProxy>>
    PROVE  ProxyInv'
<1>1. \A o \in Handlers : at'[o] = IF o = h THEN to ELSE at[o]
  BY Zenon DEF HandlersTypes
<1>2. (\A s \in StopRequests : at'[s] = "waiting") => \A s \in StopRequests : at[s] = "waiting"
  BY <1>1, Zenon DEF Handlers
<1>3. RunHasIngress => RunHasIngress'
  BY <1>1, Zenon DEF RunHasIngress, Handlers
<1> QED
  BY <1>2, <1>3, Zenon DEF ProxyInv

\* A handler that begins while another is under way disturbs it.
LEMMA SpawnHandlersInv ==
    ASSUME HandlersInv, NEW h \in Handlers, Spawn(h)
    PROVE  HandlersInv'
<1> DEFINE to == IF h \in RunRequests THEN "checking" ELSE "stopping"
<1>1. /\ at[h] = "waiting" /\ at' = [at EXCEPT ![h] = to]
      /\ UNCHANGED <<computation, settling, agentServer, proxy, noProxy>>
      /\ to \in {"checking", "stopping"} /\ disturbed' \in BOOLEAN
      /\ ~disturbed' => ~disturbed /\ \A o \in Handlers \ {h} : ~Active(o)
  BY Zenon DEF Spawn, HandlersInv, HandlersTypes
<1>2. HandlersTypes'
  BY <1>1, Zenon DEF HandlersInv, HandlersTypes
<1>3. ASSUME ~disturbed' PROVE OneAtATime'
  <2>1. ~Active(h) /\ \A o \in Handlers \ {h} : ~Active(o) /\ at'[o] = at[o]
    BY <1>1, <1>3, Zenon DEF HandlersInv, HandlersTypes, Active
  <2>2. Begun <=> agentServer = "serving"
    BY <1>1, <1>3, <2>1, Zenon DEF HandlersInv, OneAtATime
  <2>3. (Begun' <=> agentServer' = "serving") /\ at'[h] \in {"checking", "stopping"}
    BY <1>1, <2>2, Zenon DEF HandlersInv, HandlersTypes, Begun
  <2>4. \A o \in Handlers \ {h} : ~Active(o)' /\ HandlerInv(o)'
    BY <2>1, Zenon DEF Active, HandlerInv
  <2>5. HandlerInv(h)'
    BY <2>3, Zenon DEF HandlerInv
  <2> QED
    BY <2>3, <2>4, <2>5, Zenon DEF OneAtATime, Active
<1>4. ProxyInv'
  BY <1>1, ProxyStays, Zenon DEF HandlersInv
<1> QED
  BY <1>2, <1>3, <1>4, Zenon DEF HandlersInv

\* A run up to the start of the agent's server.
LEMMA RunBeginsInv ==
    ASSUME HandlersInv, NEW r \in RunRequests, CheckState(r) \/ InitRun(r) \/ LockMu(r) \/ StartServer(r)
    PROVE  HandlersInv'
<1>0. r \in Handlers /\ r \notin StopRequests
  BY HandlersAssumption, Zenon DEF Handlers
<1>1. PICK to \in {"initialising", "done", "locking", "starting", "proxying"} : at' = [at EXCEPT ![r] = to]
  BY Zenon DEF CheckState, InitRun, LockMu, StartServer, Goes
<1>2. /\ Active(r) /\ UNCHANGED <<proxy, noProxy>> /\ settling' \in BOOLEAN /\ disturbed' \in BOOLEAN
      /\ at[r] \in {"checking", "initialising", "locking", "starting"}
      /\ ~disturbed' => ~disturbed
  BY Zenon DEF CheckState, InitRun, LockMu, StartServer, Goes, Active, HandlersInv, HandlersTypes
<1>3. HandlersTypes'
  BY <1>1, <1>2, Zenon DEF HandlersInv, HandlersTypes
<1>4. ASSUME ~disturbed' PROVE OneAtATime'
  <2>1. HandlersTypes /\ OneAtATime /\ HandlerInv(r) /\ at'[r] = to
    BY <1>0, <1>1, <1>2, <1>4, Zenon DEF HandlersInv, OneAtATime, HandlersTypes
  <2>2. HandlerInv(r)' /\ (to = "done" => (Begun' <=> agentServer' = "serving"))
    <3>1. CASE CheckState(r)
      BY <1>0, <1>1, <2>1, <3>1 DEF CheckState, Goes, HandlerInv, Begun
    <3>2. CASE InitRun(r)
      <4>1. at[r] = "initialising" /\ agentServer' = agentServer /\ computation' = computation
        BY <3>2, Zenon DEF InitRun, Goes
      <4>2. (to = "locking" /\ settling' = TRUE) \/ (to = "done" /\ settling' = settling)
        <5>1. \/ Goes(r, "initialising", "locking") /\ settling' = TRUE
              \/ Goes(r, "initialising", "done") /\ settling' = settling
          BY <1>4, <3>2, Zenon DEF InitRun
        <5> QED
          BY <1>0, <2>1, <5>1, Zenon DEF Goes, HandlersTypes
      <4> QED
        BY <1>0, <2>1, <4>1, <4>2 DEF HandlerInv, Begun
    <3>3. CASE LockMu(r)
      BY <1>0, <1>1, <2>1, <3>3 DEF LockMu, Goes, HandlerInv, Begun
    <3>4. CASE StartServer(r)
      BY <1>0, <1>1, <1>4, <2>1, <3>4, Zenon DEF StartServer, Goes, HandlerInv, Begun
    <3> QED
      BY <3>1, <3>2, <3>3, <3>4, Zenon
  <2> QED
    BY <1>0, <1>1, <1>2, <2>1, <2>2, HandlerMoves, Zenon
<1>5. ProxyInv'
  BY <1>0, <1>1, <1>2, ProxyStays, Zenon DEF HandlersInv
<1> QED
  BY <1>3, <1>4, <1>5, Zenon DEF HandlersInv

\* A run starts its ingress proxy, and answers.
LEMMA RunEndsInv ==
    ASSUME HandlersInv, NEW r \in RunRequests, StartProxy(r) \/ AnswerRun(r)
    PROVE  HandlersInv'
<1>0. r \in Handlers /\ r \notin StopRequests
  BY HandlersAssumption, Zenon DEF Handlers
<1>1. PICK to \in {"answering", "done"} : at' = [at EXCEPT ![r] = to]
  BY Zenon DEF StartProxy, AnswerRun, Goes
<1>2. /\ UNCHANGED <<computation, settling, agentServer, disturbed>>
      /\ at[r] \in {"proxying", "answering"} /\ Active(r)
  BY Zenon DEF StartProxy, AnswerRun, Goes, Active
<1>3. \A o \in Handlers : at'[o] = IF o = r THEN to ELSE at[o]
  BY <1>0, <1>1, Zenon DEF HandlersInv, HandlersTypes
<1>4. proxy' \in [started : BOOLEAN, stopped : BOOLEAN, serving : BOOLEAN]
  BY Zenon DEF HandlersInv, HandlersTypes, StartProxy, AnswerRun
<1>5. HandlersTypes'
  BY <1>0, <1>1, <1>2, <1>4, Zenon DEF HandlersInv, HandlersTypes
<1>6. ASSUME ~disturbed' PROVE OneAtATime'
  <2>1. HandlersTypes /\ OneAtATime /\ HandlerInv(r)
    BY <1>0, <1>2, <1>6, Zenon DEF HandlersInv, OneAtATime
  <2>2. Begun' /\ agentServer' = "serving"
    BY <1>2, <2>1, Zenon DEF HandlerInv, Begun
  <2>3. HandlerInv(r)'
    BY <1>0, <1>3, <2>2, Zenon DEF HandlerInv
  <2> QED
    BY <1>0, <1>1, <1>2, <2>1, <2>2, <2>3, HandlerMoves, Zenon
<1>7. ProxyInv'
  <2>1. SUFFICES ASSUME \A s \in StopRequests : at'[s] = "waiting"
                 PROVE  ~proxy'.stopped /\ (proxy'.started => proxy'.serving) /\ RunHasIngress'
    BY Zenon DEF ProxyInv
  <2>2. \A s \in StopRequests : at[s] = "waiting"
    BY <1>0, <1>3, <2>1, Zenon DEF Handlers
  <2>3. ~proxy.stopped /\ (proxy.started => proxy.serving) /\ RunHasIngress
    BY <2>2, Zenon DEF HandlersInv, ProxyInv
  <2>4. CASE StartProxy(r)
    <3>1. /\ ~proxy'.stopped /\ (proxy'.started => proxy'.serving)
          /\ proxy.serving => proxy'.serving
          /\ noProxy \subseteq noProxy' /\ (r \notin noProxy' => proxy'.serving)
      BY <2>3, <2>4, Zenon DEF StartProxy, HandlersInv, HandlersTypes
    <3> QED
      BY <1>3, <2>3, <3>1, Zenon DEF RunHasIngress, Handlers
  <2>5. CASE AnswerRun(r)
    <3>1. UNCHANGED <<proxy, noProxy>> /\ to = "done"
      BY <1>0, <1>3, <2>5, Zenon DEF AnswerRun, Goes, HandlersInv, HandlersTypes
    <3> QED
      BY <1>3, <2>3, <3>1, Zenon DEF RunHasIngress, Handlers
  <2> QED
    BY <2>4, <2>5, Zenon
<1> QED
  BY <1>5, <1>6, <1>7, Zenon DEF HandlersInv

\* A stop: once it is under way, the proxy is no longer that of the first run.
LEMMA StopHandlersInv ==
    ASSUME HandlersInv, NEW s \in StopRequests, StopStep(s)
    PROVE  HandlersInv'
<1>0. s \in Handlers /\ s \notin RunRequests
  BY HandlersAssumption, Zenon DEF Handlers
<1>1. PICK to \in {"locking", "draining", "waitingForRpcs", "answering", "done"} : at' = [at EXCEPT ![s] = to]
  BY <1>0, Zenon DEF StopStep, StopRun, LockMu, DrainServer, StopProxy, AnswerStop, Goes
<1>2. /\ Active(s) /\ at[s] \in {"stopping", "locking", "draining", "waitingForRpcs", "answering"}
      /\ settling' \in BOOLEAN /\ disturbed' \in BOOLEAN /\ (~disturbed' => ~disturbed)
  BY Zenon DEF StopStep, StopRun, LockMu, DrainServer, StopProxy, AnswerStop, Goes, Active, HandlersInv, HandlersTypes
<1>3. proxy' \in [started : BOOLEAN, stopped : BOOLEAN, serving : BOOLEAN]
  BY Zenon DEF HandlersInv, HandlersTypes, StopStep, StopRun, LockMu, DrainServer, StopProxy, AnswerStop
<1>4. HandlersTypes' /\ at'[s] = to
  BY <1>0, <1>1, <1>2, <1>3, Zenon DEF HandlersInv, HandlersTypes
<1>5. ASSUME ~disturbed' PROVE OneAtATime'
  <2>1. HandlersTypes /\ OneAtATime /\ HandlerInv(s)
    BY <1>0, <1>2, <1>5, Zenon DEF HandlersInv, OneAtATime
  <2>2. HandlerInv(s)' /\ (to = "done" => (Begun' <=> agentServer' = "serving"))
    <3>1. CASE StopRun(s)
      <4>1. Goes(s, "stopping", "locking") /\ computation' = "ReceivingManifest" /\ settling' = FALSE
        BY <1>5, <3>1, Zenon DEF StopRun
      <4>2. at'[s] = "locking" /\ ~Begun'
        BY <1>0, <2>1, <4>1, Zenon DEF Goes, HandlersTypes, Begun
      <4> QED
        BY <1>0, <1>4, <4>2, Zenon DEF HandlerInv
    <3>2. CASE LockMu(s)
      BY <1>0, <1>4, <2>1, <3>2, Zenon DEF LockMu, Goes, HandlerInv, Begun, HandlersTypes
    <3>3. CASE DrainServer(s)
      BY <1>0, <1>4, <2>1, <3>3, Zenon DEF DrainServer, Goes, HandlerInv, Begun, HandlersTypes
    <3>4. CASE StopProxy(s)
      BY <1>0, <1>4, <2>1, <3>4, Zenon DEF StopProxy, Goes, HandlerInv, Begun, HandlersTypes
    <3>5. CASE AnswerStop(s)
      BY <1>0, <1>4, <2>1, <3>5, Zenon DEF AnswerStop, Goes, HandlerInv, Begun, HandlersTypes
    <3> QED
      BY <3>1, <3>2, <3>3, <3>4, <3>5, Zenon DEF StopStep
  <2> QED
    BY <1>0, <1>1, <1>2, <2>1, <2>2, HandlerMoves, Zenon
<1>6. ProxyInv'
  BY <1>4, Zenon DEF ProxyInv
<1> QED
  BY <1>4, <1>5, <1>6, Zenon DEF HandlersInv

\* The state machine, RPCs and the sender move no handler.
LEMMA OthersHandlersInv ==
    ASSUME HandlersInv, Settle \/ RpcBegins \/ RpcEnds \/ SenderTakes \/ SenderSends \/ UNCHANGED handlerVars
    PROVE  HandlersInv'
<1>1. /\ UNCHANGED <<at, agentServer, proxy, noProxy, disturbed>> /\ settling' \in BOOLEAN
      /\ Begun' <=> Begun
  <2>1. CASE Settle
    BY <2>1, Zenon DEF Settle, Begun
  <2>2. CASE RpcBegins \/ RpcEnds \/ SenderTakes \/ SenderSends \/ UNCHANGED handlerVars
    <3>1. UNCHANGED <<at, agentServer, proxy, noProxy, disturbed, settling, computation>>
      BY <2>2, Zenon DEF RpcBegins, RpcEnds, SenderTakes, SenderSends, handlerVars
    <3> QED
      BY <3>1, Zenon DEF Begun, HandlersInv, HandlersTypes
  <2> QED
    BY <2>1, <2>2, Zenon
<1>2. \A h : (Active(h)' <=> Active(h)) /\ (HandlerInv(h)' <=> HandlerInv(h))
  BY <1>1, Zenon DEF Active, HandlerInv
<1>3. OneAtATime => OneAtATime'
  BY <1>1, <1>2, Zenon DEF OneAtATime
<1>4. HandlersTypes' /\ ProxyInv'
  BY <1>1, Zenon DEF HandlersInv, HandlersTypes, ProxyInv, RunHasIngress
<1> QED
  BY <1>1, <1>3, <1>4, Zenon DEF HandlersInv

(***************************************************************************)
(* The inductive invariant: while handlers come one after another, the     *)
(* server is as the place of the one under way says, and before the first  *)
(* stop the proxy that was started serves.                                 *)
(***************************************************************************)
THEOREM HandlersInvariant == HandlersSpec => []HandlersInv
<1>1. HandlersInit => HandlersInv
  <2> SUFFICES ASSUME HandlersInit PROVE HandlersInv
    BY Zenon
  <2>1. HandlersTypes /\ (\A h \in Handlers : at[h] = "waiting") /\ ~Begun /\ agentServer = "none"
    BY Zenon DEF HandlersInit, HandlersTypes, Begun
  <2>2. OneAtATime
    BY <2>1, Zenon DEF OneAtATime, HandlerInv, Active
  <2>3. ProxyInv
    BY <2>1, Zenon DEF HandlersInit, ProxyInv, RunHasIngress, Handlers
  <2> QED
    BY <2>1, <2>2, <2>3, Zenon DEF HandlersInv
<1>2. HandlersInv /\ [HandlersNext]_handlerVars => HandlersInv'
  <2> SUFFICES ASSUME HandlersInv, [HandlersNext]_handlerVars
               PROVE  HandlersInv'
    BY Zenon
  <2>1. ASSUME NEW h \in Handlers, Spawn(h) PROVE HandlersInv'
    BY <2>1, SpawnHandlersInv, Zenon
  <2>2. ASSUME NEW r \in RunRequests, RunStep(r) PROVE HandlersInv'
    BY <2>2, RunBeginsInv, RunEndsInv, Zenon DEF RunStep
  <2>3. ASSUME NEW s \in StopRequests, StopStep(s) PROVE HandlersInv'
    BY <2>3, StopHandlersInv, Zenon
  <2>4. CASE Settle \/ RpcBegins \/ RpcEnds \/ SenderTakes \/ SenderSends \/ UNCHANGED handlerVars
    BY <2>4, OthersHandlersInv, Zenon
  <2> QED
    BY <2>1, <2>2, <2>3, <2>4, Zenon DEF HandlersNext
<1> QED
  BY <1>1, <1>2, PTL DEF HandlersSpec

(***************************************************************************)
(* When requests came one after another without a failure, the agent's     *)
(* gRPC server serves exactly while a computation runs, and until the      *)
(* first stop a run that is answered has its ingress proxy (executeRun and *)
(* handleStopComputation), for any number of requests and RPCs.            *)
(***************************************************************************)
THEOREM ServersFollowRuns == HandlersSpec => []RunHasItsServers
<1>1. HandlersInv => RunHasItsServers
  <2>1. HandlersInv => ServerFollowsComputation
    BY Zenon DEF HandlersInv, OneAtATime, Begun, ServerFollowsComputation
  <2>2. HandlersInv => FirstRunHasIngress
    BY Zenon DEF HandlersInv, ProxyInv, FirstRunHasIngress
  <2> QED
    BY <2>1, <2>2, Zenon DEF RunHasItsServers
<1> QED
  BY <1>1, HandlersInvariant, PTL
-----------------------------------------------------------------------------
(* The agent's authenticator. *)

Before == {p \in Nat \X Nat : p[1] < p[2]}

\* A set of naturals that is not empty has a least element.
LEMMA LeastNatural ==
    ASSUME NEW T \in SUBSET Nat, T # {}
    PROVE  \E x \in T : \A y \in T : x <= y
<1>1. IsWellFoundedOn(Before, Nat)
  BY NatLessThanWellFounded, Zenon DEF OpToRel, Before
<1>2. PICK x \in T : \A y \in T : <<y, x>> \notin Before
  BY <1>1, WFMin, Zenon
<1>3. ASSUME NEW y \in T
      PROVE  x <= y
  <2>1. y < x => <<y, x>> \in Before
    BY Zenon DEF Before
  <2> QED
    BY <1>2, <2>1
<1> QED
  BY <1>2, <1>3, Zenon

\* The loop over the consumers ends at the first one whose key verifies.
LEMMA IndexPointsToSigner ==
    ASSUME NEW m \in Methods, NEW s \in Signatures, RoleOf(m) = "consumer", Verified(m, s)
    PROVE  /\ IndexInContext(m, s) \in DOMAIN ResultConsumers
           /\ ResultConsumers[IndexInContext(m, s)] = s.signer
<1> DEFINE verifies(i) == verifySignature("consumer", m, s, ResultConsumers[i])
           T == {i \in DOMAIN ResultConsumers : verifies(i)}
<1>1. DOMAIN ResultConsumers \subseteq Nat \ {0}
  BY AuthAssumption
<1>2. T # {} /\ T \in SUBSET Nat
  BY <1>1, Zenon DEF Verified, KeysOf
<1>3. PICK x \in T : \A y \in T : x <= y
  BY <1>2, LeastNatural, Zenon
<1>4. \A j \in 1..(x - 1) : ~verifies(j)
  BY <1>1, <1>3, AuthAssumption
<1>5. IndexInContext(m, s) =
        CHOOSE i \in DOMAIN ResultConsumers : verifies(i) /\ \A j \in 1..(i-1) : ~verifies(j)
  BY Zenon DEF IndexInContext
<1>6. IndexInContext(m, s) \in DOMAIN ResultConsumers /\ verifies(IndexInContext(m, s))
  BY <1>3, <1>4, <1>5, Zenon
<1> QED
  BY <1>6, Zenon DEF verifySignature

\* What the constants make of a signature.
LEMMA SignatureTypes ==
    ASSUME NEW s \in Signatures
    PROVE  s.issuedAt \in Nat /\ Expires(s) \in Nat /\ s # NoSignature
BY AuthAssumption DEF Expires

LEMMA InitAuthInv == AuthInit => AuthInv
BY AuthAssumption
DEF AuthInit, AuthInv, AuthTypeOK, NonceOncePerServer, NoncesExpire, AdmittedBySignerOfRole

\* A call that goes on to markNonce holds a signature whose time was within
\* the skew; nothing else changes.
LEMMA AuthenticateAuthInv ==
    ASSUME AuthInv, NEW c \in RpcCalls, NEW m \in Methods,
           NEW s \in Signatures \cup {NoSignature}, Authenticate(c, m, s)
    PROVE  AuthInv'
<1> DEFINE outcome == AuthPrecheck(m, s, wallClock)
<1>1. /\ authPc[c] = "idle"
      /\ authPc' = [authPc EXCEPT ![c] = outcome]
      /\ authCall' = [authCall EXCEPT ![c] =
            IF outcome = "marking" THEN [method |-> m, sig |-> s] ELSE NoCall]
      /\ UNCHANGED <<wallClock, server, seenNonces, admissions>>
  BY Zenon DEF Authenticate
<1>2. /\ outcome \in {"marking", "denied"}
      /\ outcome = "marking" => s \in Signatures /\ s.issuedAt <= wallClock + FutureSkew
                                 /\ Verified(m, s)
  BY Zenon DEF AuthPrecheck, validateIssuedAt, Verified
<1>3. authPc \in [RpcCalls -> {"idle", "marking", "denied", "admitted"}]
  BY Zenon DEF AuthInv, AuthTypeOK
<1>4. /\ authPc' \in [RpcCalls -> {"idle", "marking", "denied", "admitted"}]
      /\ authPc'[c] = outcome
      /\ \A d \in RpcCalls : d # c => authPc'[d] = authPc[d]
  BY <1>1, <1>2, <1>3, Zenon
<1>a. authCall \in [RpcCalls -> [method : Methods, sig : Signatures] \cup {NoCall}]
  BY Zenon DEF AuthInv, AuthTypeOK
<1>5. authCall'[c] = (IF outcome = "marking" THEN [method |-> m, sig |-> s] ELSE NoCall)
  BY <1>1, <1>a, Zenon
<1>6. \A d \in RpcCalls : d # c => authCall'[d] = authCall[d]
  BY <1>1, <1>a, Zenon
<1>7. /\ authCall' \in [RpcCalls -> [method : Methods, sig : Signatures] \cup {NoCall}]
      /\ \A d \in RpcCalls : (authCall'[d] = NoCall) <=> (authPc'[d] # "marking")
  <2>1. s \in Signatures => [method |-> m, sig |-> s] # NoCall
    BY SignatureTypes, Zenon DEF NoCall
  <2>2. authCall' \in [RpcCalls -> [method : Methods, sig : Signatures] \cup {NoCall}]
    BY <1>1, <1>2, <1>a, Zenon
  <2>3. (authCall'[c] = NoCall) <=> (authPc'[c] # "marking")
    BY <1>2, <1>4, <1>5, <2>1, Zenon
  <2> QED
    BY <1>4, <1>6, <2>2, <2>3, Zenon DEF AuthInv, AuthTypeOK
<1>8. AuthTypeOK'
  BY <1>1, <1>4, <1>7, Zenon DEF AuthInv, AuthTypeOK
<1>9. \A d \in RpcCalls : authPc'[d] = "marking" =>
          /\ authCall'[d].sig.issuedAt <= wallClock' + FutureSkew
          /\ Verified(authCall'[d].method, authCall'[d].sig)
  <2> SUFFICES ASSUME NEW d \in RpcCalls, authPc'[d] = "marking"
               PROVE  /\ authCall'[d].sig.issuedAt <= wallClock + FutureSkew
                      /\ Verified(authCall'[d].method, authCall'[d].sig)
    BY <1>1, Zenon
  <2>1. CASE d = c
    BY <1>2, <1>4, <1>5, <2>1
  <2>2. CASE d # c
    BY <1>4, <1>6, <2>2, Zenon DEF AuthInv
  <2> QED
    BY <2>1, <2>2, Zenon
<1>10. \A a \in admissions : a.by # c /\ authPc'[a.by] = "admitted"
  BY <1>1, <1>4, Zenon DEF AuthInv, AuthTypeOK
<1> QED
  BY <1>1, <1>8, <1>9, <1>10, Zenon DEF AuthInv, NonceOncePerServer, NoncesExpire, AdmittedBySignerOfRole

\* The purge under the mutex keeps the nonce of every admission that is not
\* at its expiry yet, so a nonce that is found unknown has no such admission.
LEMMA MarkAuthInv ==
    ASSUME AuthInv, NEW c \in RpcCalls, markNonce(c)
    PROVE  AuthInv'
<1> DEFINE sig == authCall[c].sig
           method == authCall[c].method
           entry == [key |-> NonceKey(sig), expires |-> Expires(sig)]
           kept == {n \in seenNonces : n.expires > wallClock}
           known == \E n \in kept : n.key = NonceKey(sig)
           new == [by |-> c, method |-> method, sig |-> sig, at |-> wallClock,
                   server |-> server, index |-> IndexInContext(method, sig)]
<1>1. /\ authPc[c] = "marking"
      /\ authCall' = [authCall EXCEPT ![c] = NoCall]
      /\ UNCHANGED <<wallClock, server>>
      /\ \/ /\ known /\ seenNonces' = kept
            /\ authPc' = [authPc EXCEPT ![c] = "denied"] /\ admissions' = admissions
         \/ /\ ~known /\ seenNonces' = kept \cup {entry}
            /\ authPc' = [authPc EXCEPT ![c] = "admitted"]
            /\ admissions' = admissions \cup {new}
  BY Zenon DEF markNonce
<1>2. /\ sig \in Signatures /\ method \in Methods /\ sig.issuedAt \in Nat
      /\ sig.issuedAt <= wallClock + FutureSkew /\ wallClock \in 1..MaxNow
      /\ server \in 1..MaxServers
  BY <1>1, SignatureTypes, Zenon DEF AuthInv, AuthTypeOK
<1>3. authPc \in [RpcCalls -> {"idle", "marking", "denied", "admitted"}]
  BY Zenon DEF AuthInv, AuthTypeOK
<1>4. /\ authPc' \in [RpcCalls -> {"idle", "marking", "denied", "admitted"}]
      /\ authPc'[c] # "marking"
      /\ \A d \in RpcCalls : d # c => authPc'[d] = authPc[d]
  BY <1>1, <1>3, Zenon
<1>a. authCall \in [RpcCalls -> [method : Methods, sig : Signatures] \cup {NoCall}]
  BY Zenon DEF AuthInv, AuthTypeOK
<1>5. authCall'[c] = NoCall /\ \A d \in RpcCalls : d # c => authCall'[d] = authCall[d]
  BY <1>1, <1>a, Zenon
<1>6. \A a \in admissions : a.by \in RpcCalls /\ a.by # c /\ a.sig \in Signatures
  BY <1>1, Zenon DEF AuthInv, AuthTypeOK
<1>7. \A a \in admissions : a.server = server /\ wallClock < Expires(a.sig) =>
          [key |-> NonceKey(a.sig), expires |-> Expires(a.sig)] \in kept
  BY Zenon DEF AuthInv
<1>8. AuthTypeOK'
  <2>1. \A n \in seenNonces' : \E s \in Signatures :
            n = [key |-> NonceKey(s), expires |-> Expires(s)]
    BY <1>1, <1>2, Zenon DEF AuthInv, AuthTypeOK
  <2>2. /\ authCall' \in [RpcCalls -> [method : Methods, sig : Signatures] \cup {NoCall}]
        /\ \A d \in RpcCalls : (authCall'[d] = NoCall) <=> (authPc'[d] # "marking")
    BY <1>1, <1>4, <1>5, <1>a DEF AuthInv, AuthTypeOK
  <2>3. \A a \in admissions' :
          /\ a.by \in RpcCalls /\ a.sig \in Signatures /\ a.method \in Methods
          /\ a.at \in 1..MaxNow /\ a.server \in 1..MaxServers
    BY <1>1, <1>2 DEF AuthInv, AuthTypeOK
  <2> QED
    BY <1>1, <1>2, <1>4, <2>1, <2>2, <2>3, Zenon DEF AuthTypeOK
<1>9. \A d \in RpcCalls : authPc'[d] = "marking" =>
          /\ authCall'[d].sig.issuedAt <= wallClock' + FutureSkew
          /\ Verified(authCall'[d].method, authCall'[d].sig)
  BY <1>1, <1>4, <1>5, Zenon DEF AuthInv
<1>10. \A a \in admissions' :
          /\ authPc'[a.by] = "admitted"
          /\ a.server <= server'
          /\ a.server = server' /\ wallClock' < Expires(a.sig) =>
                [key |-> NonceKey(a.sig), expires |-> Expires(a.sig)] \in seenNonces'
  <2> SUFFICES ASSUME NEW a \in admissions'
               PROVE  /\ authPc'[a.by] = "admitted"
                      /\ a.server <= server
                      /\ a.server = server /\ wallClock < Expires(a.sig) =>
                           [key |-> NonceKey(a.sig), expires |-> Expires(a.sig)] \in seenNonces'
    BY <1>1, Zenon
  <2>1. CASE a \in admissions
    BY <1>1, <1>4, <1>6, <1>7, <2>1, Zenon DEF AuthInv
  <2>2. CASE a = new /\ ~known
    BY <1>1, <1>2, <1>3, <2>2
  <2> QED
    BY <1>1, <2>1, <2>2, Zenon
<1>11. NonceOncePerServer'
  <2>1. ASSUME ~known, NEW a \in admissions, a.server = server,
               NonceKey(a.sig) = NonceKey(sig)
        PROVE  wallClock >= Expires(a.sig)
    <3>1. Expires(a.sig) \in Nat
      BY <1>6, SignatureTypes, Zenon
    <3>2. ~(wallClock < Expires(a.sig))
      BY <1>7, <2>1, Zenon
    <3> QED
      BY <1>2, <3>1, <3>2
  <2> SUFFICES ASSUME NEW a \in admissions', NEW b \in admissions', a.by # b.by,
                      a.server = b.server, NonceKey(a.sig) = NonceKey(b.sig)
               PROVE  a.at >= Expires(b.sig) \/ b.at >= Expires(a.sig)
    BY Zenon DEF NonceOncePerServer
  <2>2. CASE a \in admissions /\ b \in admissions
    BY <2>2, Zenon DEF AuthInv, NonceOncePerServer
  <2>3. CASE a = new /\ b \in admissions /\ ~known
    BY <2>1, <2>3, Zenon
  <2>4. CASE b = new /\ a \in admissions /\ ~known
    BY <2>1, <2>4, Zenon
  <2> QED
    BY <1>1, <2>2, <2>3, <2>4
<1>12. NoncesExpire'
  <2>1. Expires(sig) <= wallClock + FutureSkew + SignatureAge
    BY <1>2, AuthAssumption DEF Expires
  <2> QED
    BY <1>1, <2>1 DEF AuthInv, NoncesExpire
<1>13. AdmittedBySignerOfRole'
  <2>1. Verified(method, sig)
    BY <1>1, Zenon DEF AuthInv
  <2>2. /\ sig.method = method
        /\ \E i \in DOMAIN KeysOf(RoleOf(method)) : KeysOf(RoleOf(method))[i] = sig.signer
    BY <2>1, Zenon DEF Verified, verifySignature
  <2>3. RoleOf(method) = "consumer" =>
            /\ IndexInContext(method, sig) \in DOMAIN KeysOf(RoleOf(method))
            /\ KeysOf(RoleOf(method))[IndexInContext(method, sig)] = sig.signer
    BY <1>2, <2>1, IndexPointsToSigner, Zenon DEF KeysOf
  <2> QED
    BY <1>1, <2>2, <2>3 DEF AuthInv, AdmittedBySignerOfRole
<1> QED
  BY <1>8, <1>9, <1>10, <1>11, <1>12, <1>13, Zenon DEF AuthInv

\* A new server starts with no nonce, and no admission of it yet.
LEMMA NewServerAuthInv ==
    ASSUME AuthInv, NewServer
    PROVE  AuthInv'
<1>1. /\ server' = server + 1 /\ server < MaxServers /\ seenNonces' = {}
      /\ UNCHANGED <<wallClock, authPc, authCall, admissions>>
  BY Zenon DEF NewServer
<1>2. server \in 1..MaxServers /\ MaxServers \in Nat
  BY AuthAssumption, Zenon DEF AuthInv, AuthTypeOK
<1>3. AuthTypeOK'
  BY <1>1, <1>2 DEF AuthInv, AuthTypeOK
<1>4. \A a \in admissions : a.server <= server' /\ a.server # server'
  <2>1. \A a \in admissions : a.server \in 1..MaxServers /\ a.server <= server
    BY Zenon DEF AuthInv, AuthTypeOK
  <2> QED
    BY <1>1, <1>2, <2>1
<1> QED
  BY <1>1, <1>3, <1>4, Zenon DEF AuthInv, NonceOncePerServer, NoncesExpire, AdmittedBySignerOfRole

\* Time only lets signatures and nonces expire.
LEMMA AuthTickAuthInv ==
    ASSUME AuthInv, AuthTick
    PROVE  AuthInv'
<1>1. /\ wallClock' = wallClock + 1 /\ wallClock < MaxNow
      /\ UNCHANGED <<server, seenNonces, authPc, authCall, admissions>>
  BY Zenon DEF AuthTick
<1>2. wallClock \in 1..MaxNow /\ MaxNow \in Nat /\ SignatureAge \in Nat /\ FutureSkew \in Nat
  BY AuthAssumption, Zenon DEF AuthInv, AuthTypeOK
<1>3. AuthTypeOK'
  BY <1>1, <1>2 DEF AuthInv, AuthTypeOK
<1>4. \A d \in RpcCalls : authPc'[d] = "marking" =>
          /\ authCall'[d].sig.issuedAt <= wallClock' + FutureSkew
          /\ Verified(authCall'[d].method, authCall'[d].sig)
  <2> SUFFICES ASSUME NEW d \in RpcCalls, authPc[d] = "marking"
               PROVE  /\ authCall[d].sig.issuedAt <= wallClock + 1 + FutureSkew
                      /\ Verified(authCall[d].method, authCall[d].sig)
    BY <1>1, Zenon
  <2>1. /\ authCall[d].sig.issuedAt \in Nat /\ authCall[d].sig.issuedAt <= wallClock + FutureSkew
        /\ Verified(authCall[d].method, authCall[d].sig)
    BY SignatureTypes, Zenon DEF AuthInv, AuthTypeOK
  <2> QED
    BY <1>2, <2>1
<1>5. \A a \in admissions : wallClock' < Expires(a.sig) => wallClock < Expires(a.sig)
  <2> SUFFICES ASSUME NEW a \in admissions, wallClock' < Expires(a.sig)
               PROVE  wallClock < Expires(a.sig)
    BY Zenon
  <2>1. Expires(a.sig) \in Nat
    BY SignatureTypes, Zenon DEF AuthInv, AuthTypeOK
  <2> QED
    BY <1>1, <1>2, <2>1
<1>6. NoncesExpire'
  <2> SUFFICES ASSUME NEW n \in seenNonces
               PROVE  n.expires <= wallClock + 1 + FutureSkew + SignatureAge
    BY <1>1, Zenon DEF NoncesExpire
  <2>1. n.expires \in Nat
    BY SignatureTypes DEF AuthInv, AuthTypeOK
  <2>2. n.expires <= wallClock + FutureSkew + SignatureAge
    BY Zenon DEF AuthInv, NoncesExpire
  <2> QED
    BY <1>2, <2>1, <2>2
<1> QED
  BY <1>1, <1>3, <1>4, <1>5, <1>6, Zenon DEF AuthInv, NonceOncePerServer, AdmittedBySignerOfRole

\* The inductive invariant of the authenticator.
THEOREM AuthInvariant == AuthSpec => []AuthInv
<1>1. AuthInv /\ [AuthNext]_authVars => AuthInv'
  <2> SUFFICES ASSUME AuthInv, [AuthNext]_authVars
               PROVE  AuthInv'
    BY Zenon
  <2>1. CASE AuthTick
    BY <2>1, AuthTickAuthInv, Zenon
  <2>2. CASE NewServer
    BY <2>2, NewServerAuthInv, Zenon
  <2>3. ASSUME NEW c \in RpcCalls, markNonce(c)
        PROVE  AuthInv'
    BY <2>3, MarkAuthInv, Zenon
  <2>4. ASSUME NEW c \in RpcCalls, NEW m \in Methods,
               NEW s \in Signatures \cup {NoSignature}, Authenticate(c, m, s)
        PROVE  AuthInv'
    BY <2>4, AuthenticateAuthInv, Zenon
  <2>5. CASE UNCHANGED authVars
    BY <2>5, Zenon DEF AuthInv, AuthTypeOK, NonceOncePerServer, NoncesExpire, AdmittedBySignerOfRole,
               authVars
  <2> QED
    BY <2>1, <2>2, <2>3, <2>4, <2>5, Zenon DEF AuthNext
<1> QED
  BY <1>1, InitAuthInv, PTL DEF AuthSpec

\* One server admits a nonce once until the signature is at its maximal age,
\* for every manifest, number of calls and interleaving (markNonce).
THEOREM NonceUsedOnce == AuthSpec => []NonceOncePerServer
BY AuthInvariant, PTL DEF AuthInv

\* A call reaches its handler only with the signature of a key that the manifest
\* gives the method's role, and Result gets the index of that very consumer
\* (AuthenticateUser and IndexToContext), for every manifest.
THEOREM AdmissionNeedsSigner == AuthSpec => []AdmittedBySignerOfRole
BY AuthInvariant, PTL DEF AuthInv

\* seenNonces holds no entry beyond the window in which it can matter.
THEOREM NoncesAreBounded == AuthSpec => []NoncesExpire
BY AuthInvariant, PTL DEF AuthInv
=============================================================================
