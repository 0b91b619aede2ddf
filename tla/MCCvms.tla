------------------------------- MODULE MCCvms -------------------------------
(***************************************************************************)
(* The parts of the agent that serve the CVMS stream, for TLC: the outbox, *)
(* the transfer of a manifest, the handlers of run and stop requests, the  *)
(* computation runner and the calls of its API.  They share no state; the  *)
(* variable part picks the one that a behaviour is about, and the others   *)
(* rest.                                                                   *)
(***************************************************************************)
EXTENDS Outbox, ManifestTransfer, RunHandlers, Runner, AgentTransfers

VARIABLE part

mcVars == <<outboxVars, transferVars, handlerVars, runnerVars, transfersVars, part>>

CvmsInit ==
    /\ part \in {"outbox", "transfer", "handlers", "runner", "calls"}
    /\ OutboxInit /\ TransferInit /\ HandlersInit /\ RunnerInit /\ TransfersInit
    /\ part # "runner" => \A j, o \in Jobs : kind[j] = kind[o] /\ kind[j] = "bin"
    /\ part # "calls" => method = "Data" /\ caller = "sdk" /\ source = NoFiles

OutboxPart(A) == part = "outbox" /\ A /\ UNCHANGED <<transferVars, handlerVars, runnerVars, transfersVars, part>>
TransferPart(A) == part = "transfer" /\ A /\ UNCHANGED <<outboxVars, handlerVars, runnerVars, transfersVars, part>>
HandlersPart(A) == part = "handlers" /\ A /\ UNCHANGED <<outboxVars, transferVars, runnerVars, transfersVars, part>>
RunnerPart(A) == part = "runner" /\ A /\ UNCHANGED <<outboxVars, transferVars, handlerVars, transfersVars, part>>
CallsPart(A) == part = "calls" /\ A /\ UNCHANGED <<outboxVars, transferVars, handlerVars, runnerVars, part>>

CvmsNext ==
    \/ OutboxPart(OutboxNext) \/ TransferPart(TransferNext)
    \/ HandlersPart(HandlersNext) \/ RunnerPart(RunnerNext)
    \/ CallsPart(TransfersNext)

\* Goroutines that can run do run, reconnecting is tried again and again, and
\* RPCs end.
CvmsFairness ==
    /\ WF_mcVars(TransferPart(SendChunk)) /\ WF_mcVars(TransferPart(Relink))
    /\ WF_mcVars(TransferPart(ReceiveLast \/ ReceiveChunk)) /\ WF_mcVars(TransferPart(TimeoutRequest))
    /\ \A r \in RunRequests : WF_mcVars(HandlersPart(RunStep(r)))
    /\ \A s \in StopRequests : WF_mcVars(HandlersPart(StopStep(s)))
    /\ WF_mcVars(HandlersPart(RpcEnds))

CvmsSpec == CvmsInit /\ [][CvmsNext]_mcVars
CvmsFairSpec == CvmsSpec /\ CvmsFairness

(***************************************************************************)
(* The manifest that the server offers arrives, see ManifestArrives.       *)
(***************************************************************************)
OfferedManifestArrives == part = "transfer" => ManifestArrives
=============================================================================
