---------------------------- MODULE RunHandlers ----------------------------
(***************************************************************************)
(* executeRun and handleStopComputation (agent/cvms/api/grpc/client.go),   *)
(* each in a goroutine of its own, with what they start and stop under     *)
(* client.mu: the agent's gRPC server (agent/cvms/server/cvm.go) and the   *)
(* ingress proxy (pkg/ingress/proxy.go).  executeRun answers while it      *)
(* holds the mutex that the sender of the answers needs, too.              *)
(***************************************************************************)
EXTENDS Naturals, FiniteSets

CONSTANTS
    RunRequests, StopRequests,  \* the messages of the CVMS server
    AnswerQueue,                \* capacity of messageQueue
    MaxRpcs                     \* bound of the RPCs served

ASSUME HandlersAssumption == AnswerQueue \in Nat /\ MaxRpcs \in Nat /\ RunRequests \cap StopRequests = {}

VARIABLES
    computation,    \* the agent's state: "ReceivingManifest" or "Running"
    settling,       \* InitComputation has sent its event, the state has not changed yet
    muHolder,       \* who holds client.mu; "free" when nobody does
    at,             \* where each handler is
    agentServer,    \* as.gs: "none", "serving", "draining" or "stopped"
    proxy,          \* [started, stopped, serving] of the ingress proxy
    rpcs,           \* RPCs being served, and how many there were
    served,
    answers,        \* number of messages in messageQueue
    sender,         \* handleOutgoingMessages holds a message
    answer,         \* what each handler answered: "none", "ok" or "error"
    disturbed,      \* history: handlers overlapped, one failed, or an event was lost
    noProxy         \* history: the runs whose proxy could not listen

handlerVars == <<computation, settling, muHolder, at, agentServer, proxy, rpcs, served, answers,
                 sender, answer, disturbed, noProxy>>

Handlers == RunRequests \cup StopRequests

HandlersInit ==
    /\ computation = "ReceivingManifest" /\ settling = FALSE /\ muHolder = "free"
    /\ at = [h \in Handlers |-> "waiting"]
    /\ agentServer = "none"
    /\ proxy = [started |-> FALSE, stopped |-> FALSE, serving |-> FALSE]
    /\ rpcs = 0 /\ served = 0 /\ answers = 0 /\ sender = FALSE
    /\ answer = [h \in Handlers |-> "none"]
    /\ disturbed = FALSE /\ noProxy = {}

Active(h) == at[h] \notin {"waiting", "done"}
Goes(h, from, to) == at[h] = from /\ at' = [at EXCEPT ![h] = to]

\* Process hands the message to a goroutine.
Spawn(h) ==
    /\ at[h] = "waiting"
    /\ at' = [at EXCEPT ![h] = IF h \in RunRequests THEN "checking" ELSE "stopping"]
    /\ disturbed' = (disturbed \/ \E o \in Handlers \ {h} : Active(o))
    /\ UNCHANGED <<computation, settling, muHolder, agentServer, proxy, rpcs, served, answers, sender,
                   answer, noProxy>>

\* executeRun looks at the state: another computation is not disturbed.
CheckState(r) ==
    /\ Goes(r, "checking", IF computation = "ReceivingManifest" THEN "initialising" ELSE "done")
    /\ UNCHANGED <<computation, settling, muHolder, agentServer, proxy, rpcs, served, answers, sender,
                   answer, disturbed, noProxy>>

\* svc.InitComputation: it fails in another state, or for the manifest.  Its
\* event reaches the state machine later, or is lost when no loop waits for it.
InitRun(r) ==
    /\ \/ /\ computation = "ReceivingManifest"
          /\ Goes(r, "initialising", "locking")
          /\ \/ settling' = TRUE /\ UNCHANGED disturbed
             \/ disturbed' = TRUE /\ UNCHANGED settling
       \/ Goes(r, "initialising", "done") /\ UNCHANGED <<settling, disturbed>>
    /\ UNCHANGED <<computation, muHolder, agentServer, proxy, rpcs, served, answers, sender, answer, noProxy>>

\* The state machine takes the event.
Settle ==
    /\ settling /\ settling' = FALSE
    /\ computation' = "Running"
    /\ UNCHANGED <<muHolder, at, agentServer, proxy, rpcs, served, answers, sender, answer,
                   disturbed, noProxy>>

LockMu(h) ==
    /\ muHolder = "free"
    /\ Goes(h, "locking", IF h \in RunRequests THEN "starting" ELSE "draining")
    /\ muHolder' = h
    /\ UNCHANGED <<computation, settling, agentServer, proxy, rpcs, served, answers, sender, answer, disturbed, noProxy>>

\* agentServer.Start: the authenticator or the listener may fail; the answer
\* carries the error.
StartServer(r) ==
    /\ Goes(r, "starting", "proxying")
    /\ \/ agentServer' = "serving" /\ answer' = [answer EXCEPT ![r] = "ok"]
          /\ UNCHANGED disturbed
       \/ agentServer' \in {agentServer, "none"} /\ answer' = [answer EXCEPT ![r] = "error"]
          /\ disturbed' = TRUE
    /\ UNCHANGED <<computation, settling, muHolder, proxy, rpcs, served, answers, sender, noProxy>>

\* proxyServer.Start: one that was started or stopped before refuses, which is
\* only logged; the set-up of TLS or of the listener may fail.
StartProxy(r) ==
    /\ Goes(r, "proxying", "answering")
    /\ \/ /\ ~proxy.started /\ ~proxy.stopped
          /\ proxy' = [proxy EXCEPT !.started = TRUE, !.serving = TRUE]
          /\ UNCHANGED noProxy
       \/ /\ ~proxy.started /\ ~proxy.stopped
          /\ noProxy' = noProxy \cup {r} /\ UNCHANGED proxy
       \/ (proxy.started \/ proxy.stopped) /\ UNCHANGED <<proxy, noProxy>>
    /\ UNCHANGED <<computation, settling, muHolder, agentServer, rpcs, served, answers, sender, answer, disturbed>>

\* Mutant of AnswerRun: sendMessage waits for the queue without a timeout.
AnswerRunBlocking(r) ==
    /\ Goes(r, "answering", "done") /\ muHolder' = "free"
    /\ answers < AnswerQueue /\ answers' = answers + 1
    /\ UNCHANGED <<computation, settling, agentServer, proxy, rpcs, served, sender, answer, disturbed, noProxy>>

\* sendMessage: the queue takes the answer, or it is dropped after sendTimeout.
Enqueue ==
    answers' = IF answers < AnswerQueue THEN answers + 1 ELSE answers

\* executeRun answers, and only then releases client.mu.
AnswerRun(r) ==
    /\ Goes(r, "answering", "done") /\ muHolder' = "free"
    /\ Enqueue
    /\ UNCHANGED <<computation, settling, agentServer, proxy, rpcs, served, sender, answer, disturbed, noProxy>>

\* svc.StopComputation; its error leaves the state and goes into the answer.
StopRun(s) ==
    /\ Goes(s, "stopping", "locking")
    /\ \/ /\ computation' = "ReceivingManifest" /\ settling' = FALSE
          /\ answer' = [answer EXCEPT ![s] = "ok"] /\ UNCHANGED disturbed
       \/ /\ answer' = [answer EXCEPT ![s] = "error"] /\ disturbed' = TRUE
          /\ UNCHANGED <<computation, settling>>
    /\ UNCHANGED <<muHolder, agentServer, proxy, rpcs, served, answers, sender, noProxy>>

\* Mutant of DrainServer: the server is left to the next run.
DrainNothing(s) ==
    /\ Goes(s, "draining", "waitingForRpcs")
    /\ UNCHANGED <<computation, settling, muHolder, agentServer, proxy, rpcs, served, answers, sender, answer, disturbed, noProxy>>

\* GracefulStop: the listener is closed, and the RPCs under way are waited for.
DrainServer(s) ==
    /\ Goes(s, "draining", "waitingForRpcs")
    /\ agentServer' = IF agentServer = "serving" THEN "draining" ELSE agentServer
    /\ UNCHANGED <<computation, settling, muHolder, proxy, rpcs, served, answers, sender, answer, disturbed, noProxy>>

\* proxyServer.Stop, after GracefulStop has returned, and the unlock.
StopProxy(s) ==
    /\ rpcs = 0
    /\ Goes(s, "waitingForRpcs", "answering")
    /\ agentServer' = IF agentServer = "draining" THEN "stopped" ELSE agentServer
    /\ proxy' = [proxy EXCEPT !.stopped = TRUE, !.serving = FALSE]
    /\ muHolder' = "free"
    /\ UNCHANGED <<computation, settling, rpcs, served, answers, sender, answer, disturbed, noProxy>>

AnswerStop(s) ==
    /\ Goes(s, "answering", "done")
    /\ Enqueue
    /\ UNCHANGED <<computation, settling, muHolder, agentServer, proxy, rpcs, served, sender, answer, disturbed, noProxy>>

RpcBegins ==
    /\ agentServer = "serving" /\ served < MaxRpcs
    /\ rpcs' = rpcs + 1 /\ served' = served + 1
    /\ UNCHANGED <<computation, settling, muHolder, at, agentServer, proxy, answers, sender, answer, disturbed, noProxy>>

RpcEnds ==
    /\ rpcs > 0 /\ rpcs' = rpcs - 1
    /\ UNCHANGED <<computation, settling, muHolder, at, agentServer, proxy, served, answers, sender, answer,
                   disturbed, noProxy>>

\* handleOutgoingMessages takes a message out of the queue ...
SenderTakes ==
    /\ ~sender /\ answers > 0
    /\ sender' = TRUE /\ answers' = answers - 1
    /\ UNCHANGED <<computation, settling, muHolder, at, agentServer, proxy, rpcs, served, answer, disturbed, noProxy>>

\* ... and needs client.mu to send it.
SenderSends ==
    /\ sender /\ muHolder = "free"
    /\ sender' = FALSE
    /\ UNCHANGED <<computation, settling, muHolder, at, agentServer, proxy, rpcs, served, answers, answer,
                   disturbed, noProxy>>

RunStep(r) ==
    CheckState(r) \/ InitRun(r) \/ LockMu(r) \/ StartServer(r) \/ StartProxy(r) \/ AnswerRun(r)
StopStep(s) == StopRun(s) \/ LockMu(s) \/ DrainServer(s) \/ StopProxy(s) \/ AnswerStop(s)

HandlersNext ==
    \/ \E h \in Handlers : Spawn(h)
    \/ \E r \in RunRequests : RunStep(r)
    \/ \E s \in StopRequests : StopStep(s)
    \/ Settle \/ RpcBegins \/ RpcEnds \/ SenderTakes \/ SenderSends

HandlersSpec == HandlersInit /\ [][HandlersNext]_handlerVars
-----------------------------------------------------------------------------
(***************************************************************************)
(* When the handlers ran one after another without a failure and none is   *)
(* left, the agent's gRPC server serves exactly while a computation runs.  *)
(***************************************************************************)
ServerFollowsComputation ==
    (\A h \in Handlers : ~Active(h)) /\ ~disturbed /\ ~settling => (computation = "Running" <=> agentServer = "serving")

(***************************************************************************)
(* The comment in executeRun, "Start ingress proxy if available": the      *)
(* answer to a run is sent when its proxy serves, unless the proxy could   *)
(* not listen.                                                             *)
(***************************************************************************)
RunHasIngress ==
    \A r \in RunRequests : at[r] = "answering" /\ r \notin noProxy => proxy.serving

(***************************************************************************)
(* Before the first stop a run that is answered has its ingress proxy,     *)
(* unless a proxy could not listen.                                        *)
(***************************************************************************)
FirstRunHasIngress ==
    (\A s \in StopRequests : at[s] = "waiting") => RunHasIngress

(***************************************************************************)
(* A run has its servers: the agent's gRPC server follows the computation, *)
(* and the ingress proxy is up for the first run.                          *)
(***************************************************************************)
RunHasItsServers == ServerFollowsComputation /\ FirstRunHasIngress

(***************************************************************************)
(* Every handler ends: the answer of a run is sent under the mutex that    *)
(* emptying the queue needs, so a full queue can only be left by the       *)
(* timeout of sendMessage; a stop waits for RPCs, which end.               *)
(***************************************************************************)
HandlersFinish == \A h \in Handlers : Active(h) ~> (at[h] = "done")
=============================================================================
