----------------------------- MODULE AgentAuth -----------------------------
(***************************************************************************)
(* agent/auth/auth.go behind agent/api/grpc/interceptors.go: how the agent *)
(* decides who may upload an algorithm or a dataset and who may read a     *)
(* result or an attestation.  A caller signs role, method, time and nonce  *)
(* (pkg/sdk/agent.go); the authenticator of the running gRPC server checks *)
(* the time, then the signature, and then, under its mutex and with the    *)
(* time it reads there, that the nonce is new.  Every start of the gRPC    *)
(* server makes a new authenticator (agent/cvms/server/cvm.go).            *)
(***************************************************************************)
EXTENDS Integers, Sequences

CONSTANTS
    RpcCalls,           \* calls of the agent's API
    Signatures,         \* signed metadata: [role, method, nonce, issuedAt, signer]
    NoSignature,        \* a call without the three metadata values, or with a malformed one
    Methods,            \* the methods that calls use
    ResultConsumers,    \* the keys of the manifest's consumers, in order
    DatasetProviders,   \* the keys of its datasets, in order
    AlgorithmProvider,  \* the key of its algorithm
    SignatureAge,       \* maxSignatureAge
    FutureSkew,         \* maxSignatureFutureSkew
    MaxNow,             \* bound of the clock
    MaxServers          \* bound of the starts of the gRPC server

Roles == {"consumer", "data-provider", "algorithm-provider"}

\* AuthStreamInterceptor and AuthUnaryInterceptor: the role a method asks for.
RoleOf(method) ==
    CASE method = "Algo" -> "algorithm-provider"
      [] method = "Data" -> "data-provider"
      [] method \in {"Result", "Attestation", "IMAMeasurements", "AzureAttestationToken"} -> "consumer"

ASSUME AuthAssumption ==
    /\ \A s \in Signatures :
          s.role \in Roles /\ s.method \in Methods /\ s.issuedAt \in Nat
    /\ NoSignature \notin Signatures
    /\ \A m \in Methods : RoleOf(m) \in Roles
    /\ Len(ResultConsumers) \in Nat /\ DOMAIN ResultConsumers = 1..Len(ResultConsumers)
    /\ SignatureAge \in Nat /\ FutureSkew \in Nat
    /\ MaxNow \in Nat \ {0} /\ MaxServers \in Nat \ {0}

VARIABLES
    wallClock,      \* time.Now()
    server,         \* which start of the gRPC server is running
    seenNonces,     \* s.seenNonces: records [key, expires], one per key
    authPc,         \* where each call is
    authCall,       \* its method and metadata, until it is decided
    admissions      \* history: the calls that reached their handler

authVars == <<wallClock, server, seenNonces, authPc, authCall, admissions>>

\* key := role, method and nonce, separated by a byte none of them holds
NonceKey(s) == <<s.role, s.method, s.nonce>>

Expires(s) == s.issuedAt + SignatureAge

NoCall == [method |-> "none", sig |-> NoSignature]

\* New: no nonce has been seen yet.
AuthInit ==
    /\ wallClock = 1
    /\ server = 1
    /\ seenNonces = {}
    /\ authPc = [c \in RpcCalls |-> "idle"]
    /\ authCall = [c \in RpcCalls |-> NoCall]
    /\ admissions = {}

validateIssuedAt(issuedAt, now) ==
    issuedAt >= now - SignatureAge /\ issuedAt <= now + FutureSkew

\* The keys of the manifest that may act in a role, in the order they are tried.
KeysOf(role) ==
    CASE role = "consumer" -> ResultConsumers
      [] role = "data-provider" -> DatasetProviders
      [] role = "algorithm-provider" -> <<AlgorithmProvider>>

\* Mutant of verifySignature: the payload leaves out the method.
verifySignatureOfRole(role, method, s, key) == s.signer = key /\ s.role = role

\* The signature covers the payload of this role and this method, with the
\* time and the nonce of the metadata, and was made with this key.
verifySignature(role, method, s, key) ==
    s.signer = key /\ s.role = role /\ s.method = method

\* AuthenticateUser up to markNonce; t is the time that validateIssuedAt gets.
AuthPrecheck(method, s, t) ==
    LET role == RoleOf(method)
    IN IF s = NoSignature THEN "denied"
       ELSE IF ~validateIssuedAt(s.issuedAt, t) THEN "denied"
       ELSE IF \A i \in DOMAIN KeysOf(role) : ~verifySignature(role, method, s, KeysOf(role)[i])
            THEN "denied" ELSE "marking"

\* A call arrives at the interceptor.
Authenticate(c, method, s) ==
    LET outcome == AuthPrecheck(method, s, wallClock)
    IN /\ authPc[c] = "idle"
       /\ authPc' = [authPc EXCEPT ![c] = outcome]
       /\ authCall' = [authCall EXCEPT ![c] =
             IF outcome = "marking" THEN [method |-> method, sig |-> s] ELSE NoCall]
       /\ UNCHANGED <<wallClock, server, seenNonces, admissions>>

\* IndexToContext: the first consumer whose key verifies the signature; 0 in
\* the roles that have no index.
IndexInContext(method, s) ==
    LET verifies(i) == verifySignature("consumer", method, s, ResultConsumers[i])
    IN IF RoleOf(method) # "consumer" THEN 0
       ELSE CHOOSE i \in DOMAIN ResultConsumers : verifies(i) /\ \A j \in 1..(i-1) : ~verifies(j)

\* Mutant of markNonce: the purge drops every nonce.
markNonceForgetting(c) ==
    LET sig == authCall[c].sig
        method == authCall[c].method
    IN /\ authPc[c] = "marking"
       /\ seenNonces' = {[key |-> NonceKey(sig), expires |-> Expires(sig)]}
       /\ authPc' = [authPc EXCEPT ![c] = "admitted"]
       /\ admissions' = admissions \cup
             {[by |-> c, method |-> method, sig |-> sig, at |-> wallClock, server |-> server,
               index |-> IndexInContext(method, sig)]}
       /\ authCall' = [authCall EXCEPT ![c] = NoCall]
       /\ UNCHANGED <<wallClock, server>>

\* markNonce, under s.mu with the time it reads there, and the return to the
\* interceptor, which calls the handler.
markNonce(c) ==
    LET sig == authCall[c].sig
        method == authCall[c].method
        kept == {n \in seenNonces : n.expires > wallClock}
        known == \E n \in kept : n.key = NonceKey(sig)
    IN /\ authPc[c] = "marking"
       /\ \/ /\ known
             /\ seenNonces' = kept
             /\ authPc' = [authPc EXCEPT ![c] = "denied"]
             /\ UNCHANGED admissions
          \/ /\ ~known
             /\ seenNonces' = kept \cup {[key |-> NonceKey(sig), expires |-> Expires(sig)]}
             /\ authPc' = [authPc EXCEPT ![c] = "admitted"]
             /\ admissions' = admissions \cup
                   {[by |-> c, method |-> method, sig |-> sig, at |-> wallClock,
                     server |-> server, index |-> IndexInContext(method, sig)]}
       /\ authCall' = [authCall EXCEPT ![c] = NoCall]
       /\ UNCHANGED <<wallClock, server>>

\* agentServer.Stop waits for the calls under way (GracefulStop); the next
\* Start has a new authenticator.
NewServer ==
    /\ server < MaxServers
    /\ \A c \in RpcCalls : authPc[c] # "marking"
    /\ server' = server + 1
    /\ seenNonces' = {}
    /\ UNCHANGED <<wallClock, authPc, authCall, admissions>>

AuthTick ==
    /\ wallClock < MaxNow
    /\ wallClock' = wallClock + 1
    /\ UNCHANGED <<server, seenNonces, authPc, authCall, admissions>>

AuthNext ==
    \/ AuthTick \/ NewServer
    \/ \E c \in RpcCalls :
          \/ markNonce(c)
          \/ \E m \in Methods, s \in Signatures \cup {NoSignature} : Authenticate(c, m, s)

AuthSpec == AuthInit /\ [][AuthNext]_authVars
-----------------------------------------------------------------------------
AuthTypeOK ==
    /\ wallClock \in 1..MaxNow
    /\ server \in 1..MaxServers
    /\ \A n \in seenNonces : \E s \in Signatures : n = [key |-> NonceKey(s), expires |-> Expires(s)]
    /\ authPc \in [RpcCalls -> {"idle", "marking", "denied", "admitted"}]
    /\ authCall \in [RpcCalls -> [method : Methods, sig : Signatures] \cup {NoCall}]
    /\ \A c \in RpcCalls : (authCall[c] = NoCall) <=> (authPc[c] # "marking")
    /\ \A a \in admissions :
          /\ a.by \in RpcCalls /\ a.sig \in Signatures /\ a.method \in Methods
          /\ a.at \in 1..MaxNow /\ a.server \in 1..MaxServers

(***************************************************************************)
(* ErrReplayDetected: of two calls that one server admitted with the same  *)
(* role, method and nonce, the later one comes when the signature of the   *)
(* earlier one has reached its maximal age, although validateIssuedAt and  *)
(* markNonce read the clock at different times and the purge runs with the *)
(* time of whichever call holds the mutex.                                 *)
(***************************************************************************)
NonceOncePerServer ==
    \A a, b \in admissions :
        a.by # b.by /\ a.server = b.server /\ NonceKey(a.sig) = NonceKey(b.sig) =>
            a.at >= Expires(b.sig) \/ b.at >= Expires(a.sig)

(***************************************************************************)
(* A call that reaches its handler was signed for this very method with a  *)
(* key that the manifest gives the method's role, and the index that       *)
(* Result reads from the context points to the consumer with that key.     *)
(***************************************************************************)
AdmittedBySignerOfRole ==
    \A a \in admissions :
        LET keys == KeysOf(RoleOf(a.method))
        IN /\ a.sig.method = a.method
           /\ \E i \in DOMAIN keys : keys[i] = a.sig.signer
           /\ RoleOf(a.method) = "consumer" =>
                 a.index \in DOMAIN keys /\ keys[a.index] = a.sig.signer

(***************************************************************************)
(* The map of nonces cannot grow without bound: no entry lives longer than *)
(* the window in which a signature is accepted, counted from now.          *)
(***************************************************************************)
NoncesExpire ==
    \A n \in seenNonces : n.expires <= wallClock + FutureSkew + SignatureAge

\* Some key of the method's role verifies the signature.
Verified(method, s) ==
    LET keys == KeysOf(RoleOf(method))
    IN \E i \in DOMAIN keys : verifySignature(RoleOf(method), method, s, keys[i])

(***************************************************************************)
(* The inductive strengthening: a call that waits for the mutex holds a    *)
(* signature that was verified and whose time is not beyond the allowed    *)
(* skew, and an admission of the running server keeps its nonce in the map *)
(* until it expires.                                                       *)
(***************************************************************************)
AuthInv ==
    /\ AuthTypeOK
    /\ \A c \in RpcCalls : authPc[c] = "marking" =>
          /\ authCall[c].sig.issuedAt <= wallClock + FutureSkew
          /\ Verified(authCall[c].method, authCall[c].sig)
    /\ AdmittedBySignerOfRole
    /\ \A a \in admissions :
          /\ authPc[a.by] = "admitted"
          /\ a.server <= server
          /\ a.server = server /\ wallClock < Expires(a.sig) =>
                [key |-> NonceKey(a.sig), expires |-> Expires(a.sig)] \in seenNonces
    /\ NonceOncePerServer
    /\ NoncesExpire
=============================================================================
