------------------------- MODULE AttestedTransport -------------------------
(***************************************************************************)
(* Attested TLS connections (pkg/atls/internal_transport, provider.go):    *)
(* clients that dial with a context, a listener whose Accept performs one  *)
(* handshake at a time and whose failure ends the server's Serve loop, and *)
(* a middlebox that terminates the TLS connection of some client and       *)
(* forwards the frames over a connection of its own.                       *)
(***************************************************************************)
EXTENDS ExportedAuthenticator

CONSTANTS
    TransportClients,
    Middlebox,          \* the middlebox's own connection to the server
    NoLink,             \* the listener serves no connection
    Machine,            \* the machine of the server, as in Evidence
    Reference,          \* the policy of the clients, as in Evidence
    MaxProviderFaults   \* bound: how often the attestation service fails

Links == TransportClients \cup {Middlebox}

\* Request contexts: the random one of each client, and the one of a request that is configured.
Contexts == TransportClients \cup {"fixed"}

VARIABLES
    fixed,          \* the clients share ClientConfig.Request; otherwise each context is random
    watched,        \* the clients whose context has no deadline: a goroutine watches it
    clientPc, ctxDone, doneClosed, watcher, deadline, fnErr, outcome,
    link, peer, request, answer,
    serverPc, serving, backlog, clientUsed, serverUsed, providerFaults,
    disturbed       \* some context ended, some service failed, or a middlebox took part

transportVars == <<fixed, watched, clientPc, ctxDone, doneClosed, watcher, deadline, fnErr, outcome, link, peer,
                   request, answer, serverPc, serving, backlog, clientUsed, serverUsed, providerFaults, disturbed>>

clientState == <<clientPc, ctxDone, doneClosed, watcher, deadline, fnErr, outcome>>
serverState == <<serverPc, serving, backlog, serverUsed, providerFaults>>
config == <<fixed, watched>>

TransportInit ==
    /\ fixed \in BOOLEAN
    /\ watched \in SUBSET TransportClients
    /\ peer \in [TransportClients -> {"server", "middlebox"}]
    /\ disturbed = (fixed \/ \E c \in TransportClients : peer[c] = "middlebox")
    /\ clientPc = [c \in TransportClients |-> "idle"]
    /\ ctxDone = [c \in TransportClients |-> FALSE]
    /\ doneClosed = [c \in TransportClients |-> FALSE]
    /\ watcher = [c \in TransportClients |-> "none"]
    /\ deadline = [c \in TransportClients |-> "clear"]
    /\ fnErr = [c \in TransportClients |-> nil]
    /\ outcome = [c \in TransportClients |-> "none"]
    /\ link = [l \in Links |-> "none"]
    /\ request = [l \in Links |-> NoRequest]
    /\ answer = [l \in Links |-> NoPayload]
    /\ serverPc = "accepting" /\ serving = NoLink /\ backlog = <<>>
    /\ clientUsed = {} /\ serverUsed = {}
    /\ providerFaults = 0
-----------------------------------------------------------------------------
(* The server. *)

\* Mutant of ConnectionState: every connection exports the same secrets.
ConnectionStateOfAny(l) == [id |-> "any", version |-> "TLS1.3", suite |-> "AES_128_GCM_SHA256"]

ConnectionState(l) == [id |-> l, version |-> "TLS1.3", suite |-> "AES_128_GCM_SHA256"]

serverKey == [name |-> "server key", type |-> "P-256"]

resolveIdentity == [certs |-> <<[name |-> "leaf", key |-> serverKey, issuer |-> "root"]>>, key |-> serverKey]

\* The leaf's extensions: evidence bound to this connection, this request's context and this leaf.
BuildLeafExtensions(conn, req, leaf) ==
    LET expected == EvidenceBinding(conn, req.context, leaf)
        carrying(fetched) ==
            IF fetched.err # nil THEN <<>>
            ELSE <<[type |-> CMW,
                    data |-> [json |-> TRUE, evidence |-> fetched.token, results |-> NoReport, exporterLabel |-> "Attestation",
                              aikPubHash |-> leaf.key.name,
                              binding |-> BindingValue(leaf.key, ExportAttestationValue(conn, req.context))]]>>
    IN carrying(GetAttestation(Machine, expected.reportData, expected.nonce, CCPlatform(Machine.devices)))

requestWith(context) ==
    [type |-> "client_certificate_request", context |-> context, extensions |-> <<"signature_algorithms", CMW>>,
     schemes |-> <<"ecdsa_p256">>]

\* Sentinels are none of the values they stand for.
ASSUME TransportAssumption ==
    /\ Middlebox \notin TransportClients /\ NoLink \notin Links
    /\ \A x \in Contexts : requestWith(x) # NoRequest
    /\ \A l \in Links, x \in Contexts : <<l, x>> # NoPayload
    /\ \A used \in SUBSET Contexts : used # NoSession

\* What the server makes of a request on a connection, with the session's used contexts.
Answer(used, l, y) ==
    LET made(exts) ==
            IF exts = <<>> THEN Refusal("no_evidence", used)
            ELSE createAuthenticator(used, ConnectionState(l), "server", requestWith(y), NoPolicy, resolveIdentity, exts)
    IN IF ~RequestPermitsCertificateExtension(requestWith(y), CMW) THEN Refusal("bad_request", used)
       ELSE made(BuildLeafExtensions(ConnectionState(l), requestWith(y), resolveIdentity.certs[1]))

\* What a client that sent request x on connection c makes of the authenticator that answers request y on connection
\* l: the state holds <<l, y>> for it.
Verdict(used, c, x, l, y) ==
    validateAuthenticator(used, ConnectionState(c), "server", requestWith(x), NoPolicy,
                          [evidence |-> Reference, results |-> NoVerifier], Answer({}, l, y).auth, {"root"})

\* Both as tables, which TLC computes once.
Answers == {[used |-> u, link |-> l, context |-> y, made |-> Answer(u, l, y)] :
              u \in SUBSET Contexts, l \in Links, y \in Contexts}

Verdicts == {[used |-> u, client |-> c, sent |-> x, read |-> <<l, y>>, checked |-> Verdict(u, c, x, l, y)] :
               u \in SUBSET Contexts, c \in TransportClients, x \in Contexts, l \in Links, y \in Contexts}

Accept ==
    /\ serverPc = "accepting" /\ backlog # <<>>
    /\ serving' = Head(backlog)
    /\ backlog' = Tail(backlog)
    /\ serverPc' = "handshaking"
    /\ UNCHANGED <<config, clientState, link, peer, request, answer, clientUsed, serverUsed, providerFaults, disturbed>>

ReadRequest ==
    /\ serverPc = "reading"
    /\ request[serving] # NoRequest
    /\ serverPc' = "building"
    /\ UNCHANGED <<config, clientState, link, peer, request, answer, serving, backlog, clientUsed, serverUsed, providerFaults, disturbed>>

\* Accept returns an error that is not temporary: Serve returns it and closes the listener.
ServeEnds ==
    /\ serverPc' = "stopped"
    /\ serving' = NoLink
    /\ backlog' = <<>>
    /\ link' = [l \in Links |-> IF l = serving \/ \E i \in DOMAIN backlog : backlog[i] = l THEN "down" ELSE link[l]]

AnswerRequest ==
    /\ serverPc = "building"
    /\ \E a \in Answers :
          /\ a.used = serverUsed /\ a.link = serving /\ a.context = request[serving].context
          /\ IF a.made.err # nil
             THEN ServeEnds /\ UNCHANGED <<answer, serverUsed>>
             ELSE /\ answer' = [answer EXCEPT ![serving] = <<serving, request[serving].context>>]
                  /\ serverUsed' = a.made.used
                  /\ serverPc' = "accepting" /\ serving' = NoLink
                  /\ UNCHANGED <<link, backlog>>
    /\ UNCHANGED <<config, clientState, peer, request, clientUsed, providerFaults, disturbed>>

ProviderFails ==
    /\ serverPc = "building"
    /\ providerFaults < MaxProviderFaults
    /\ providerFaults' = providerFaults + 1
    /\ disturbed' = TRUE
    /\ ServeEnds
    /\ UNCHANGED <<config, clientState, peer, request, answer, clientUsed, serverUsed>>

PeerGone ==
    /\ serverPc \in {"handshaking", "reading"}
    /\ link[serving] = "down"
    /\ ServeEnds
    /\ UNCHANGED <<config, clientState, peer, request, answer, clientUsed, serverUsed, providerFaults, disturbed>>
-----------------------------------------------------------------------------
(* A client: DialContextWithDialer, ClientContext and withConnContext. *)

\* A connection reaches the listener's queue, or is refused by a listener that is closed.
Connect(l) ==
    IF serverPc = "stopped"
    THEN link' = [link EXCEPT ![l] = "down"] /\ UNCHANGED backlog
    ELSE link' = [link EXCEPT ![l] = "up"] /\ backlog' = Append(backlog, l)

Dial(c) ==
    /\ clientPc[c] = "idle"
    /\ clientPc' = [clientPc EXCEPT ![c] = "handshaking"]
    /\ IF c \in watched
       THEN watcher' = [watcher EXCEPT ![c] = "selecting"] /\ UNCHANGED deadline
       ELSE deadline' = [deadline EXCEPT ![c] = "ahead"] /\ UNCHANGED watcher
    /\ IF peer[c] = "server" THEN Connect(c) ELSE link' = [link EXCEPT ![c] = "up"] /\ UNCHANGED backlog
    /\ UNCHANGED <<config, ctxDone, doneClosed, fnErr, outcome, peer, request, answer, serverPc, serving, clientUsed,
                   serverUsed, providerFaults, disturbed>>

Handshake(c) ==
    /\ clientPc[c] = "handshaking" /\ deadline[c] # "past" /\ link[c] = "up"
    /\ IF peer[c] = "server"
       THEN serverPc = "handshaking" /\ serving = c /\ serverPc' = "reading"
       ELSE UNCHANGED serverPc
    /\ clientPc' = [clientPc EXCEPT ![c] = "requesting"]
    /\ UNCHANGED <<config, ctxDone, doneClosed, watcher, deadline, fnErr, outcome, link, peer, request, answer, serving,
                   backlog, clientUsed, serverUsed, providerFaults, disturbed>>

\* Mutant of buildRequest: one random context for the process.
buildRequestOnce(c) == requestWith("fixed")

buildRequest(c) == requestWith(IF fixed THEN "fixed" ELSE c)

SendRequest(c) ==
    /\ clientPc[c] = "requesting" /\ deadline[c] # "past" /\ link[c] = "up"
    /\ request' = [request EXCEPT ![c] = buildRequest(c)]
    /\ clientPc' = [clientPc EXCEPT ![c] = "waiting"]
    /\ UNCHANGED <<config, ctxDone, doneClosed, watcher, deadline, fnErr, outcome, link, peer, answer, serverState,
                   clientUsed, disturbed>>

ReadAnswer(c) ==
    /\ clientPc[c] = "waiting" /\ deadline[c] # "past"
    /\ answer[c] # NoPayload
    /\ \E v \in Verdicts :
          /\ v.used = clientUsed /\ v.client = c /\ v.sent = request[c].context /\ v.read = answer[c]
          /\ fnErr' = [fnErr EXCEPT ![c] = v.checked.err]
          /\ clientUsed' = v.checked.used
    /\ clientPc' = [clientPc EXCEPT ![c] = "finishing"]
    /\ UNCHANGED <<config, ctxDone, doneClosed, watcher, deadline, outcome, link, peer, request, answer, serverState, disturbed>>

\* Reading or writing fails: the deadline has passed or the connection is closed; only the TLS handshake watches the
\* context itself.
ConnFails(c) ==
    /\ clientPc[c] \in {"handshaking", "requesting", "waiting"}
    /\ \/ deadline[c] = "past"
       \/ link[c] = "down" /\ (clientPc[c] = "waiting" => answer[c] = NoPayload)
       \/ clientPc[c] = "handshaking" /\ ctxDone[c]
    /\ fnErr' = [fnErr EXCEPT ![c] = "io"]
    /\ clientPc' = [clientPc EXCEPT ![c] = "finishing"]
    /\ UNCHANGED <<config, ctxDone, doneClosed, watcher, deadline, outcome, link, peer, request, answer, serverState,
                   clientUsed, disturbed>>

ReadCtxErr(c) ==
    /\ clientPc[c] = "finishing"
    /\ outcome' = [outcome EXCEPT ![c] = IF ctxDone[c] \/ fnErr[c] # nil THEN "error" ELSE "conn"]
    /\ clientPc' = [clientPc EXCEPT ![c] = IF c \in watched THEN "closing" ELSE "clearing"]
    /\ UNCHANGED <<config, ctxDone, doneClosed, watcher, deadline, fnErr, link, peer, request, answer, serverState,
                   clientUsed, disturbed>>

CloseDone(c) ==
    /\ clientPc[c] = "closing"
    /\ doneClosed' = [doneClosed EXCEPT ![c] = TRUE]
    /\ clientPc' = [clientPc EXCEPT ![c] = "clearing"]
    /\ UNCHANGED <<config, ctxDone, watcher, deadline, fnErr, outcome, link, peer, request, answer, serverState, clientUsed, disturbed>>

\* Mutant of ClearDeadline: only the deferred call of the watched branch clears the deadline.
ClearWatchedDeadline(c) ==
    /\ clientPc[c] = "clearing"
    /\ deadline' = [deadline EXCEPT ![c] = IF c \in watched THEN "clear" ELSE @]
    /\ clientPc' = [clientPc EXCEPT ![c] = "returned"]
    /\ link' = [link EXCEPT ![c] = IF outcome[c] = "error" THEN "down" ELSE @]
    /\ UNCHANGED <<config, ctxDone, doneClosed, watcher, fnErr, outcome, peer, request, answer, serverState, clientUsed, disturbed>>

\* The dialer closes a connection that was refused.
ClearDeadline(c) ==
    /\ clientPc[c] = "clearing"
    /\ deadline' = [deadline EXCEPT ![c] = "clear"]
    /\ clientPc' = [clientPc EXCEPT ![c] = "returned"]
    /\ link' = [link EXCEPT ![c] = IF outcome[c] = "error" THEN "down" ELSE @]
    /\ UNCHANGED <<config, ctxDone, doneClosed, watcher, fnErr, outcome, peer, request, answer, serverState, clientUsed, disturbed>>
-----------------------------------------------------------------------------
(* Contexts and their watchers. *)

Cancel(c) ==
    /\ clientPc[c] # "idle" /\ ~ctxDone[c]
    /\ ctxDone' = [ctxDone EXCEPT ![c] = TRUE]
    /\ disturbed' = TRUE
    /\ UNCHANGED <<config, clientPc, doneClosed, watcher, deadline, fnErr, outcome, link, peer, request, answer, serverState, clientUsed>>

\* The deadline of the context, which is the deadline of the connection while the call runs.
Expire(c) ==
    /\ c \notin watched /\ clientPc[c] # "idle" /\ (deadline[c] = "ahead" \/ ~ctxDone[c])
    /\ ctxDone' = [ctxDone EXCEPT ![c] = TRUE]
    /\ deadline' = [deadline EXCEPT ![c] = IF @ = "ahead" THEN "past" ELSE @]
    /\ disturbed' = TRUE
    /\ UNCHANGED <<config, clientPc, doneClosed, watcher, fnErr, outcome, link, peer, request, answer, serverState, clientUsed>>

WatcherSelects(c) ==
    /\ watcher[c] = "selecting"
    /\ \/ ctxDone[c] /\ watcher' = [watcher EXCEPT ![c] = "firing"]
       \/ doneClosed[c] /\ watcher' = [watcher EXCEPT ![c] = "gone"]
    /\ UNCHANGED <<config, clientPc, ctxDone, doneClosed, deadline, fnErr, outcome, link, peer, request, answer, serverState, clientUsed, disturbed>>

WatcherFires(c) ==
    /\ watcher[c] = "firing"
    /\ watcher' = [watcher EXCEPT ![c] = "gone"]
    /\ deadline' = [deadline EXCEPT ![c] = "past"]
    /\ UNCHANGED <<config, clientPc, ctxDone, doneClosed, fnErr, outcome, link, peer, request, answer, serverState, clientUsed, disturbed>>
-----------------------------------------------------------------------------
(* The middlebox forwards one client's request and the answer to it. *)

Forward(c) ==
    /\ peer[c] = "middlebox" /\ request[c] # NoRequest /\ request[Middlebox] = NoRequest
    /\ request' = [request EXCEPT ![Middlebox] = request[c]]
    /\ Connect(Middlebox)
    /\ UNCHANGED <<config, clientState, peer, answer, serverPc, serving, clientUsed, serverUsed, providerFaults, disturbed>>

MiddleboxHandshake ==
    /\ serverPc = "handshaking" /\ serving = Middlebox
    /\ serverPc' = "reading"
    /\ UNCHANGED <<config, clientState, link, peer, request, answer, serving, backlog, clientUsed, serverUsed, providerFaults, disturbed>>

ForwardAnswer(c) ==
    /\ peer[c] = "middlebox" /\ answer[c] = NoPayload /\ answer[Middlebox] # NoPayload
    /\ answer' = [answer EXCEPT ![c] = answer[Middlebox]]
    /\ UNCHANGED <<config, clientState, link, peer, request, serverState, clientUsed, disturbed>>
-----------------------------------------------------------------------------
ClientStep(c) ==
    \/ Handshake(c) \/ SendRequest(c) \/ ReadAnswer(c) \/ ConnFails(c)
    \/ ReadCtxErr(c) \/ CloseDone(c) \/ ClearDeadline(c)

ServerStep == Accept \/ ReadRequest \/ AnswerRequest \/ PeerGone

TransportNext ==
    \/ ServerStep \/ ProviderFails \/ MiddleboxHandshake
    \/ \E c \in TransportClients :
          \/ Dial(c) \/ ClientStep(c) \/ Cancel(c) \/ Expire(c) \/ WatcherSelects(c) \/ WatcherFires(c)
          \/ Forward(c) \/ ForwardAnswer(c)

TransportSpec == TransportInit /\ [][TransportNext]_transportVars
-----------------------------------------------------------------------------
\* Property (conn.go ClientContext, authenticator.go validateAuthenticator, verify.go VerifyPayload): a client whose dial
\* succeeded speaks to the attested server itself.  The authenticator of a server at the far side of a middlebox is
\* refused although the server made it, for this very request.
AcceptedIsEndToEnd ==
    \A c \in TransportClients : outcome[c] = "conn" => peer[c] = "server" /\ answer[c] # NoPayload

\* Property (session.go MarkContextUsed): clients that share a session never both succeed on the same request context,
\* whatever the order of their handshakes.
ContextUsedOnce ==
    \A c, d \in TransportClients :
        outcome[c] = "conn" /\ outcome[d] = "conn" /\ c # d => request[c].context # request[d].context

\* Property (conn.go withConnContext): a connection handed to the caller carries no deadline of the dial, unless the
\* caller's context ended: its watcher may then still set one, after the dial has cleared it.
ReturnedConnIsUsable ==
    \A c \in TransportClients :
        clientPc[c] = "returned" /\ outcome[c] = "conn" => deadline[c] = "clear" \/ ctxDone[c]

\* Property (listener.go Accept, conn.go Server and ClientContext): as long as no context ends, no service fails and no
\* middlebox takes part, every dial succeeds, one after the other through the one Accept loop.
UndisturbedDialSucceeds ==
    \A c \in TransportClients : clientPc[c] # "idle" ~> outcome[c] = "conn" \/ disturbed
=============================================================================
