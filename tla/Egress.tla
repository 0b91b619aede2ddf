------------------------------- MODULE Egress -------------------------------
(***************************************************************************)
(* The egress proxy (pkg/egress): which destinations a request may reach,  *)
(* and the tunnel of a CONNECT request.  The proxy answers one request: it *)
(* checks the destination, dials it, and for CONNECT two goroutines copy   *)
(* the bytes of the client and of the destination to the other end.        *)
(***************************************************************************)
EXTENDS Naturals, FiniteSets

CONSTANTS
    Loopback,       \* the loopback addresses
    NoPort,         \* a target without a port
    NoTarget,       \* nothing is dialed
    MaxEarly,       \* bound on the bytes a client sends before it is told that the tunnel stands
    MaxBytes        \* bound on the bytes an end sends

VARIABLES
    req,            \* [method, target, scheme]; a target is [host, port]
    policy,         \* the allowlist: [hosts, hostPorts, prefixes], a prefix being the set of its addresses
    handler,        \* where the handler of the request is
    dialed,         \* the host and port that the proxy has connected to
    offered,        \* per end, the bytes it has sent
    buffered,       \* the bytes of the client that the HTTP server has read before the hijack
    passed,         \* per end, the bytes of it that were written to the other end
    copier,         \* per end, the goroutine that copies what it sends
    ended,          \* per end: "open", "finished" (its writing side is closed) or "gone"
    eof             \* the ends that were told that the other end has finished

egressVars == <<req, policy, handler, dialed, offered, buffered, passed, copier, ended, eof>>

Ends == {"client", "destination"}
Other(e) == IF e = "client" THEN "destination" ELSE "client"
-----------------------------------------------------------------------------
(* The destination. *)

newDestinationPolicy(entries) ==
    [prefixes |-> {entry.addresses : entry \in {x \in entries : x.kind = "prefix"}},
     hostPorts |-> {<<entry.host, entry.port>> : entry \in {x \in entries : x.kind = "hostport"}},
     hosts |-> {entry.host : entry \in {x \in entries : x.kind = "host"}}]

allowed(rules, host, port) ==
    \/ host = "localhost"
    \/ <<host, port>> \in rules.hostPorts
    \/ host \in rules.hosts
    \/ host \in Loopback
    \/ \E prefix \in rules.prefixes : host \in prefix

\* Mutant of defaultPort: every request without a port is checked as one for port 80.
defaultPort80(scheme) == 80

defaultPort(scheme) == IF scheme = "https" THEN 443 ELSE 80

destinationParts(target, scheme) ==
    <<target.host, IF target.port = NoPort THEN defaultPort(scheme) ELSE target.port>>

allowDestination(target, scheme) ==
    /\ target # NoTarget
    /\ LET parts == destinationParts(target, scheme) IN allowed(policy, parts[1], parts[2])

\* A request names its destination in its URL, or in its Host field.
outboundURL(r) == [target |-> r.target, scheme |-> IF r.scheme = "" THEN "http" ELSE r.scheme]

\* net: a TCP address needs its port.  net/http: the transport knows two schemes and their ports.
Reached(target, scheme) ==
    IF target.port # NoPort THEN <<target.host, target.port>>
    ELSE CASE scheme = "http" -> <<target.host, 80>> [] scheme = "https" -> <<target.host, 443>> [] OTHER -> NoTarget

EgressInit ==
    /\ handler = "start" /\ dialed = NoTarget
    /\ offered = [e \in Ends |-> 0] /\ passed = [e \in Ends |-> 0] /\ buffered = 0
    /\ copier = [e \in Ends |-> "none"] /\ ended = [e \in Ends |-> "open"] /\ eof = {}

Answer(state, destination) ==
    /\ handler' = state /\ dialed' = destination
    /\ UNCHANGED <<req, policy, offered, buffered, passed, copier, ended, eof>>

handleConnect ==
    /\ handler = "start" /\ req.method = "CONNECT"
    /\ IF ~allowDestination(req.target, "https") THEN Answer("forbidden", NoTarget)
       ELSE \/ Answer("unavailable", NoTarget)
            \/ req.target.port # NoPort /\ Answer("dialed", Reached(req.target, ""))

handleHTTP ==
    LET url == outboundURL(req)
    IN /\ handler = "start" /\ req.method = "GET"
       /\ IF ~allowDestination(url.target, url.scheme) THEN Answer("forbidden", NoTarget)
          ELSE \/ Answer("bad gateway", NoTarget)
               \/ Reached(url.target, url.scheme) # NoTarget /\ Answer("answered", Reached(url.target, url.scheme))

\* The reverse proxy changes where the request goes to the URL that was checked.
handleHTTP2 ==
    LET url == outboundURL(req)
    IN /\ handler = "start" /\ req.method = "GET2"
       /\ IF ~allowDestination(url.target, url.scheme) THEN Answer("forbidden", NoTarget)
          ELSE \/ Answer("bad gateway", NoTarget)
               \/ Reached(url.target, url.scheme) # NoTarget /\ Answer("answered", Reached(url.target, url.scheme))
-----------------------------------------------------------------------------
(* The tunnel. *)

\* The proxy takes the connection over; what the server has read of it is dropped with its buffer.  A connection that
\* cannot be taken over ends the handler.
Hijack ==
    /\ handler = "dialed"
    /\ \/ handler' = "hijacked" /\ buffered' \in 0..offered["client"]
       \/ handler' = "failed" /\ UNCHANGED buffered
    /\ UNCHANGED <<req, policy, dialed, offered, passed, copier, ended, eof>>

Establish ==
    /\ handler = "hijacked"
    /\ IF ended["client"] = "gone" THEN handler' = "closed" /\ UNCHANGED copier
       ELSE handler' = "piping" /\ copier' = [e \in Ends |-> "copying"]
    /\ UNCHANGED <<req, policy, dialed, offered, buffered, passed, ended, eof>>

\* A client that does not wait may send at once.
Offer(e) ==
    /\ handler \in {"dialed", "hijacked", "piping"} /\ ended[e] = "open"
    /\ offered[e] < IF handler = "piping" THEN MaxBytes ELSE IF e = "client" THEN MaxEarly ELSE 0
    /\ offered' = [offered EXCEPT ![e] = @ + 1]
    /\ UNCHANGED <<req, policy, handler, dialed, buffered, passed, copier, ended, eof>>

EndCloses(e) ==
    /\ handler \in {"dialed", "hijacked", "piping"} /\ ended[e] # "gone"
    /\ \E how \in {"finished", "gone"} : ended[e] # how /\ ended' = [ended EXCEPT ![e] = how]
    /\ UNCHANGED <<req, policy, handler, dialed, offered, buffered, passed, copier, eof>>

Dropped(e) == IF e = "client" THEN buffered ELSE 0

\* io.Copy moves bytes until the end of what the source sends, or until one of the two connections fails.
CopyBytes(e) ==
    /\ handler = "piping" /\ copier[e] = "copying"
    /\ \/ /\ passed[e] + Dropped(e) < offered[e] /\ ended[Other(e)] # "gone"
          /\ passed' = [passed EXCEPT ![e] = @ + 1] /\ UNCHANGED copier
       \/ /\ \/ ended[e] = "gone"
             \/ passed[e] + Dropped(e) < offered[e] /\ ended[Other(e)] = "gone"
             \/ passed[e] + Dropped(e) = offered[e] /\ ended[e] = "finished"
          /\ copier' = [copier EXCEPT ![e] = "closing"] /\ UNCHANGED passed
    /\ UNCHANGED <<req, policy, handler, dialed, offered, buffered, ended, eof>>

CloseWrite(e) ==
    /\ handler = "piping" /\ copier[e] = "closing"
    /\ copier' = [copier EXCEPT ![e] = "done"]
    /\ eof' = eof \cup {Other(e)}
    /\ UNCHANGED <<req, policy, handler, dialed, offered, buffered, passed, ended>>

\* Mutant of ReturnConnect: the handler returns when the first direction has ended.
ReturnFirstEnded ==
    /\ handler = "piping" /\ \E e \in Ends : copier[e] = "done"
    /\ handler' = "closed" /\ eof' = Ends
    /\ UNCHANGED <<req, policy, dialed, offered, buffered, passed, copier, ended>>

\* The wait group, and the deferred closing of both connections.
ReturnConnect ==
    /\ handler = "piping" /\ \A e \in Ends : copier[e] = "done"
    /\ handler' = "closed" /\ eof' = Ends
    /\ UNCHANGED <<req, policy, dialed, offered, buffered, passed, copier, ended>>

PipeStep(e) == CopyBytes(e) \/ CloseWrite(e)

EgressNext ==
    \/ handleConnect \/ handleHTTP \/ handleHTTP2 \/ Hijack \/ Establish \/ ReturnConnect
    \/ \E e \in Ends : Offer(e) \/ EndCloses(e) \/ PipeStep(e)

EgressSpec == EgressInit /\ [][EgressNext]_egressVars
-----------------------------------------------------------------------------
(* Properties. *)

\* Property (proxy.go handleConnect, handleHTTP, handleHTTP2, allowDestination): the host and port the proxy connects to
\* are loopback or covered by an entry of the allowlist, also when the request names no port and the transport chooses it.
DialedIsAllowed ==
    dialed # NoTarget =>
        \/ dialed[1] = "localhost" \/ dialed[1] \in Loopback
        \/ dialed \in policy.hostPorts \/ dialed[1] \in policy.hosts
        \/ \E prefix \in policy.prefixes : dialed[1] \in prefix

\* Property (proxy.go pipe): an end that is told that the other end has finished, and is itself still there, has been
\* given every byte the other end sent after the tunnel stood, unless the other end went away.
FinishedIsDelivered ==
    \A e \in Ends :
        e \in eof /\ ended[e] # "gone" /\ ended[Other(e)] # "gone" =>
            ended[Other(e)] = "finished" /\ passed[Other(e)] + Dropped(Other(e)) = offered[Other(e)]

\* The inductive strengthening of DialedIsAllowed and FinishedIsDelivered: a goroutine that has stopped copying has passed
\* on all that its end sent, unless one of the ends went away, and only a finished goroutine tells the other end.
EgressInv ==
    /\ handler \in {"start", "forbidden", "unavailable", "bad gateway", "answered", "dialed", "failed", "hijacked", "piping", "closed"}
    /\ offered \in [Ends -> Nat] /\ passed \in [Ends -> Nat] /\ buffered \in Nat
    /\ copier \in [Ends -> {"none", "copying", "closing", "done"}]
    /\ ended \in [Ends -> {"open", "finished", "gone"}] /\ eof \subseteq Ends
    /\ handler \notin {"piping", "closed"} => \A e \in Ends : copier[e] = "none"
    /\ \A e \in Ends :
          /\ Other(e) \in eof => copier[e] = "done"
          /\ copier[e] \in {"closing", "done"} /\ ended[e] # "gone" /\ ended[Other(e)] # "gone" =>
                ended[e] = "finished" /\ passed[e] + Dropped(e) = offered[e]
    /\ DialedIsAllowed
    /\ FinishedIsDelivered
=============================================================================
