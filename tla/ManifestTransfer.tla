-------------------------- MODULE ManifestTransfer --------------------------
(***************************************************************************)
(* The computation manifest on its way from the CVMS server                *)
(* (agent/cvms/api/grpc/server.go) to the agent (client.go): the server    *)
(* cuts it into chunks and ends it with an empty last one; the client      *)
(* collects the chunks of an id under a timer.  A connection that breaks   *)
(* leaves the chunks behind; the server sends the manifest anew on the     *)
(* next connection.  A manifest is its sequence of chunk numbers.          *)
(***************************************************************************)
EXTENDS Naturals, Sequences

CONSTANTS
    Chunks,         \* number of chunks with data in a manifest
    MaxCuts,        \* bound of the lost connections
    MaxTimeouts     \* bound of the expiries of the 30 second timer

ASSUME TransferAssumption == Chunks \in Nat \ {0} /\ MaxCuts \in Nat /\ MaxTimeouts \in Nat

VARIABLES
    linked,         \* the stream between the two
    offer,          \* the number of chunks the server has sent on this stream
    wire,           \* the chunks on the stream
    buffer,         \* req.buffer of the request with this id
    request,        \* its timer: "armed" or "fired"; "none" when there is no request
    orphans,        \* armed timers whose request was deleted
    expired,        \* callbacks that wait for the mutex
    runs,           \* history: the manifests given to executeRun
    cuts, timeouts

transferVars == <<linked, offer, wire, buffer, request, orphans, expired, runs, cuts, timeouts>>

Last == 0
Manifest == [i \in 1..Chunks |-> i]

TransferInit ==
    /\ linked = TRUE /\ offer = 0 /\ wire = <<>>
    /\ buffer = <<>> /\ request = "none" /\ orphans = 0 /\ expired = 0
    /\ runs = {} /\ cuts = 0 /\ timeouts = 0

\* sendRunReqInChunks: the data, then an empty chunk with IsLast at io.EOF.
SendChunk ==
    /\ linked /\ offer <= Chunks
    /\ offer' = offer + 1
    /\ wire' = Append(wire, IF offer < Chunks THEN offer + 1 ELSE Last)
    /\ UNCHANGED <<linked, buffer, request, orphans, expired, runs, cuts, timeouts>>

\* The stream fails at both ends.
Cut ==
    /\ linked /\ cuts < MaxCuts
    /\ linked' = FALSE /\ cuts' = cuts + 1 /\ wire' = <<>>
    /\ UNCHANGED <<offer, buffer, request, orphans, expired, runs, timeouts>>

\* Mutant of Relink: the server goes on where the last connection ended.
RelinkResumes ==
    /\ ~linked
    /\ linked' = TRUE /\ wire' = <<>>
    /\ UNCHANGED <<offer, buffer, request, orphans, expired, runs, cuts, timeouts>>

\* The client reconnects, and the server's Run sends the manifest again.
Relink ==
    /\ ~linked
    /\ linked' = TRUE /\ offer' = 0 /\ wire' = <<>>
    /\ UNCHANGED <<buffer, request, orphans, expired, runs, cuts, timeouts>>

\* proto.Unmarshal of anything but the manifest fails, or merges the pieces
\* when they were cut between two fields.
Unmarshals(bytes) == IF bytes = Manifest THEN {TRUE} ELSE BOOLEAN

\* addChunk of the last chunk: the request is deleted and its timer stopped.
\* handleRunReqChunks starts executeRun, or its error ends the stream.
ReceiveLast ==
    /\ linked /\ wire # <<>> /\ Head(wire) = Last
    /\ request' = "none" /\ buffer' = <<>>
    /\ \E ok \in Unmarshals(buffer) :
          IF ok THEN runs' = runs \cup {buffer} /\ wire' = Tail(wire) /\ UNCHANGED linked
          ELSE linked' = FALSE /\ wire' = <<>> /\ UNCHANGED runs
    /\ UNCHANGED <<offer, orphans, expired, cuts, timeouts>>

\* addChunk of another chunk: the request is made if there is none, and its
\* timer is reset, also one that has fired.
ReceiveChunk ==
    /\ linked /\ wire # <<>> /\ Head(wire) # Last
    /\ request' = "armed" /\ buffer' = Append(buffer, Head(wire))
    /\ wire' = Tail(wire)
    /\ UNCHANGED <<linked, offer, orphans, expired, runs, cuts, timeouts>>

\* A timer expires and its callback is started.
ChunkTimerFires ==
    /\ timeouts < MaxTimeouts /\ timeouts' = timeouts + 1
    /\ expired' = expired + 1
    /\ \/ request = "armed" /\ request' = "fired" /\ UNCHANGED orphans
       \/ orphans > 0 /\ orphans' = orphans - 1 /\ UNCHANGED request
    /\ UNCHANGED <<linked, offer, wire, buffer, runs, cuts>>

\* timeoutRequest deletes the request of the id, whichever it is now.
TimeoutRequest ==
    /\ expired > 0 /\ expired' = expired - 1
    /\ orphans' = orphans + (IF request = "armed" THEN 1 ELSE 0)
    /\ request' = "none" /\ buffer' = <<>>
    /\ UNCHANGED <<linked, offer, wire, runs, cuts, timeouts>>

TransferNext ==
    \/ SendChunk \/ Cut \/ Relink \/ ReceiveLast \/ ReceiveChunk
    \/ ChunkTimerFires \/ TimeoutRequest

TransferSpec == TransferInit /\ [][TransferNext]_transferVars
-----------------------------------------------------------------------------
(***************************************************************************)
(* The manifest arrives: once connections stop breaking and timers stop    *)
(* firing, leftovers of earlier attempts spoil at most one more attempt,   *)
(* and a run is started.                                                   *)
(***************************************************************************)
ManifestArrives == <>(runs # {})
=============================================================================
