--------------------------- MODULE AgentTransfers ---------------------------
(***************************************************************************)
(* One call of the agent's API from end to end: the SDK (pkg/sdk/agent.go) *)
(* with its progress bar, the interceptors that demand a signature, and    *)
(* the handlers that collect or stream files in bounded pieces             *)
(* (agent/api/grpc).  A file is a sequence of bytes; the second file of a  *)
(* call is the requirements of an algorithm, or PCR 10 of the              *)
(* measurements.  The stream may break at any message.                     *)
(***************************************************************************)
EXTENDS Naturals, Sequences

CONSTANTS
    BufferSize,                         \* bytes in a message
    MaxAlgorithm, MaxRequirements, MaxDataset,   \* the limits of the uploads
    PcrSize,                            \* length of PCR 10
    FileSizes                           \* the lengths of the files

ASSUME TransfersAssumption ==
    /\ BufferSize \in Nat \ {0} /\ PcrSize \in 1..BufferSize
    /\ MaxAlgorithm \in Nat /\ MaxRequirements \in Nat /\ MaxDataset \in Nat
    /\ FileSizes \subseteq Nat

Uploads == {"Algo", "Data"}
Downloads == {"Result", "Attestation", "IMAMeasurements"}   \* streamed; AttestationToken answers in one message

VARIABLES
    method,         \* the method called
    caller,         \* "sdk", or "other" for a client that signs every call
    source,         \* [main, extra]: the files at the sending end
    unread,         \* what of them is still to be read
    stage,          \* "calling", "sending", "receiving" or "returned"
    total, progress,    \* numberOfBytes and currentUploadedBytes
    messages,       \* the messages on the stream
    closed,         \* the sender has closed the stream
    collected,      \* [main, extra] at the receiving end
    handed,         \* what the endpoint gave to the service, or <<>>
    changed,        \* history: "no", or how the file changed during the upload
    outcome         \* of the call: "pending", "ok", "error", "unauthenticated" or "panic"

transfersVars == <<method, caller, source, unread, stage, total, progress, messages, closed,
                   collected, handed, changed, outcome>>

Bytes(n) == [i \in 1..n |-> i]
NoFiles == [main |-> <<>>, extra |-> <<>>]

TransfersInit ==
    /\ method \in Uploads \cup Downloads \cup {"AttestationToken"}
    /\ caller \in {"sdk", "other"}
    /\ \E m, e \in FileSizes :
          source = [main |-> Bytes(m),
                    extra |-> CASE method = "Algo" -> Bytes(e)
                                [] method = "IMAMeasurements" -> Bytes(PcrSize)
                                [] OTHER -> <<>>]
    /\ unread = source /\ stage = "calling" /\ total = 0 /\ progress = 0
    /\ messages = <<>> /\ closed = FALSE /\ collected = NoFiles /\ handed = <<>>
    /\ changed = "no" /\ outcome = "pending"

Size(f) == Len(f.main) + Len(f.extra)
Front(s, n) == SubSeq(s, 1, IF n < Len(s) THEN n ELSE Len(s))
Rest(s, n) == SubSeq(s, n + 1, Len(s))

Return(o) == stage' = "returned" /\ outcome' = o

\* The interceptors ask a signature of every method.
Authenticate(signed) ==
    /\ IF signed THEN stage' = "sending" /\ UNCHANGED outcome ELSE Return("unauthenticated")
    /\ UNCHANGED <<method, caller, source, unread, progress, messages, closed, collected, handed, changed>>

\* The SDK's methods up to the first message.  The size is taken from Stat, or from the header of the stream; three of
\* the methods sign nothing.
Algo == method = "Algo" /\ stage = "calling" /\ Authenticate(TRUE) /\ total' = Size(source)

Data == method = "Data" /\ stage = "calling" /\ Authenticate(TRUE) /\ total' = Size(source)

Result == method = "Result" /\ stage = "calling" /\ Authenticate(TRUE) /\ total' = Len(source.main)

Attestation ==
    method = "Attestation" /\ stage = "calling" /\ Authenticate(caller = "other") /\ total' = Len(source.main)

IMAMeasurements ==
    method = "IMAMeasurements" /\ stage = "calling" /\ Authenticate(caller = "other") /\ total' = Len(source.main)

AttestationToken ==
    method = "AttestationToken" /\ stage = "calling" /\ Authenticate(caller = "other") /\ UNCHANGED total

\* AzureAttestationToken at the server, and its answer written to the file.
AnswerToken ==
    /\ method = "AttestationToken" /\ stage = "sending"
    /\ collected' = source /\ Return("ok")
    /\ UNCHANGED <<method, caller, source, unread, total, progress, messages, closed, handed, changed>>

\* The file is written to, or cut short, while it is being uploaded.
FileChanges ==
    /\ method \in Uploads /\ stage = "sending" /\ ~closed /\ changed = "no"
    /\ \/ changed' = "grown" /\ unread' = [unread EXCEPT !.main = Append(@, 0)]
       \/ changed' = "shrunk" /\ unread.main # <<>> /\ unread' = [unread EXCEPT !.main = Front(@, Len(@) - 1)]
    /\ UNCHANGED <<method, caller, source, stage, total, progress, messages, closed, collected,
                   handed, outcome>>

\* updateProgress refuses more than the size that was announced.
exceeds(n) == progress + n > total

Send(piece) ==
    /\ method \in Uploads /\ stage = "sending" /\ ~closed
    /\ IF exceeds(Size(piece))
       THEN Return("error") /\ UNCHANGED <<unread, progress, messages>>
       ELSE /\ progress' = progress + Size(piece)
            /\ messages' = Append(messages, piece)
            /\ unread' = [main |-> Rest(unread.main, Len(piece.main)), extra |-> Rest(unread.extra, Len(piece.extra))]
            /\ UNCHANGED <<stage, outcome>>
    /\ UNCHANGED <<method, caller, source, total, closed, collected, handed, changed>>

\* SendAlgorithm: the requirements first.
SendAlgorithm ==
    /\ method = "Algo"
    /\ \/ unread.extra # <<>> /\ Send([main |-> <<>>, extra |-> Front(unread.extra, BufferSize)])
       \/ unread.extra = <<>> /\ unread.main # <<>> /\ Send([main |-> Front(unread.main, BufferSize), extra |-> <<>>])

SendData == method = "Data" /\ unread.main # <<>> /\ Send([main |-> Front(unread.main, BufferSize), extra |-> <<>>])

\* CloseAndRecv at the end of the files.
CloseSend ==
    /\ method \in Uploads /\ stage = "sending" /\ ~closed
    /\ unread = NoFiles
    /\ closed' = TRUE
    /\ UNCHANGED <<method, caller, source, unread, stage, total, progress, messages, collected,
                   handed, changed, outcome>>

\* Mutant of appendBounded: what does not fit is cut off.
appendTruncated(dst, chunk, max) == <<Front(dst \o chunk, max)>>

\* The longer destination, or no value when the chunk does not fit.
appendBounded(dst, chunk, max) ==
    IF Len(chunk) + Len(dst) > max THEN <<>> ELSE <<dst \o chunk>>

\* One message, with the longer main and extra file or none.
Collect(main, extra) ==
    /\ IF main = <<>> \/ extra = <<>>
       THEN Return("error") /\ UNCHANGED collected
       ELSE collected' = [main |-> main[1], extra |-> extra[1]] /\ UNCHANGED <<stage, outcome>>
    /\ messages' = Tail(messages)
    /\ UNCHANGED <<method, caller, source, unread, total, progress, closed, handed, changed>>

receiveAlgoData ==
    /\ method = "Algo" /\ stage = "sending" /\ messages # <<>>
    /\ Collect(appendBounded(collected.main, Head(messages).main, MaxAlgorithm),
               appendBounded(collected.extra, Head(messages).extra, MaxRequirements))

receiveStreamingData ==
    /\ method = "Data" /\ stage = "sending" /\ messages # <<>>
    /\ Collect(appendBounded(collected.main, Head(messages).main, MaxDataset), <<collected.extra>>)

\* validate of algoReq and dataReq
validate == collected.main # <<>>

\* io.EOF: the endpoint validates the request and calls the service, which may refuse it.
HandOver ==
    /\ stage = "sending" /\ messages = <<>> /\ closed
    /\ \/ ~validate /\ Return("error") /\ UNCHANGED handed
       \/ /\ validate /\ handed' = <<collected>>
          /\ Return("ok") \/ Return("error")
    /\ UNCHANGED <<method, caller, source, unread, total, progress, messages, closed, collected, changed>>

AlgoEnds == method = "Algo" /\ HandOver

DataEnds == method = "Data" /\ HandOver

Stream(piece, last) ==
    /\ stage = "sending" /\ ~closed
    /\ IF last THEN closed' = TRUE /\ UNCHANGED <<messages, unread>>
       ELSE /\ messages' = Append(messages, piece)
            /\ unread' = [main |-> Rest(unread.main, BufferSize), extra |-> Rest(unread.extra, BufferSize)]
            /\ UNCHANGED closed
    /\ UNCHANGED <<method, caller, source, stage, total, progress, collected, handed, changed, outcome>>

streamFileData ==
    /\ method \in {"Result", "Attestation"}
    /\ Stream([main |-> Front(unread.main, BufferSize), extra |-> <<>>], unread.main = <<>>)

\* Both files side by side until both are at their end.
streamDualBuffers ==
    /\ method = "IMAMeasurements"
    /\ Stream([main |-> Front(unread.main, BufferSize), extra |-> Front(unread.extra, BufferSize)], unread = NoFiles)

\* receiveStream: one message.  The percentage is computed by a division by the size in the header.
receiveStream(extra) ==
    /\ LET m == Head(messages)
       IN IF exceeds(Len(m.main)) THEN Return("error") /\ UNCHANGED <<collected, progress>>
          ELSE IF total = 0 THEN Return("panic") /\ UNCHANGED <<collected, progress>>
          ELSE /\ collected' = [main |-> collected.main \o m.main, extra |-> extra]
               /\ progress' = progress + Len(m.main)
               /\ UNCHANGED <<stage, outcome>>
    /\ messages' = Tail(messages)
    /\ UNCHANGED <<method, caller, source, unread, total, closed, handed, changed>>

Panic ==
    /\ Return("panic") /\ messages' = Tail(messages)
    /\ UNCHANGED <<method, caller, source, unread, total, progress, closed, collected, handed, changed>>

ReceiveResult == method = "Result" /\ stage = "sending" /\ messages # <<>> /\ receiveStream(<<>>)

ReceiveAttestation == method = "Attestation" /\ stage = "sending" /\ messages # <<>> /\ receiveStream(<<>>)

\* PCR 10 is sliced out of every message.
ReceiveIMAMeasurements ==
    /\ method = "IMAMeasurements" /\ stage = "sending" /\ messages # <<>>
    /\ IF Len(Head(messages).extra) < PcrSize THEN Panic ELSE receiveStream(Head(messages).extra)

\* io.EOF at the client.
EndDownload ==
    /\ method \in Downloads /\ stage = "sending" /\ closed /\ messages = <<>>
    /\ Return("ok")
    /\ UNCHANGED <<method, caller, source, unread, total, progress, messages, closed, collected,
                   handed, changed>>

\* The stream breaks; Recv and Send fail at both ends.
StreamFails ==
    /\ stage = "sending"
    /\ Return("error")
    /\ UNCHANGED <<method, caller, source, unread, total, progress, messages, closed, collected,
                   handed, changed>>

TransfersNext ==
    \/ Algo \/ Data \/ Result \/ Attestation \/ IMAMeasurements \/ AttestationToken \/ AnswerToken
    \/ FileChanges \/ SendAlgorithm \/ SendData \/ CloseSend
    \/ receiveAlgoData \/ receiveStreamingData \/ AlgoEnds \/ DataEnds
    \/ streamFileData \/ streamDualBuffers \/ ReceiveResult \/ ReceiveAttestation \/ ReceiveIMAMeasurements
    \/ EndDownload \/ StreamFails

TransfersSpec == TransfersInit /\ [][TransfersNext]_transfersVars
-----------------------------------------------------------------------------
(***************************************************************************)
(* The service gets whole files or nothing: what Algo and Data hand over   *)
(* is exactly what the client had when it began, within the limits,        *)
(* however the stream breaks, a limit is met or the file grows meanwhile.  *)
(* Only a file cut short under the reader arrives as it was cut.           *)
(***************************************************************************)
UploadIsWhole ==
    handed # <<>> =>
        /\ handed[1].extra = source.extra
        /\ \/ handed[1].main = source.main
           \/ changed = "shrunk" /\ handed[1].main = Front(source.main, Len(source.main) - 1)
        /\ Len(handed[1].main) \in 1..(IF method = "Algo" THEN MaxAlgorithm ELSE MaxDataset)
        /\ Len(handed[1].extra) <= MaxRequirements

(***************************************************************************)
(* A download that the SDK reports as complete is the file of the server,  *)
(* and PCR 10 with it.  The slicing of PCR 10 out of every message and the *)
(* division by the size of the file bring the client down only for         *)
(* measurements that are empty or longer than one message.                 *)
(***************************************************************************)
DownloadIsWhole ==
    method \notin Uploads =>
        /\ outcome = "ok" => collected = source
        /\ outcome = "panic" => method = "IMAMeasurements" /\ Len(source.main) \notin 1..BufferSize

(***************************************************************************)
(* Files pass whole or not at all between the client and the agent,        *)
(* wherever a stream breaks, a limit is met or a file changes meanwhile.   *)
(***************************************************************************)
TransfersAreWhole == UploadIsWhole /\ DownloadIsWhole

=============================================================================
