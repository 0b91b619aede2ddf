------------------------------- MODULE Outbox -------------------------------
(***************************************************************************)
(* The way of the agent's messages to the CVMS server                      *)
(* (agent/cvms/api/grpc/client.go): a bounded queue, a goroutine that      *)
(* sends from it on the current stream, a file of messages that could not  *)
(* be sent (storage/storage.go), and the loop that reconnects.  Messages   *)
(* are numbered in the order in which they enter the queue; 0 stands for a *)
(* message whose content was lost in decoding.                             *)
(***************************************************************************)
EXTENDS Naturals, Sequences

CONSTANTS
    MaxMessages,    \* bound of the messages produced
    QueueSize,      \* capacity of messageQueue
    MaxBreaks,      \* bound of the losses of the connection
    MaxFaults,      \* bound of the failed writes of the file
    MaxCrashes,     \* bound of the restarts of the agent
    Torn            \* a file that does not parse

ASSUME OutboxAssumption ==
    /\ {MaxMessages, QueueSize, MaxBreaks, MaxFaults, MaxCrashes} \subseteq Nat
    /\ Torn \notin Seq(Nat)

VARIABLES
    produced,       \* how many messages were produced
    queue,          \* client.messageQueue
    streamUp,       \* client.stream can still send
    incoming,       \* handleIncomingMessages: "running" or "ended"
    outgoing,       \* handleOutgoingMessages: "loading", "resending", "idle" or "ended"
    pending,        \* what sendPendingMessages still has to send
    msgs,           \* fs.msgs
    file,           \* pending_messages.json: its messages, or Torn
    sent,           \* history: the messages handed to the stream
    breaks, faults, crashes

outboxVars == <<produced, queue, streamUp, incoming, outgoing, pending, msgs, file, sent,
                breaks, faults, crashes>>

OutboxInit ==
    /\ produced = 0 /\ queue = <<>> /\ streamUp = TRUE
    /\ incoming = "running" /\ outgoing = "loading"
    /\ pending = <<>> /\ msgs = <<>> /\ file = <<>> /\ sent = <<>>
    /\ breaks = 0 /\ faults = 0 /\ crashes = 0

\* sendMessage: the queue takes the message, or it is full for sendTimeout and
\* the message is dropped.
SendMessage ==
    /\ produced < MaxMessages
    /\ produced' = produced + 1
    /\ queue' = IF Len(queue) < QueueSize THEN Append(queue, produced') ELSE queue
    /\ UNCHANGED <<streamUp, incoming, outgoing, pending, msgs, file, sent, breaks, faults, crashes>>

\* The connection is lost.
StreamBreaks ==
    /\ streamUp /\ breaks < MaxBreaks
    /\ streamUp' = FALSE /\ breaks' = breaks + 1
    /\ UNCHANGED <<produced, queue, incoming, outgoing, pending, msgs, file, sent, faults, crashes>>

\* handleIncomingMessages returns: Recv fails, or a message cannot be handled.
IncomingEnds ==
    /\ incoming = "running"
    /\ \/ ~streamUp /\ UNCHANGED breaks
       \/ breaks < MaxBreaks /\ breaks' = breaks + 1
    /\ incoming' = "ended"
    /\ UNCHANGED <<produced, queue, streamUp, outgoing, pending, msgs, file, sent, faults, crashes>>

\* os.WriteFile: it may fail before or after it has truncated the file.
WriteFile(content) ==
    \/ file' = content /\ UNCHANGED faults
    \/ faults < MaxFaults /\ faults' = faults + 1 /\ file' \in {file, Torn}

\* json.Unmarshal of the file into fs.msgs.  The payload is an interface: it is
\* decoded into the message that fs.msgs already holds at that place, and where
\* it holds none the decoding fails and leaves a message without content.
Decodes(i) == file[i] = 0 \/ (i <= Len(msgs) /\ msgs[i] = file[i])
Decoded == [i \in 1..Len(file) |-> IF Decodes(i) THEN file[i] ELSE 0]

\* Load at the start of handleOutgoingMessages.
Load ==
    /\ outgoing = "loading"
    /\ IF file # Torn /\ \A i \in 1..Len(file) : Decodes(i)
       THEN msgs' = file /\ pending' = file /\ outgoing' = "resending"
       ELSE /\ msgs' = IF file = Torn THEN msgs ELSE Decoded
            /\ outgoing' = "idle" /\ UNCHANGED pending
    /\ UNCHANGED <<produced, queue, streamUp, incoming, file, sent, breaks, faults, crashes>>

\* storage.Add
Add(m) == msgs' = Append(msgs, m) /\ WriteFile(msgs')

\* One message of sendPendingMessages.
Resend ==
    /\ outgoing = "resending" /\ pending # <<>>
    /\ pending' = Tail(pending)
    /\ IF streamUp THEN sent' = Append(sent, Head(pending)) /\ UNCHANGED <<msgs, file, faults>>
       ELSE Add(Head(pending)) /\ UNCHANGED sent
    /\ UNCHANGED <<produced, queue, streamUp, incoming, outgoing, breaks, crashes>>

\* The end of sendPendingMessages: storage.Clear, whatever could not be sent.
Clear ==
    /\ outgoing = "resending" /\ pending = <<>>
    /\ outgoing' = "idle"
    /\ msgs' = <<>> /\ WriteFile(<<>>)
    /\ UNCHANGED <<produced, queue, streamUp, incoming, pending, sent, breaks, crashes>>

\* Mutant of SendQueued: the queue is not held back while stored messages are sent.
SendQueuedEarly ==
    /\ outgoing \in {"resending", "idle"} /\ queue # <<>>
    /\ queue' = Tail(queue)
    /\ IF streamUp THEN sent' = Append(sent, Head(queue)) /\ UNCHANGED <<msgs, file, faults>>
       ELSE Add(Head(queue)) /\ UNCHANGED sent
    /\ UNCHANGED <<produced, streamUp, incoming, outgoing, pending, breaks, crashes>>

\* The loop of handleOutgoingMessages takes a message and sends or stores it.
SendQueued ==
    /\ outgoing = "idle" /\ queue # <<>>
    /\ queue' = Tail(queue)
    /\ IF streamUp THEN sent' = Append(sent, Head(queue)) /\ UNCHANGED <<msgs, file, faults>>
       ELSE Add(Head(queue)) /\ UNCHANGED sent
    /\ UNCHANGED <<produced, streamUp, incoming, outgoing, pending, breaks, crashes>>

\* ctx.Done, once the other goroutine of the group has returned.
OutgoingEnds ==
    /\ outgoing = "idle" /\ incoming = "ended"
    /\ outgoing' = "ended"
    /\ UNCHANGED <<produced, queue, streamUp, incoming, pending, msgs, file, sent, breaks, faults, crashes>>

\* Process: after a pause a new stream, or, when that fails, both goroutines
\* once more on the old one.
Reconnect ==
    /\ incoming = "ended" /\ outgoing = "ended"
    /\ streamUp' \in {TRUE, streamUp}
    /\ incoming' = "running" /\ outgoing' = "loading"
    /\ UNCHANGED <<produced, queue, pending, msgs, file, sent, breaks, faults, crashes>>

\* The agent ends and is started again: NewFileStorage begins with no messages
\* in memory.
AgentRestarts ==
    /\ crashes < MaxCrashes /\ crashes' = crashes + 1
    /\ queue' = <<>> /\ pending' = <<>> /\ msgs' = <<>>
    /\ streamUp' = TRUE /\ incoming' = "running" /\ outgoing' = "loading"
    /\ UNCHANGED <<produced, file, sent, breaks, faults>>

OutgoingStep == Load \/ Resend \/ Clear \/ SendQueued

OutboxNext ==
    \/ SendMessage \/ StreamBreaks \/ IncomingEnds
    \/ OutgoingStep \/ OutgoingEnds \/ Reconnect \/ AgentRestarts

OutboxSpec == OutboxInit /\ [][OutboxNext]_outboxVars
-----------------------------------------------------------------------------
\* No message that still has its content is in s twice; and they stand in the order in which they were produced.
OnlyOnce(s) == \A i, j \in 1..Len(s) : i # j /\ s[i] = s[j] => s[i] = 0
InOrder(s) == \A i, j \in 1..Len(s) : i < j /\ s[i] # 0 /\ s[j] # 0 => s[i] < s[j]

(***************************************************************************)
(* No message is sent twice: whatever streams break, writes fail or        *)
(* restarts happen between a send, the write of the store and its Clear, a *)
(* message reaches a stream at most once.  And none overtakes another:     *)
(* what was sent comes before what is pending, stored and queued, across   *)
(* retries and restarts, unless a write of the store failed (then Load     *)
(* skips the stored messages once).                                        *)
(***************************************************************************)
SentInOrder ==
    /\ OnlyOnce(sent)
    /\ faults = 0 =>
          /\ InOrder(sent \o pending \o queue)
          /\ outgoing \in {"idle", "ended"} => InOrder(sent \o msgs \o queue)

=============================================================================
