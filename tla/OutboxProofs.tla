---------------------------- MODULE OutboxProofs ----------------------------
(***************************************************************************)
(* Proofs about the agent's messages to the CVMS server, for any number of *)
(* messages, broken streams, failed writes and restarts.                   *)
(*                                                                         *)
(* A message is sent, stored or queued: Fits, Ranked and Ahead say that    *)
(* these three are one line, in the order in which they were produced; the *)
(* lemmas about them say what taking the first message, appending one and  *)
(* losing the content of one do to that.                                   *)
(***************************************************************************)
EXTENDS Outbox, SequenceTheorems, TLAPS

\* Message x may stand before message y: one has lost its content, or they differ, or x is the older one where the
\* order counts.
Fits(ordered, x, y) == x = 0 \/ y = 0 \/ (x # y /\ (ordered => x < y))
Ranked(ordered, s) == \A i, j \in 1..Len(s) : i < j => Fits(ordered, s[i], s[j])
Ahead(ordered, s, t) == \A i \in 1..Len(s), j \in 1..Len(t) : Fits(ordered, s[i], t[j])

\* What u holds stands at the same place in s, or has lost its content.
Pruned(u, s) == \A i \in 1..Len(u) : u[i] = 0 \/ (i \in 1..Len(s) /\ u[i] = s[i])

LEMMA NothingFits ==
    ASSUME NEW b, NEW s
    PROVE  Ranked(b, <<>>) /\ Ahead(b, <<>>, s) /\ Ahead(b, s, <<>>)
<1>1. \A i \in 1..Len(<<>>) : FALSE
  OBVIOUS
<1> QED
  BY <1>1, Zenon DEF Ranked, Ahead

LEMMA AppendFits ==
    ASSUME NEW b, NEW s \in Seq(Nat), NEW t \in Seq(Nat), NEW x \in Nat
    PROVE  /\ Ranked(b, s) /\ (\A i \in 1..Len(s) : Fits(b, s[i], x)) => Ranked(b, Append(s, x))
           /\ Ahead(b, s, t) /\ (\A j \in 1..Len(t) : Fits(b, x, t[j])) => Ahead(b, Append(s, x), t)
           /\ Ahead(b, t, s) /\ (\A j \in 1..Len(t) : Fits(b, t[j], x)) => Ahead(b, t, Append(s, x))
<1> DEFINE n == Len(s)
           a == Append(s, x)
<1>1. n \in Nat /\ Len(a) = n + 1 /\ a[n + 1] = x /\ \A i \in 1..n : a[i] = s[i]
  OBVIOUS
<1> HIDE DEF a
<1>2. \A i \in 1..Len(a) : i = n + 1 \/ i \in 1..n
  BY <1>1
<1>3. ASSUME Ranked(b, s), \A i \in 1..Len(s) : Fits(b, s[i], x)
      PROVE  Ranked(b, a)
  <2> SUFFICES ASSUME NEW i \in 1..Len(a), NEW j \in 1..Len(a), i < j
               PROVE  Fits(b, a[i], a[j])
    BY Zenon DEF Ranked
  <2>1. i \in 1..n
    BY <1>1
  <2> QED
    BY <1>1, <1>2, <1>3, <2>1, Zenon DEF Ranked
<1>4. ASSUME Ahead(b, s, t), \A j \in 1..Len(t) : Fits(b, x, t[j])
      PROVE  Ahead(b, a, t)
  BY <1>1, <1>2, <1>4, Zenon DEF Ahead
<1>5. ASSUME Ahead(b, t, s), \A j \in 1..Len(t) : Fits(b, t[j], x)
      PROVE  Ahead(b, t, a)
  BY <1>1, <1>2, <1>5, Zenon DEF Ahead
<1> QED
  BY <1>3, <1>4, <1>5, Zenon DEF a

LEMMA TailFits ==
    ASSUME NEW b, NEW s \in Seq(Nat), s # <<>>, NEW t \in Seq(Nat)
    PROVE  /\ Head(s) \in Nat /\ Tail(s) \in Seq(Nat)
           /\ Ranked(b, s) => Ranked(b, Tail(s)) /\ \A i \in 1..Len(Tail(s)) : Fits(b, Head(s), Tail(s)[i])
           /\ Ahead(b, s, t) => Ahead(b, Tail(s), t) /\ \A j \in 1..Len(t) : Fits(b, Head(s), t[j])
           /\ Ahead(b, t, s) => Ahead(b, t, Tail(s)) /\ \A j \in 1..Len(t) : Fits(b, t[j], Head(s))
<1> DEFINE u == Tail(s)
<1>1. /\ Head(s) \in Nat /\ Head(s) = s[1] /\ u \in Seq(Nat) /\ Len(u) \in Nat /\ Len(s) = Len(u) + 1
      /\ \A i \in 1..Len(u) : u[i] = s[i + 1]
  OBVIOUS
<1> HIDE DEF u
<1>2. 1 \in 1..Len(s) /\ \A i \in 1..Len(u) : i + 1 \in 1..Len(s) /\ 1 < i + 1
  BY <1>1
<1>3. \A i, j \in 1..Len(u) : i < j => i + 1 < j + 1
  BY <1>1
<1>4. Ranked(b, s) => Ranked(b, u) /\ \A i \in 1..Len(u) : Fits(b, Head(s), u[i])
  BY <1>1, <1>2, <1>3, Zenon DEF Ranked
<1>5. Ahead(b, s, t) => Ahead(b, u, t) /\ \A j \in 1..Len(t) : Fits(b, Head(s), t[j])
  BY <1>1, <1>2, Zenon DEF Ahead
<1>6. Ahead(b, t, s) => Ahead(b, t, u) /\ \A j \in 1..Len(t) : Fits(b, t[j], Head(s))
  BY <1>1, <1>2, Zenon DEF Ahead
<1> QED
  BY <1>1, <1>4, <1>5, <1>6, Zenon DEF u

LEMMA PrunedFits ==
    ASSUME NEW b, NEW s \in Seq(Nat), NEW u \in Seq(Nat), Pruned(u, s), NEW t \in Seq(Nat)
    PROVE  /\ Ranked(b, s) => Ranked(b, u)
           /\ Ahead(b, s, t) => Ahead(b, u, t)
           /\ Ahead(b, t, s) => Ahead(b, t, u)
<1>1. Ranked(b, s) => Ranked(b, u)
  BY Zenon DEF Pruned, Ranked, Fits
<1>2. Ahead(b, s, t) => Ahead(b, u, t)
  BY Zenon DEF Pruned, Ahead, Fits
<1>3. Ahead(b, t, s) => Ahead(b, t, u)
  BY Zenon DEF Pruned, Ahead, Fits
<1> QED
  BY <1>1, <1>2, <1>3, Zenon

LEMMA ConcatFits ==
    ASSUME NEW b, NEW s \in Seq(Nat), NEW t \in Seq(Nat), Ranked(b, s), Ranked(b, t), Ahead(b, s, t)
    PROVE  Ranked(b, s \o t)
<1> DEFINE n == Len(s)
           m == Len(t)
           c == s \o t
<1>1. /\ n \in Nat /\ m \in Nat /\ Len(c) = n + m
      /\ \A i \in 1..n : c[i] = s[i]
      /\ \A i \in 1..m : c[n + i] = t[i]
  OBVIOUS
<1> HIDE DEF n, m, c
<1> SUFFICES ASSUME NEW i \in 1..(n + m), NEW j \in 1..(n + m), i < j
             PROVE  Fits(b, c[i], c[j])
  BY <1>1, Zenon DEF Ranked, c
<1>2. CASE j <= n
  <2>1. i \in 1..n /\ j \in 1..n
    BY <1>1, <1>2
  <2> QED
    BY <1>1, <2>1, Zenon DEF Ranked, n
<1>3. CASE i > n
  <2>1. i - n \in 1..m /\ j - n \in 1..m /\ i - n < j - n /\ n + (i - n) = i /\ n + (j - n) = j
    BY <1>1, <1>3
  <2>2. c[i] = t[i - n] /\ c[j] = t[j - n]
    BY <1>1, <2>1, Zenon
  <2> QED
    BY <2>1, <2>2, Zenon DEF Ranked, m
<1>4. CASE i <= n /\ j > n
  <2>1. i \in 1..n /\ j - n \in 1..m /\ n + (j - n) = j
    BY <1>1, <1>4
  <2>2. c[i] = s[i] /\ c[j] = t[j - n]
    BY <1>1, <2>1, Zenon
  <2> QED
    BY <2>1, <2>2, Zenon DEF Ahead, n, m
<1> QED
  BY <1>1, <1>2, <1>3, <1>4

LEMMA ConcatBefore ==
    ASSUME NEW b, NEW s \in Seq(Nat), NEW t \in Seq(Nat), NEW q, Ahead(b, s, q), Ahead(b, t, q)
    PROVE  Ahead(b, s \o t, q)
<1> DEFINE c == s \o t
<1>1. \A i \in 1..Len(c) : \/ i \in 1..Len(s) /\ c[i] = s[i]
                           \/ i - Len(s) \in 1..Len(t) /\ c[i] = t[i - Len(s)]
  OBVIOUS
<1> HIDE DEF c
<1>2. Ahead(b, c, q)
  BY <1>1, Zenon DEF Ahead
<1> QED
  BY <1>2, Zenon DEF c

LEMMA WeakerFits ==
    ASSUME NEW b, NEW c, c => b, NEW s, NEW t
    PROVE  (Ranked(b, s) => Ranked(c, s)) /\ (Ahead(b, s, t) => Ahead(c, s, t))
<1>1. \A x, y : Fits(b, x, y) => Fits(c, x, y)
  BY Zenon DEF Fits
<1> QED
  BY <1>1, Zenon DEF Ranked, Ahead

\* No message of s is younger than the one numbered n.
UpTo(s, n) == \A i \in 1..Len(s) : s[i] <= n

LEMMA UpToChanges ==
    ASSUME NEW s \in Seq(Nat), NEW n \in Nat, UpTo(s, n)
    PROVE  /\ \A x \in Nat : x <= n => UpTo(Append(s, x), n)
           /\ s # <<>> => UpTo(Tail(s), n) /\ Head(s) <= n
           /\ \A u : Pruned(u, s) => UpTo(u, n)
           /\ UpTo(s, n + 1) /\ UpTo(Append(s, n + 1), n + 1)
           /\ \A i \in 1..Len(s) : Fits(TRUE, s[i], n + 1)
<1>1. \A i \in 1..Len(s) : s[i] \in Nat /\ s[i] <= n
  BY DEF UpTo
<1>2. ASSUME NEW x \in Nat, NEW m \in Nat, x <= m, n <= m PROVE UpTo(Append(s, x), m)
  <2>1. Len(Append(s, x)) = Len(s) + 1 /\ Append(s, x)[Len(s) + 1] = x /\ \A i \in 1..Len(s) : Append(s, x)[i] = s[i]
    OBVIOUS
  <2>2. \A i \in 1..(Len(s) + 1) : i = Len(s) + 1 \/ i \in 1..Len(s)
    OBVIOUS
  <2>3. \A i \in 1..Len(s) : s[i] <= m
    BY <1>1, <1>2
  <2> QED
    BY <1>2, <2>1, <2>2, <2>3, Zenon DEF UpTo
<1>3. s # <<>> => UpTo(Tail(s), n) /\ Head(s) <= n
  <2> SUFFICES ASSUME s # <<>>
               PROVE  UpTo(Tail(s), n) /\ Head(s) <= n
    BY Zenon
  <2>1. Head(s) = s[1] /\ 1 \in 1..Len(s) /\ \A i \in 1..Len(Tail(s)) : i + 1 \in 1..Len(s) /\ Tail(s)[i] = s[i + 1]
    OBVIOUS
  <2> QED
    BY <1>1, <2>1, Zenon DEF UpTo
<1>4. ASSUME NEW u, Pruned(u, s) PROVE UpTo(u, n)
  <2>1. 0 <= n
    OBVIOUS
  <2> QED
    BY <1>1, <1>4, <2>1, Zenon DEF UpTo, Pruned
<1>5. UpTo(s, n + 1) /\ \A i \in 1..Len(s) : Fits(TRUE, s[i], n + 1)
  BY <1>1 DEF UpTo, Fits
<1>6. \A x \in Nat : x <= n => UpTo(Append(s, x), n)
  <2>1. n <= n
    OBVIOUS
  <2> QED
    BY <1>2, <2>1, Zenon
<1>7. UpTo(Append(s, n + 1), n + 1)
  <2>1. n + 1 \in Nat /\ n + 1 <= n + 1 /\ n <= n + 1
    OBVIOUS
  <2> QED
    BY <1>2, <2>1, Zenon
<1> QED
  BY <1>3, <1>4, <1>5, <1>6, <1>7, Zenon

\* What was sent, what waits behind it and the queue, one after the other.
Chain(ordered, s, t, q) ==
    /\ Ranked(ordered, s) /\ Ranked(ordered, t) /\ Ranked(ordered, q)
    /\ Ahead(ordered, s, t) /\ Ahead(ordered, s, q) /\ Ahead(ordered, t, q)

\* The messages on their way from the store: the pending ones, or the stored ones while none is sent again.
Backlog == IF outgoing = "resending" THEN pending ELSE msgs
Blank(s) == \A i \in 1..Len(s) : s[i] = 0

OutboxTypeOK ==
    /\ produced \in Nat /\ faults \in Nat
    /\ queue \in Seq(Nat) /\ pending \in Seq(Nat) /\ msgs \in Seq(Nat) /\ sent \in Seq(Nat)
    /\ file \in Seq(Nat) \cup {Torn}

OutboxChain ==
    /\ Chain(faults = 0, sent, Backlog, queue)
    /\ UpTo(sent, produced) /\ UpTo(Backlog, produced) /\ UpTo(queue, produced)

\* Without failed writes the file is what is stored, unless all of that has lost its content; and nothing with content
\* is stored while messages can be sent.
StoreIsSaved ==
    /\ outgoing # "resending" => pending = <<>>
    /\ faults = 0 /\ outgoing # "resending" => file = msgs \/ Blank(msgs)
    /\ faults = 0 /\ outgoing = "idle" /\ streamUp => Blank(msgs)

OutboxInv == OutboxTypeOK /\ OutboxChain /\ StoreIsSaved

LEMMA OutboxInitially ==
    OutboxInit => OutboxInv
<1> SUFFICES ASSUME OutboxInit
             PROVE  OutboxInv
  BY Zenon
<1>1. /\ sent = <<>> /\ pending = <<>> /\ msgs = <<>> /\ queue = <<>> /\ file = <<>> /\ produced = 0 /\ faults = 0
      /\ Backlog = <<>> /\ <<>> \in Seq(Nat)
  BY DEF OutboxInit, Backlog
<1>2. OutboxTypeOK
  BY <1>1, Zenon DEF OutboxTypeOK
<1>3. OutboxChain
  <2>1. \A i \in 1..Len(<<>>) : FALSE
    OBVIOUS
  <2> QED
    BY <1>1, <2>1, NothingFits, Zenon DEF OutboxChain, Chain, UpTo
<1>4. StoreIsSaved
  <2>1. Blank(<<>>)
    BY DEF Blank
  <2> QED
    BY <1>1, <2>1, Zenon DEF StoreIsSaved
<1> QED
  BY <1>2, <1>3, <1>4, Zenon DEF OutboxInv

\* The lines stay in order when they stay as they are, and a failed write only asks less of them.
LEMMA ChainKept ==
    ASSUME Chain(faults = 0, sent', Backlog', queue'), faults' = 0 => faults = 0
    PROVE  Chain(faults' = 0, sent', Backlog', queue')
BY WeakerFits, Zenon DEF Chain

LEMMA WriteFileResult ==
    ASSUME NEW content \in Seq(Nat), OutboxTypeOK, WriteFile(content)
    PROVE  /\ file' \in Seq(Nat) \cup {Torn} /\ faults' \in Nat
           /\ faults' = 0 => faults = 0 /\ file' = content
BY DEF WriteFile, OutboxTypeOK

LEMMA SendMessageInv ==
    ASSUME OutboxInv, SendMessage
    PROVE  OutboxInv'
<1>1. /\ UNCHANGED <<streamUp, outgoing, pending, msgs, file, sent, faults>> /\ produced' = produced + 1
      /\ queue' = queue \/ queue' = Append(queue, produced + 1)
  BY Zenon DEF SendMessage
<1>2. /\ produced \in Nat /\ queue \in Seq(Nat) /\ sent \in Seq(Nat) /\ Backlog \in Seq(Nat) /\ Backlog' = Backlog
  BY <1>1, Zenon DEF OutboxInv, OutboxTypeOK, Backlog
<1>3. OutboxTypeOK'
  <2>1. produced + 1 \in Nat /\ queue' \in Seq(Nat)
    <3>1. produced + 1 \in Nat
      BY <1>2
    <3>2. Append(queue, produced + 1) \in Seq(Nat)
      BY <1>2, <3>1
    <3> QED
      BY <1>1, <1>2, <3>1, <3>2, Zenon
  <2> QED
    BY <1>1, <2>1, Zenon DEF OutboxInv, OutboxTypeOK
<1>4. StoreIsSaved'
  BY <1>1, Zenon DEF OutboxInv, StoreIsSaved, Blank
<1>5. Chain(faults = 0, sent, Backlog, queue) /\ UpTo(sent, produced) /\ UpTo(Backlog, produced) /\ UpTo(queue, produced)
  BY Zenon DEF OutboxInv, OutboxChain
<1>6. UpTo(sent, produced + 1) /\ UpTo(Backlog, produced + 1) /\ UpTo(queue', produced + 1)
  BY <1>1, <1>2, <1>5, UpToChanges, Zenon
<1>7. Chain(faults = 0, sent, Backlog, queue')
  <2>1. CASE queue' = queue
    BY <1>5, <2>1, Zenon
  <2>2. CASE queue' = Append(queue, produced + 1)
    <3>1. /\ \A i \in 1..Len(sent) : Fits(TRUE, sent[i], produced + 1)
          /\ \A i \in 1..Len(Backlog) : Fits(TRUE, Backlog[i], produced + 1)
          /\ \A i \in 1..Len(queue) : Fits(TRUE, queue[i], produced + 1)
      BY <1>2, <1>5, UpToChanges, Zenon
    <3>2. \A x, y : Fits(TRUE, x, y) => Fits(faults = 0, x, y)
      BY Zenon DEF Fits
    <3>3. produced + 1 \in Nat
      BY <1>2
    <3>4. Ranked(faults = 0, queue') /\ Ahead(faults = 0, sent, queue') /\ Ahead(faults = 0, Backlog, queue')
      BY <1>2, <1>5, <2>2, <3>1, <3>2, <3>3, AppendFits, Zenon DEF Chain
    <3> QED
      BY <1>5, <3>4, Zenon DEF Chain
  <2> QED
    BY <1>1, <2>1, <2>2, Zenon
<1>8. OutboxChain'
  BY <1>1, <1>2, <1>6, <1>7, Zenon DEF OutboxChain
<1> QED
  BY <1>3, <1>4, <1>8, Zenon DEF OutboxInv

\* The connection, the two goroutines and the loop around them move no message.
LEMMA MovesNothingInv ==
    ASSUME OutboxInv, StreamBreaks \/ IncomingEnds \/ OutgoingEnds \/ Reconnect
    PROVE  OutboxInv'
<1>1. /\ UNCHANGED <<produced, queue, pending, msgs, file, sent, faults>>
      /\ outgoing' = "resending" <=> outgoing = "resending"
      /\ outgoing' = "idle" /\ streamUp' => outgoing = "idle" /\ streamUp
  <2>1. CASE StreamBreaks
    BY <2>1, Zenon DEF StreamBreaks
  <2>2. CASE IncomingEnds
    BY <2>2, Zenon DEF IncomingEnds
  <2>3. CASE OutgoingEnds
    BY <2>3, Zenon DEF OutgoingEnds
  <2>4. CASE Reconnect
    BY <2>4, Zenon DEF Reconnect
  <2> QED
    BY <2>1, <2>2, <2>3, <2>4, Zenon
<1>2. Backlog' = Backlog
  BY <1>1, Zenon DEF Backlog
<1>3. OutboxTypeOK' /\ OutboxChain'
  BY <1>1, <1>2, Zenon DEF OutboxInv, OutboxTypeOK, OutboxChain
<1>4. StoreIsSaved'
  BY <1>1, Zenon DEF OutboxInv, StoreIsSaved, Blank
<1> QED
  BY <1>3, <1>4, Zenon DEF OutboxInv

LEMMA AgentRestartsInv ==
    ASSUME OutboxInv, AgentRestarts
    PROVE  OutboxInv'
<1>1. /\ UNCHANGED <<produced, file, sent, faults>> /\ queue' = <<>> /\ pending' = <<>> /\ msgs' = <<>>
      /\ outgoing' = "loading" /\ <<>> \in Seq(Nat)
  BY DEF AgentRestarts
<1>2. OutboxTypeOK'
  BY <1>1, Zenon DEF OutboxInv, OutboxTypeOK
<1>3. Backlog' = <<>>
  BY <1>1, Zenon DEF Backlog
<1>4. \A i \in 1..Len(<<>>) : FALSE
  OBVIOUS
<1>5. OutboxChain'
  BY <1>1, <1>3, <1>4, NothingFits, Zenon DEF OutboxInv, OutboxChain, Chain, UpTo
<1>6. StoreIsSaved'
  BY <1>1, <1>4, Zenon DEF StoreIsSaved, Blank
<1> QED
  BY <1>2, <1>5, <1>6, Zenon DEF OutboxInv

LEMMA ClearInv ==
    ASSUME OutboxInv, Clear
    PROVE  OutboxInv'
<1>1. /\ UNCHANGED <<produced, queue, pending, sent>> /\ outgoing = "resending" /\ pending = <<>>
      /\ outgoing' = "idle" /\ msgs' = <<>> /\ WriteFile(<<>>) /\ <<>> \in Seq(Nat) /\ OutboxTypeOK
  BY DEF Clear, OutboxInv
<1>2. file' \in Seq(Nat) \cup {Torn} /\ faults' \in Nat /\ (faults' = 0 => faults = 0)
  BY <1>1, WriteFileResult, Zenon
<1>3. OutboxTypeOK'
  BY <1>1, <1>2, Zenon DEF OutboxTypeOK
<1>4. Backlog = <<>> /\ Backlog' = <<>>
  BY <1>1, Zenon DEF Backlog
<1>5. OutboxChain'
  <2>1. Chain(faults = 0, sent', Backlog', queue')
    BY <1>1, <1>4, Zenon DEF OutboxInv, OutboxChain
  <2>2. Chain(faults' = 0, sent', Backlog', queue')
    BY <1>2, <2>1, ChainKept, Zenon
  <2> QED
    BY <1>1, <1>4, <2>2, Zenon DEF OutboxInv, OutboxChain
<1>6. StoreIsSaved'
  <2>1. \A i \in 1..Len(<<>>) : FALSE
    OBVIOUS
  <2> QED
    BY <1>1, <2>1, Zenon DEF StoreIsSaved, Blank
<1> QED
  BY <1>3, <1>5, <1>6, Zenon DEF OutboxInv

LEMMA LoadInv ==
    ASSUME OutboxInv, Load
    PROVE  OutboxInv'
<1>1. /\ UNCHANGED <<produced, queue, streamUp, file, sent, faults>> /\ outgoing = "loading" /\ Backlog = msgs
      /\ pending = <<>> /\ outgoing' \in {"resending", "idle"}
      /\ produced \in Nat /\ queue \in Seq(Nat) /\ sent \in Seq(Nat) /\ msgs \in Seq(Nat)
  BY Zenon DEF Load, Backlog, OutboxInv, OutboxTypeOK, StoreIsSaved
<1>2. /\ outgoing' = "resending" => file # Torn /\ (\A i \in 1..Len(file) : Decodes(i)) /\ msgs' = file /\ pending' = file
      /\ outgoing' = "idle" => /\ pending' = pending
                               /\ file = Torn => msgs' = msgs
                               /\ file # Torn => msgs' = Decoded /\ ~ \A i \in 1..Len(file) : Decodes(i)
  BY Zenon DEF Load
<1>3. /\ Chain(faults = 0, sent, msgs, queue) /\ UpTo(sent, produced) /\ UpTo(msgs, produced) /\ UpTo(queue, produced)
  BY <1>1, Zenon DEF OutboxInv, OutboxChain
<1>4. file # Torn => file \in Seq(Nat) /\ Len(file) \in Nat
  BY DEF OutboxInv, OutboxTypeOK
<1>5. Len(msgs) \in Nat /\ 1..Len(msgs) \subseteq Nat
  BY <1>1
<1>6. file # Torn => \A i \in 1..Len(file) : i <= Len(msgs) => i \in 1..Len(msgs)
  BY <1>4, <1>5
<1>7. file # Torn => /\ Decoded \in Seq(Nat) /\ Len(Decoded) = Len(file)
                     /\ \A i \in 1..Len(file) : Decoded[i] = IF Decodes(i) THEN file[i] ELSE 0
  <2> SUFFICES ASSUME file # Torn
               PROVE  /\ Decoded \in Seq(Nat) /\ Len(Decoded) = Len(file)
                      /\ \A i \in 1..Len(file) : Decoded[i] = IF Decodes(i) THEN file[i] ELSE 0
    BY Zenon
  <2>1. \A i \in 1..Len(file) : (IF Decodes(i) THEN file[i] ELSE 0) \in Nat
    BY <1>4
  <2>2. Decoded \in [1..Len(file) -> Nat]
    BY <2>1, Zenon DEF Decoded
  <2> QED
    BY <1>4, <2>2 DEF Decoded
<1>8. /\ msgs' \in Seq(Nat) /\ pending' \in Seq(Nat) /\ Backlog' \in Seq(Nat) /\ Pruned(Backlog', msgs)
  <2>1. CASE outgoing' = "resending"
    <3>1. Pruned(file, msgs)
      BY <1>2, <1>6, <2>1, Zenon DEF Pruned, Decodes
    <3> QED
      BY <1>2, <1>4, <2>1, <3>1, Zenon DEF Backlog
  <2>2. CASE outgoing' = "idle"
    <3>1. Backlog' = msgs' /\ pending' \in Seq(Nat)
      BY <1>1, <1>2, <2>2 DEF Backlog
    <3>2. CASE file = Torn
      BY <1>1, <1>2, <2>2, <3>1, <3>2, Zenon DEF Pruned
    <3>3. CASE file # Torn
      <4>1. Pruned(Decoded, msgs)
        BY <1>6, <1>7, <3>3, Zenon DEF Pruned, Decodes
      <4> QED
        BY <1>2, <1>7, <2>2, <3>1, <3>3, <4>1, Zenon
    <3> QED
      BY <3>2, <3>3, Zenon
  <2> QED
    BY <1>1, <2>1, <2>2, Zenon
<1>9. OutboxTypeOK'
  BY <1>1, <1>8, Zenon DEF OutboxInv, OutboxTypeOK
<1>10. OutboxChain'
  <2>1. Chain(faults = 0, sent, Backlog', queue)
    BY <1>1, <1>3, <1>8, PrunedFits, Zenon DEF Chain
  <2>2. UpTo(Backlog', produced)
    BY <1>1, <1>3, <1>8, UpToChanges, Zenon
  <2> QED
    BY <1>1, <1>3, <2>1, <2>2, Zenon DEF OutboxChain
<1>11. StoreIsSaved'
  <2>1. CASE outgoing' = "resending"
    BY <2>1, Zenon DEF StoreIsSaved
  <2>2. CASE outgoing' = "idle"
    <3>1. ASSUME faults = 0 PROVE Blank(msgs')
      <4>1. file = msgs \/ Blank(msgs)
        BY <1>1, <3>1, Zenon DEF OutboxInv, StoreIsSaved
      <4>2. CASE file = Torn
        BY <1>1, <1>2, <2>2, <4>1, <4>2, OutboxAssumption, Zenon
      <4>3. CASE file # Torn
        <5>1. file # msgs
          <6>1. file = msgs => \A i \in 1..Len(file) : i <= Len(msgs)
            BY <1>4, <4>3
          <6> QED
            BY <1>2, <2>2, <4>3, <6>1, Zenon DEF Decodes
        <5>2. \A i \in 1..Len(file) : Decoded[i] = 0
          BY <1>6, <1>7, <4>1, <4>3, <5>1, Zenon DEF Decodes, Blank
        <5> QED
          BY <1>2, <1>7, <2>2, <4>3, <5>2, Zenon DEF Blank
      <4> QED
        BY <4>2, <4>3, Zenon
    <3>2. pending' = <<>>
      BY <1>1, <1>2, <2>2, Zenon
    <3> QED
      BY <1>1, <3>1, <3>2, Zenon DEF StoreIsSaved, Blank
  <2> QED
    BY <1>1, <2>1, <2>2, Zenon
<1> QED
  BY <1>9, <1>10, <1>11, Zenon DEF OutboxInv

LEMMA ResendInv ==
    ASSUME OutboxInv, Resend
    PROVE  OutboxInv'
<1>1. /\ UNCHANGED <<produced, queue, streamUp, outgoing>> /\ outgoing = "resending" /\ pending # <<>>
      /\ pending' = Tail(pending) /\ Backlog = pending /\ Backlog' = pending'
      /\ produced \in Nat /\ queue \in Seq(Nat) /\ sent \in Seq(Nat) /\ pending \in Seq(Nat) /\ msgs \in Seq(Nat)
  BY Zenon DEF Resend, Backlog, OutboxInv, OutboxTypeOK
<1>2. /\ Chain(faults = 0, sent, pending, queue)
      /\ UpTo(sent, produced) /\ UpTo(pending, produced) /\ UpTo(queue, produced)
  BY <1>1, Zenon DEF OutboxInv, OutboxChain
<1>3. Head(pending) \in Nat /\ Tail(pending) \in Seq(Nat) /\ Head(pending) <= produced /\ UpTo(pending', produced)
  BY <1>1, <1>2, TailFits, UpToChanges, Zenon
<1>4. Chain(faults = 0, sent, pending', queue)
  BY <1>1, <1>2, TailFits, Zenon DEF Chain
<1>5. StoreIsSaved'
  BY <1>1, Zenon DEF StoreIsSaved
<1>6. CASE streamUp
  <2>1. sent' = Append(sent, Head(pending)) /\ UNCHANGED <<msgs, file, faults>>
    BY <1>6, Zenon DEF Resend
  <2>2. sent' \in Seq(Nat) /\ UpTo(sent', produced)
    BY <1>1, <1>2, <1>3, <2>1, AppendProperties, UpToChanges, Zenon
  <2>3. Ranked(faults = 0, sent')
    BY <1>1, <1>2, <1>3, <2>1, TailFits, AppendFits, Zenon DEF Chain
  <2>4. Ahead(faults = 0, sent', pending')
    <3>1. \A i \in 1..Len(pending') : Fits(faults = 0, Head(pending), pending'[i])
      BY <1>1, <1>2, TailFits, Zenon DEF Chain
    <3> QED
      BY <1>1, <1>3, <1>4, <2>1, <3>1, AppendFits, Zenon DEF Chain
  <2>5. Ahead(faults = 0, sent', queue)
    <3>1. \A i \in 1..Len(queue) : Fits(faults = 0, Head(pending), queue[i])
      BY <1>1, <1>2, TailFits, Zenon DEF Chain
    <3> QED
      BY <1>1, <1>3, <1>4, <2>1, <3>1, AppendFits, Zenon DEF Chain
  <2>6. OutboxChain'
    BY <1>1, <1>2, <1>3, <1>4, <2>1, <2>2, <2>3, <2>4, <2>5, Zenon DEF OutboxChain, Chain
  <2>7. OutboxTypeOK'
    BY <1>1, <1>3, <2>1, <2>2, Zenon DEF OutboxInv, OutboxTypeOK
  <2> QED
    BY <1>5, <2>6, <2>7, Zenon DEF OutboxInv
<1>7. CASE ~streamUp
  <2>1. sent' = sent /\ msgs' = Append(msgs, Head(pending)) /\ WriteFile(msgs')
    BY <1>7, Zenon DEF Resend, Add
  <2>2. msgs' \in Seq(Nat)
    BY <1>1, <1>3, <2>1, AppendProperties, Zenon
  <2>3. /\ file' \in Seq(Nat) \cup {Torn} /\ faults' \in Nat /\ (faults' = 0 => faults = 0)
    BY <2>1, <2>2, WriteFileResult, Zenon DEF OutboxInv
  <2>4. OutboxTypeOK'
    BY <1>1, <1>3, <2>1, <2>2, <2>3, Zenon DEF OutboxInv, OutboxTypeOK
  <2>5. Chain(faults' = 0, sent', Backlog', queue')
    BY <1>1, <1>4, <2>1, <2>3, ChainKept, Zenon
  <2>6. OutboxChain'
    BY <1>1, <1>2, <1>3, <2>1, <2>5, Zenon DEF OutboxChain
  <2> QED
    BY <1>5, <2>4, <2>6, Zenon DEF OutboxInv
<1> QED
  BY <1>6, <1>7, Zenon

LEMMA SendQueuedInv ==
    ASSUME OutboxInv, SendQueued
    PROVE  OutboxInv'
<1>1. /\ UNCHANGED <<produced, streamUp, outgoing, pending>> /\ outgoing = "idle" /\ queue # <<>>
      /\ queue' = Tail(queue) /\ Backlog = msgs /\ Backlog' = msgs' /\ pending = <<>>
      /\ produced \in Nat /\ queue \in Seq(Nat) /\ sent \in Seq(Nat) /\ msgs \in Seq(Nat)
  BY Zenon DEF SendQueued, Backlog, OutboxInv, OutboxTypeOK, StoreIsSaved
<1>2. /\ Chain(faults = 0, sent, msgs, queue)
      /\ UpTo(sent, produced) /\ UpTo(msgs, produced) /\ UpTo(queue, produced)
  BY <1>1, Zenon DEF OutboxInv, OutboxChain
<1>3. Head(queue) \in Nat /\ queue' \in Seq(Nat) /\ Head(queue) <= produced /\ UpTo(queue', produced)
  BY <1>1, <1>2, TailFits, UpToChanges, Zenon
<1>4. Chain(faults = 0, sent, msgs, queue')
  BY <1>1, <1>2, TailFits, Zenon DEF Chain
<1>5. /\ \A i \in 1..Len(queue') : Fits(faults = 0, Head(queue), queue'[i])
      /\ \A i \in 1..Len(sent) : Fits(faults = 0, sent[i], Head(queue))
      /\ \A i \in 1..Len(msgs) : Fits(faults = 0, msgs[i], Head(queue))
  BY <1>1, <1>2, TailFits, Zenon DEF Chain
<1>6. CASE streamUp
  <2>1. sent' = Append(sent, Head(queue)) /\ UNCHANGED <<msgs, file, faults>>
    BY <1>6, Zenon DEF SendQueued
  <2>2. sent' \in Seq(Nat) /\ UpTo(sent', produced)
    BY <1>1, <1>2, <1>3, <2>1, AppendProperties, UpToChanges, Zenon
  <2>3. Ranked(faults = 0, sent') /\ Ahead(faults = 0, sent', queue')
    BY <1>1, <1>3, <1>4, <1>5, <2>1, AppendFits, Zenon DEF Chain
  <2>4. \A i \in 1..Len(msgs) : Fits(faults = 0, Head(queue), msgs[i])
    <3>1. faults = 0 => Blank(msgs)
      BY <1>1, <1>6, Zenon DEF OutboxInv, StoreIsSaved
    <3> QED
      BY <1>5, <3>1, Zenon DEF Fits, Blank
  <2>5. Ahead(faults = 0, sent', msgs)
    BY <1>1, <1>3, <1>4, <2>1, <2>4, AppendFits, Zenon DEF Chain
  <2>6. OutboxChain'
    BY <1>1, <1>2, <1>3, <1>4, <2>1, <2>2, <2>3, <2>5, Zenon DEF OutboxChain, Chain
  <2>7. OutboxTypeOK'
    BY <1>1, <1>3, <2>1, <2>2, Zenon DEF OutboxInv, OutboxTypeOK
  <2>8. StoreIsSaved'
    BY <1>1, <2>1, Zenon DEF OutboxInv, StoreIsSaved, Blank
  <2> QED
    BY <2>6, <2>7, <2>8, Zenon DEF OutboxInv
<1>7. CASE ~streamUp
  <2>1. sent' = sent /\ msgs' = Append(msgs, Head(queue)) /\ WriteFile(msgs')
    BY <1>7, Zenon DEF SendQueued, Add
  <2>2. msgs' \in Seq(Nat) /\ UpTo(msgs', produced)
    BY <1>1, <1>2, <1>3, <2>1, AppendProperties, UpToChanges, Zenon
  <2>3. /\ file' \in Seq(Nat) \cup {Torn} /\ faults' \in Nat /\ (faults' = 0 => faults = 0 /\ file' = msgs')
    BY <2>1, <2>2, WriteFileResult, Zenon DEF OutboxInv
  <2>4. OutboxTypeOK'
    BY <1>1, <1>3, <2>1, <2>2, <2>3, Zenon DEF OutboxInv, OutboxTypeOK
  <2>5. Ranked(faults = 0, msgs') /\ Ahead(faults = 0, sent, msgs') /\ Ahead(faults = 0, msgs', queue')
    BY <1>1, <1>3, <1>4, <1>5, <2>1, AppendFits, Zenon DEF Chain
  <2>6. Chain(faults = 0, sent', Backlog', queue')
    BY <1>1, <1>4, <2>1, <2>5, Zenon DEF Chain
  <2>7. Chain(faults' = 0, sent', Backlog', queue')
    BY <2>3, <2>6, ChainKept, Zenon
  <2>8. OutboxChain'
    BY <1>1, <1>2, <1>3, <2>1, <2>2, <2>7, Zenon DEF OutboxChain
  <2>9. StoreIsSaved'
    BY <1>1, <1>7, <2>3, Zenon DEF StoreIsSaved
  <2> QED
    BY <2>4, <2>8, <2>9, Zenon DEF OutboxInv
<1> QED
  BY <1>6, <1>7, Zenon

LEMMA OutboxInvImplies ==
    OutboxInv => SentInOrder
<1> SUFFICES ASSUME OutboxInv
             PROVE  SentInOrder
  BY Zenon
<1>1. /\ sent \in Seq(Nat) /\ queue \in Seq(Nat) /\ pending \in Seq(Nat) /\ msgs \in Seq(Nat)
  BY Zenon DEF OutboxInv, OutboxTypeOK
<1>2. Chain(faults = 0, sent, Backlog, queue)
  BY Zenon DEF OutboxInv, OutboxChain
<1>3. OnlyOnce(sent)
  <2>1. Ranked(FALSE, sent)
    BY <1>2, WeakerFits, Zenon DEF Chain
  <2>2. \A i, j \in 1..Len(sent) : i # j => i < j \/ j < i
    BY <1>1
  <2> QED
    BY <2>1, <2>2, Zenon DEF OnlyOnce, Ranked, Fits
<1>4. ASSUME NEW t \in Seq(Nat), Chain(TRUE, sent, t, queue)
      PROVE  InOrder(sent \o t \o queue)
  <2>1. Ranked(TRUE, sent \o t) /\ sent \o t \in Seq(Nat)
    BY <1>1, <1>4, ConcatFits, ConcatProperties, Zenon DEF Chain
  <2>2. Ahead(TRUE, sent \o t, queue)
    BY <1>1, <1>4, ConcatBefore, Zenon DEF Chain
  <2>3. Ranked(TRUE, (sent \o t) \o queue)
    BY <1>1, <1>4, <2>1, <2>2, ConcatFits, Zenon DEF Chain
  <2> QED
    BY <2>3, Zenon DEF InOrder, Ranked, Fits
<1>5. faults = 0 => Chain(TRUE, sent, Backlog, queue)
  BY <1>2, WeakerFits, Zenon DEF Chain
<1>6. Chain(TRUE, sent, Backlog, queue) => Chain(TRUE, sent, <<>>, queue)
  BY NothingFits, Zenon DEF Chain
<1>7. outgoing = "resending" => Backlog = pending
  BY Zenon DEF Backlog
<1>8. outgoing # "resending" => Backlog = msgs /\ pending = <<>>
  BY Zenon DEF Backlog, OutboxInv, StoreIsSaved
<1>9. outgoing \in {"idle", "ended"} => outgoing # "resending"
  BY Zenon
<1> QED
  BY <1>1, <1>3, <1>4, <1>5, <1>6, <1>7, <1>8, <1>9, Zenon DEF SentInOrder

(***************************************************************************)
(* The messages sent, those stored or pending and the queue stay in one    *)
(* line: under breaking streams, failing writes and restarts of the agent  *)
(* no step of handleOutgoingMessages puts a message before an older one    *)
(* or leaves it in two places, and without failed writes what is in the    *)
(* file is what is in memory.                                              *)
(***************************************************************************)
THEOREM OutboxInvariant ==
    OutboxSpec => []OutboxInv
<1>1. OutboxInit => OutboxInv
  BY OutboxInitially, Zenon
<1>2. OutboxInv /\ [OutboxNext]_outboxVars => OutboxInv'
  <2> SUFFICES ASSUME OutboxInv, [OutboxNext]_outboxVars
               PROVE  OutboxInv'
    BY Zenon
  <2>1. CASE SendMessage
    BY <2>1, SendMessageInv, Zenon
  <2>2. CASE StreamBreaks \/ IncomingEnds \/ OutgoingEnds \/ Reconnect
    BY <2>2, MovesNothingInv, Zenon
  <2>3. CASE Load
    BY <2>3, LoadInv, Zenon
  <2>4. CASE Resend
    BY <2>4, ResendInv, Zenon
  <2>5. CASE Clear
    BY <2>5, ClearInv, Zenon
  <2>6. CASE SendQueued
    BY <2>6, SendQueuedInv, Zenon
  <2>7. CASE AgentRestarts
    BY <2>7, AgentRestartsInv, Zenon
  <2>8. CASE UNCHANGED outboxVars
    BY <2>8, Zenon DEF outboxVars, OutboxInv, OutboxTypeOK, OutboxChain, StoreIsSaved, Backlog, Blank
  <2> QED
    BY <2>1, <2>2, <2>3, <2>4, <2>5, <2>6, <2>7, <2>8, Zenon DEF OutboxNext, OutgoingStep
<1> QED
  BY <1>1, <1>2, PTL DEF OutboxSpec

(***************************************************************************)
(* For every size of the queue, number of messages and number of breaks,   *)
(* failed writes and restarts: no message reaches a stream twice, and      *)
(* without failed writes none overtakes an older one.                      *)
(***************************************************************************)
THEOREM MessagesKeepTheirOrder ==
    OutboxSpec => []SentInOrder
BY OutboxInvariant, OutboxInvImplies, PTL

=============================================================================
