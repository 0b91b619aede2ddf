--------------------------- MODULE TransferProofs ---------------------------
(***************************************************************************)
(* Proofs about the files that pass between the SDK and the agent, for     *)
(* every size of a message, every limit and every length of the files.     *)
(*                                                                         *)
(* A file on its way is in three places: what has arrived, the pieces on   *)
(* the stream and what is still to be read.  Slice, Cut and Way say that   *)
(* the three are the file, in order, cut anywhere; the lemmas about them   *)
(* say what sending, receiving and changing the file do to that.           *)
(***************************************************************************)
EXTENDS AgentTransfers, SequenceTheorems, TLAPS

\* The bytes of a file after the first a of them, up to the one numbered b.
Slice(f, a, b) == SubSeq(f, a + 1, b)

LEMMA SliceOf ==
    ASSUME NEW f \in Seq(Nat), NEW a \in 0..Len(f), NEW b \in a..Len(f)
    PROVE  /\ Slice(f, a, b) \in Seq(Nat) /\ Len(Slice(f, a, b)) = b - a
           /\ \A i \in 1..(b - a) : Slice(f, a, b)[i] = f[a + i]
<1>1. \A i \in (a + 1)..b : f[i] \in Nat
  OBVIOUS
<1> QED
  BY <1>1, SubSeqProperties DEF Slice

LEMMA SlicesMeet ==
    ASSUME NEW f \in Seq(Nat), NEW a \in 0..Len(f), NEW b \in a..Len(f), NEW c \in b..Len(f)
    PROVE  Slice(f, a, b) \o Slice(f, b, c) = Slice(f, a, c)
BY ConcatAdjacentSubSeq DEF Slice

LEMMA SliceOfSlice ==
    ASSUME NEW f \in Seq(Nat), NEW b \in 0..Len(f), NEW m \in 0..(Len(f) - b), NEW n \in m..(Len(f) - b)
    PROVE  Slice(Slice(f, b, Len(f)), m, n) = Slice(f, b + m, b + n)
<1> DEFINE u == Slice(f, b, Len(f))
           s == Slice(u, m, n)
           t == Slice(f, b + m, b + n)
<1>1. Len(f) \in b..Len(f) /\ b + m \in 0..Len(f) /\ b + n \in (b + m)..Len(f) /\ (b + n) - (b + m) = n - m
  OBVIOUS
<1>2. u \in Seq(Nat) /\ Len(u) = Len(f) - b /\ \A i \in 1..(Len(f) - b) : u[i] = f[b + i]
  BY <1>1, SliceOf, Zenon
<1> HIDE DEF u
<1>3. m \in 0..Len(u) /\ n \in m..Len(u)
  BY <1>2, Zenon
<1>4. s \in Seq(Nat) /\ Len(s) = n - m /\ \A i \in 1..(n - m) : s[i] = u[m + i]
  BY <1>2, <1>3, SliceOf, Zenon
<1>5. t \in Seq(Nat) /\ Len(t) = n - m /\ \A i \in 1..(n - m) : t[i] = f[b + m + i]
  <2>1. t \in Seq(Nat) /\ Len(t) = (b + n) - (b + m) /\ \A i \in 1..((b + n) - (b + m)) : t[i] = f[b + m + i]
    BY <1>1, SliceOf, Zenon
  <2> QED
    BY <1>1, <2>1, Zenon
<1> HIDE DEF s, t
<1>6. \A i \in 1..(n - m) : m + i \in 1..(Len(f) - b) /\ b + (m + i) = b + m + i
  OBVIOUS
<1>7. \A i \in 1..(n - m) : s[i] = t[i]
  BY <1>2, <1>4, <1>5, <1>6, Zenon
<1>8. s = t
  BY <1>4, <1>5, <1>7, SeqEqual, Zenon
<1> QED
  BY <1>8, Zenon DEF s, t, u

\* The pieces ps are the bytes of f from a to b, cut anywhere.
Cut(ps, f, a, b) ==
    \E p \in [0..Len(ps) -> a..b] :
        /\ p[0] = a /\ p[Len(ps)] = b
        /\ \A i, j \in 0..Len(ps) : i <= j => p[i] <= p[j]
        /\ \A k \in 1..Len(ps) : ps[k] = Slice(f, p[k - 1], p[k])

LEMMA CutNothing ==
    ASSUME NEW f, NEW a \in Nat, NEW b \in Nat
    PROVE  Cut(<<>>, f, a, b) <=> a = b
<1>1. Cut(<<>>, f, a, b) => a = b
  BY Zenon DEF Cut
<1>2. ASSUME a = b PROVE Cut(<<>>, f, a, b)
  <2> DEFINE p == [i \in 0..Len(<<>>) |-> a]
  <2>1. Len(<<>>) = 0
    BY Zenon
  <2>2. p \in [0..Len(<<>>) -> a..b] /\ p[0] = a /\ p[Len(<<>>)] = b
    BY <1>2, <2>1
  <2>3. \A i, j \in 0..Len(<<>>) : p[i] <= p[j]
    BY <2>1
  <2>4. \A k \in 1..Len(<<>>) : FALSE
    BY <2>1
  <2> HIDE DEF p
  <2> QED
    BY <2>2, <2>3, <2>4, Zenon DEF Cut
<1> QED
  BY <1>1, <1>2, Zenon

LEMMA CutGoesUp ==
    ASSUME NEW ps \in Seq(Seq(Nat)), NEW f, NEW a \in Nat, NEW b \in Nat, Cut(ps, f, a, b)
    PROVE  a <= b
<1>1. PICK p \in [0..Len(ps) -> a..b] : p[0] = a
  BY Zenon DEF Cut
<1>2. 0 \in 0..Len(ps)
  OBVIOUS
<1>3. a \in a..b
  BY <1>1, <1>2, Zenon
<1> QED
  BY <1>3

LEMMA CutMore ==
    ASSUME NEW ps \in Seq(Seq(Nat)), NEW f, NEW a \in Nat, NEW b \in Nat, a <= b, Cut(ps, f, a, b),
           NEW c \in Nat, b <= c
    PROVE  Cut(Append(ps, Slice(f, b, c)), f, a, c)
<1> DEFINE n == Len(ps)
           qs == Append(ps, Slice(f, b, c))
<1>1. PICK p \in [0..n -> a..b] :
        /\ p[0] = a /\ p[n] = b
        /\ \A i, j \in 0..n : i <= j => p[i] <= p[j]
        /\ \A k \in 1..n : ps[k] = Slice(f, p[k - 1], p[k])
  BY Zenon DEF Cut
<1> DEFINE q == [i \in 0..(n + 1) |-> IF i = n + 1 THEN c ELSE p[i]]
<1>2. n \in Nat /\ Len(qs) = n + 1 /\ qs[n + 1] = Slice(f, b, c) /\ \A k \in 1..n : qs[k] = ps[k]
  OBVIOUS
<1> HIDE DEF n, qs
<1>3. q \in [0..(n + 1) -> a..c] /\ q[0] = a /\ q[n + 1] = c /\ \A i \in 0..n : q[i] = p[i]
  BY <1>1, <1>2
<1> HIDE DEF q
<1>4. \A i, j \in 0..(n + 1) : i <= j => q[i] <= q[j]
  <2> SUFFICES ASSUME NEW i \in 0..(n + 1), NEW j \in 0..(n + 1), i <= j
               PROVE  q[i] <= q[j]
    BY Zenon
  <2>1. CASE j = n + 1
    BY <1>3, <2>1
  <2>2. CASE j # n + 1
    <3>1. i \in 0..n /\ j \in 0..n
      BY <1>2, <2>2
    <3> QED
      BY <1>1, <1>3, <3>1, Zenon
  <2> QED
    BY <2>1, <2>2, Zenon
<1>5. \A k \in 1..(n + 1) : qs[k] = Slice(f, q[k - 1], q[k])
  <2> SUFFICES ASSUME NEW k \in 1..(n + 1)
               PROVE  qs[k] = Slice(f, q[k - 1], q[k])
    BY Zenon
  <2>1. CASE k = n + 1
    BY <1>1, <1>2, <1>3, <2>1
  <2>2. CASE k # n + 1
    <3>1. k \in 1..n /\ k - 1 \in 0..n /\ k \in 0..n
      BY <1>2, <2>2
    <3> QED
      BY <1>1, <1>2, <1>3, <3>1, Zenon
  <2> QED
    BY <2>1, <2>2, Zenon
<1>6. Cut(qs, f, a, c)
  BY <1>2, <1>3, <1>4, <1>5, Zenon DEF Cut
<1> QED
  BY <1>6, Zenon DEF qs

LEMMA CutTail ==
    ASSUME NEW ps \in Seq(Seq(Nat)), ps # <<>>, NEW f, NEW a \in Nat, NEW b \in Nat, Cut(ps, f, a, b)
    PROVE  \E c \in a..b : Head(ps) = Slice(f, a, c) /\ Cut(Tail(ps), f, c, b)
<1> DEFINE n == Len(ps) - 1
           qs == Tail(ps)
<1>1. n \in Nat /\ Len(ps) = n + 1 /\ qs \in Seq(Seq(Nat)) /\ Len(qs) = n /\ Head(ps) = ps[1]
      /\ \A k \in 1..n : qs[k] = ps[k + 1]
  OBVIOUS
<1>2. PICK p \in [0..Len(ps) -> a..b] :
        /\ p[0] = a /\ p[Len(ps)] = b
        /\ \A i, j \in 0..Len(ps) : i <= j => p[i] <= p[j]
        /\ \A k \in 1..Len(ps) : ps[k] = Slice(f, p[k - 1], p[k])
  BY Zenon DEF Cut
<1> DEFINE c == p[1]
           q == [i \in 0..n |-> p[i + 1]]
<1> HIDE DEF n, qs
<1>3. c \in a..b /\ Head(ps) = Slice(f, a, c)
  <2>1. 1 \in 0..Len(ps) /\ 1 \in 1..Len(ps) /\ 1 - 1 = 0
    BY <1>1
  <2> QED
    BY <1>1, <1>2, <2>1, Zenon
<1>4. \A i \in 0..n : i + 1 \in 0..Len(ps) /\ 1 \in 0..Len(ps) /\ 1 <= i + 1
  BY <1>1
<1>5. \A i \in 0..n : p[i + 1] \in c..b
  <2> SUFFICES ASSUME NEW i \in 0..n
               PROVE  p[i + 1] \in c..b
    BY Zenon
  <2>1. c \in a..b /\ p[i + 1] \in a..b /\ c <= p[i + 1]
    BY <1>2, <1>4, Zenon
  <2> HIDE DEF c
  <2> QED
    BY <2>1
<1>6. q \in [0..n -> c..b] /\ q[0] = c /\ q[n] = b /\ \A i \in 0..n : q[i] = p[i + 1]
  BY <1>1, <1>2, <1>5
<1> HIDE DEF q, c
<1>7. \A i, j \in 0..n : i <= j => q[i] <= q[j]
  <2> SUFFICES ASSUME NEW i \in 0..n, NEW j \in 0..n, i <= j
               PROVE  q[i] <= q[j]
    BY Zenon
  <2>1. i + 1 \in 0..Len(ps) /\ j + 1 \in 0..Len(ps) /\ i + 1 <= j + 1
    BY <1>1
  <2> QED
    BY <1>2, <1>6, <2>1, Zenon
<1>8. \A k \in 1..n : qs[k] = Slice(f, q[k - 1], q[k])
  <2> SUFFICES ASSUME NEW k \in 1..n
               PROVE  qs[k] = Slice(f, q[k - 1], q[k])
    BY Zenon
  <2>1. k - 1 \in 0..n /\ k \in 0..n /\ k + 1 \in 1..Len(ps) /\ (k - 1) + 1 = k /\ (k + 1) - 1 = k
    BY <1>1
  <2>2. q[k - 1] = p[k] /\ q[k] = p[k + 1] /\ qs[k] = ps[k + 1]
    BY <1>1, <1>6, <2>1, Zenon
  <2>3. ps[k + 1] = Slice(f, p[(k + 1) - 1], p[k + 1])
    BY <1>2, <2>1, Zenon
  <2> QED
    BY <2>1, <2>2, <2>3, Zenon
<1>9. Cut(qs, f, c, b)
  BY <1>1, <1>6, <1>7, <1>8, Zenon DEF Cut
<1> QED
  BY <1>3, <1>9, Zenon DEF qs

LEMMA SliceSame ==
    ASSUME NEW f \in Seq(Nat), NEW g \in Seq(Nat), NEW n \in 0..Len(f), n <= Len(g), \A i \in 1..n : f[i] = g[i],
           NEW a \in 0..n, NEW b \in a..n
    PROVE  Slice(f, a, b) = Slice(g, a, b)
<1>1. a \in 0..Len(f) /\ b \in a..Len(f) /\ a \in 0..Len(g) /\ b \in a..Len(g)
  OBVIOUS
<1>2. /\ Slice(f, a, b) \in Seq(Nat) /\ Len(Slice(f, a, b)) = b - a
      /\ \A i \in 1..(b - a) : Slice(f, a, b)[i] = f[a + i]
  BY <1>1, SliceOf, Zenon
<1>3. /\ Slice(g, a, b) \in Seq(Nat) /\ Len(Slice(g, a, b)) = b - a
      /\ \A i \in 1..(b - a) : Slice(g, a, b)[i] = g[a + i]
  BY <1>1, SliceOf, Zenon
<1>4. \A i \in 1..(b - a) : a + i \in 1..n
  OBVIOUS
<1>5. \A i \in 1..(b - a) : Slice(f, a, b)[i] = Slice(g, a, b)[i]
  BY <1>2, <1>3, <1>4, Zenon
<1> QED
  BY <1>2, <1>3, <1>5, SeqEqual, Zenon

LEMMA CutSame ==
    ASSUME NEW f \in Seq(Nat), NEW g \in Seq(Nat), NEW b \in 0..Len(f), b <= Len(g), \A i \in 1..b : f[i] = g[i],
           NEW ps \in Seq(Seq(Nat)), NEW a \in Nat, Cut(ps, f, a, b)
    PROVE  Cut(ps, g, a, b)
<1> DEFINE n == Len(ps)
<1>1. PICK p \in [0..n -> a..b] :
        /\ p[0] = a /\ p[n] = b
        /\ \A i, j \in 0..n : i <= j => p[i] <= p[j]
        /\ \A k \in 1..n : ps[k] = Slice(f, p[k - 1], p[k])
  BY Zenon DEF Cut
<1>2. n \in Nat
  OBVIOUS
<1> HIDE DEF n
<1>3. \A k \in 1..n : ps[k] = Slice(g, p[k - 1], p[k])
  <2> SUFFICES ASSUME NEW k \in 1..n
               PROVE  ps[k] = Slice(g, p[k - 1], p[k])
    BY Zenon
  <2>1. k - 1 \in 0..n /\ k \in 0..n /\ k - 1 <= k
    BY <1>2
  <2>2. p[k - 1] \in a..b /\ p[k] \in a..b /\ p[k - 1] <= p[k]
    BY <1>1, <2>1, Zenon
  <2>3. p[k - 1] \in 0..b /\ p[k] \in p[k - 1]..b
    BY <2>2
  <2>4. Slice(f, p[k - 1], p[k]) = Slice(g, p[k - 1], p[k])
    BY <2>3, SliceSame, Zenon
  <2> QED
    BY <1>1, <2>4, Zenon
<1> QED
  BY <1>1, <1>3, Zenon DEF Cut, n

\* The bytes of f on their way: c has arrived, the pieces ms are on the stream and u is still to be read.
Way(c, ms, u, f) ==
    \E a, b \in 0..Len(f) : c = Slice(f, 0, a) /\ Cut(ms, f, a, b) /\ u = Slice(f, b, Len(f))

\* Nothing is lost and nothing is out of order when a way begins and when it is at its end.
LEMMA WayStarts ==
    ASSUME NEW f \in Seq(Nat)
    PROVE  Way(<<>>, <<>>, f, f)
<1>1. 0 \in Nat /\ 0 \in 0..Len(f) /\ Slice(f, 0, 0) = <<>> /\ f = Slice(f, 0, Len(f))
  BY SubSeqFull, SubSeqEmpty DEF Slice
<1>2. Cut(<<>>, f, 0, 0)
  BY <1>1, CutNothing, Zenon
<1> QED
  BY <1>1, <1>2, Zenon DEF Way

LEMMA WayEnds ==
    ASSUME NEW f \in Seq(Nat), NEW c, Way(c, <<>>, <<>>, f)
    PROVE  c = f
<1>1. PICK a, b \in 0..Len(f) : c = Slice(f, 0, a) /\ Cut(<<>>, f, a, b) /\ <<>> = Slice(f, b, Len(f))
  BY Zenon DEF Way
<1>2. a \in Nat /\ b \in Nat /\ Len(f) \in b..Len(f) /\ b \in 0..Len(f)
  OBVIOUS
<1>3. a = b
  BY <1>1, <1>2, CutNothing, Zenon
<1>4. Len(Slice(f, b, Len(f))) = Len(f) - b
  BY <1>2, SliceOf, Zenon
<1>5. Len(<<>>) = 0
  BY Zenon
<1>6. b = Len(f)
  BY <1>1, <1>2, <1>4, <1>5
<1> QED
  BY <1>1, <1>3, <1>6, SubSeqFull DEF Slice

\* Of an empty file nothing arrives and nothing is to be read.
LEMMA WayOfNothing ==
    ASSUME NEW c, NEW ms, NEW u, Way(c, ms, u, <<>>)
    PROVE  c = <<>> /\ u = <<>>
<1>1. PICK a, b \in 0..0 : c = Slice(<<>>, 0, a) /\ u = Slice(<<>>, b, 0)
  BY Zenon DEF Way
<1>2. a = 0 /\ b = 0 /\ 0 + 1 = 1
  OBVIOUS
<1>3. SubSeq(<<>>, 1, 0) = <<>>
  BY SubSeqEmpty
<1> QED
  BY <1>1, <1>2, <1>3, Zenon DEF Slice

LEMMA WayReceives ==
    ASSUME NEW f \in Seq(Nat), NEW c, NEW ms \in Seq(Seq(Nat)), ms # <<>>, NEW u, Way(c, ms, u, f)
    PROVE  Way(c \o Head(ms), Tail(ms), u, f)
<1>1. PICK a, b \in 0..Len(f) : c = Slice(f, 0, a) /\ Cut(ms, f, a, b) /\ u = Slice(f, b, Len(f))
  BY Zenon DEF Way
<1>2. a \in Nat /\ b \in Nat
  OBVIOUS
<1>3. PICK d \in a..b : Head(ms) = Slice(f, a, d) /\ Cut(Tail(ms), f, d, b)
  BY <1>1, <1>2, CutTail, Zenon
<1>4. d \in 0..Len(f) /\ 0 \in 0..Len(f) /\ a \in 0..Len(f) /\ d \in a..Len(f)
  OBVIOUS
<1>5. Slice(f, 0, a) \o Slice(f, a, d) = Slice(f, 0, d)
  BY <1>4, SlicesMeet, Zenon
<1> QED
  BY <1>1, <1>3, <1>4, <1>5, Zenon DEF Way

\* A piece of at most n bytes is read from the front of a file; the rest stays to be read.
LEMMA FrontAndRest ==
    ASSUME NEW u \in Seq(Nat), NEW n \in Nat
    PROVE  \E k \in 0..Len(u) :
              /\ k = (IF n < Len(u) THEN n ELSE Len(u))
              /\ Front(u, n) = Slice(u, 0, k) /\ Rest(u, n) = Slice(u, k, Len(u))
              /\ Front(u, n) \in Seq(Nat) /\ Len(Front(u, n)) = k
              /\ Rest(u, n) \in Seq(Nat) /\ Len(Rest(u, n)) = Len(u) - k
              /\ Rest(u, Len(Front(u, n))) = Rest(u, n)
<1> DEFINE k == IF n < Len(u) THEN n ELSE Len(u)
<1>1. k \in 0..Len(u) /\ k \in Nat /\ 0 + 1 = 1 /\ 0 \in 0..Len(u) /\ Len(u) \in k..Len(u) /\ k - 0 = k
  OBVIOUS
<1>2. Front(u, n) = Slice(u, 0, k)
  BY <1>1, Zenon DEF Front, Slice
<1>3. Rest(u, n) = Slice(u, k, Len(u))
  <2>1. CASE n <= Len(u)
    <3>1. k = n
      BY <2>1
    <3> QED
      BY <3>1, Zenon DEF Rest, Slice
  <2>2. CASE n > Len(u)
    <3>1. SubSeq(u, n + 1, Len(u)) = <<>> /\ SubSeq(u, Len(u) + 1, Len(u)) = <<>>
      BY <2>2, SubSeqEmpty
    <3> QED
      BY <2>2, <3>1, Zenon DEF Rest, Slice
  <2> QED
    BY <2>1, <2>2
<1> HIDE DEF k
<1>4. Front(u, n) \in Seq(Nat) /\ Len(Front(u, n)) = k
  <2>1. k \in 0..Len(u)
    BY <1>1, Zenon
  <2>2. Slice(u, 0, k) \in Seq(Nat) /\ Len(Slice(u, 0, k)) = k - 0
    BY <1>1, <2>1, SliceOf, Zenon
  <2> QED
    BY <1>1, <1>2, <2>2, Zenon
<1>5. Rest(u, n) \in Seq(Nat) /\ Len(Rest(u, n)) = Len(u) - k
  BY <1>1, <1>3, SliceOf, Zenon
<1>6. Rest(u, Len(Front(u, n))) = Rest(u, n)
  BY <1>3, <1>4, Zenon DEF Rest, Slice
<1>7. k = (IF n < Len(u) THEN n ELSE Len(u))
  BY Zenon DEF k
<1> QED
  BY <1>1, <1>2, <1>3, <1>4, <1>5, <1>6, <1>7, Zenon

LEMMA WaySends ==
    ASSUME NEW f \in Seq(Nat), NEW c, NEW ms \in Seq(Seq(Nat)), NEW u, Way(c, ms, u, f), NEW n \in Nat
    PROVE  Way(c, Append(ms, Front(u, n)), Rest(u, n), f)
<1>1. PICK a, b \in 0..Len(f) : c = Slice(f, 0, a) /\ Cut(ms, f, a, b) /\ u = Slice(f, b, Len(f))
  BY Zenon DEF Way
<1>2. a \in Nat /\ b \in Nat /\ Len(f) \in b..Len(f) /\ b \in 0..Len(f)
  OBVIOUS
<1>3. u \in Seq(Nat) /\ Len(u) = Len(f) - b
  BY <1>1, <1>2, SliceOf, Zenon
<1>4. PICK k \in 0..Len(u) : Front(u, n) = Slice(u, 0, k) /\ Rest(u, n) = Slice(u, k, Len(u))
  BY <1>3, FrontAndRest, Zenon
<1>5. /\ 0 \in 0..(Len(f) - b) /\ k \in 0..(Len(f) - b) /\ Len(f) - b \in k..(Len(f) - b)
      /\ b + 0 = b /\ b + (Len(f) - b) = Len(f)
      /\ b + k \in 0..Len(f) /\ b + k \in Nat /\ b <= b + k
  BY <1>3
<1>6. Front(u, n) = Slice(f, b, b + k)
  <2>1. Slice(Slice(f, b, Len(f)), 0, k) = Slice(f, b + 0, b + k)
    BY <1>5, SliceOfSlice, Zenon
  <2> QED
    BY <1>1, <1>4, <1>5, <2>1, Zenon
<1>7. Rest(u, n) = Slice(f, b + k, Len(f))
  <2>1. Slice(Slice(f, b, Len(f)), k, Len(f) - b) = Slice(f, b + k, b + (Len(f) - b))
    BY <1>5, SliceOfSlice, Zenon
  <2> QED
    BY <1>1, <1>3, <1>4, <1>5, <2>1, Zenon
<1>8. a <= b
  BY <1>1, <1>2, CutGoesUp, Zenon
<1>9. Cut(Append(ms, Slice(f, b, b + k)), f, a, b + k)
  BY <1>1, <1>2, <1>5, <1>8, CutMore, Zenon
<1> QED
  BY <1>1, <1>5, <1>6, <1>7, <1>9, Zenon DEF Way

\* The file changes behind what has been read of it.
LEMMA WayGrows ==
    ASSUME NEW f \in Seq(Nat), NEW c, NEW ms \in Seq(Seq(Nat)), NEW u, Way(c, ms, u, f), NEW x \in Nat
    PROVE  Way(c, ms, Append(u, x), Append(f, x))
<1> DEFINE g == Append(f, x)
<1>1. PICK a, b \in 0..Len(f) : c = Slice(f, 0, a) /\ Cut(ms, f, a, b) /\ u = Slice(f, b, Len(f))
  BY Zenon DEF Way
<1>2. g \in Seq(Nat) /\ Len(g) = Len(f) + 1 /\ g[Len(f) + 1] = x /\ \A i \in 1..Len(f) : g[i] = f[i]
  OBVIOUS
<1>3. u \in Seq(Nat) /\ Len(u) = Len(f) - b /\ \A i \in 1..(Len(f) - b) : u[i] = f[b + i]
  <2>1. Len(f) \in b..Len(f) /\ b \in 0..Len(f)
    OBVIOUS
  <2> QED
    BY <1>1, <2>1, SliceOf, Zenon
<1> DEFINE v == Append(u, x)
           w == Slice(g, b, Len(g))
<1>4. v \in Seq(Nat) /\ Len(v) = Len(f) - b + 1 /\ v[Len(f) - b + 1] = x /\ \A i \in 1..(Len(f) - b) : v[i] = f[b + i]
  BY <1>3
<1> HIDE DEF g
<1>5. w \in Seq(Nat) /\ Len(w) = Len(g) - b /\ \A i \in 1..(Len(g) - b) : w[i] = g[b + i]
  <2>1. b \in 0..Len(g) /\ Len(g) \in b..Len(g)
    BY <1>2
  <2> QED
    BY <1>2, <2>1, SliceOf, Zenon
<1> HIDE DEF v, w
<1>6. v = w
  <2>1. \A i \in 1..Len(v) : v[i] = w[i]
    <3> SUFFICES ASSUME NEW i \in 1..Len(v)
                 PROVE  v[i] = w[i]
      BY Zenon
    <3>1. w[i] = g[b + i]
      BY <1>2, <1>4, <1>5
    <3>2. CASE i = Len(v)
      BY <1>2, <1>4, <3>1, <3>2
    <3>3. CASE i # Len(v)
      <4> DEFINE n == Len(f)
                 m == Len(v)
      <4>1. n \in Nat /\ b \in 0..n /\ m = n - b + 1 /\ i \in 1..m /\ i # m
        BY <1>4, <3>3
      <4> HIDE DEF n, m
      <4>2. i \in 1..(n - b) /\ b + i \in 1..n
        BY <4>1
      <4> QED
        BY <1>2, <1>4, <3>1, <4>2, Zenon DEF n
    <3> QED
      BY <3>2, <3>3, Zenon
  <2>2. Len(v) = Len(w)
    BY <1>2, <1>4, <1>5
  <2> QED
    BY <1>4, <1>5, <2>1, <2>2, SeqEqual, Zenon
<1>7. /\ a \in 0..Len(g) /\ b \in 0..Len(g) /\ a \in Nat /\ b <= Len(g) /\ Len(f) \in 0..Len(f) /\ Len(f) <= Len(g)
      /\ \A i \in 1..b : f[i] = g[i]
      /\ \A i \in 1..Len(f) : f[i] = g[i]
      /\ 0 \in 0..Len(f) /\ a \in 0..Len(f)
  BY <1>2
<1>8. c = Slice(g, 0, a)
  <2>1. Slice(f, 0, a) = Slice(g, 0, a)
    BY <1>2, <1>7, SliceSame, Zenon
  <2> QED
    BY <1>1, <2>1, Zenon
<1>9. Cut(ms, g, a, b)
  BY <1>1, <1>2, <1>7, CutSame, Zenon
<1> QED
  BY <1>6, <1>7, <1>8, <1>9, Zenon DEF Way, v, w, g

LEMMA WayShrinks ==
    ASSUME NEW f \in Seq(Nat), NEW c, NEW ms \in Seq(Seq(Nat)), NEW u, Way(c, ms, u, f), u # <<>>
    PROVE  /\ Way(c, ms, Front(u, Len(u) - 1), Front(f, Len(f) - 1))
           /\ Len(f) > 0 /\ Front(f, Len(f) - 1) \in Seq(Nat) /\ Len(Front(f, Len(f) - 1)) = Len(f) - 1
           /\ Len(Front(u, Len(u) - 1)) = Len(u) - 1
<1> DEFINE n == Len(f) - 1
           g == Front(f, n)
<1>1. PICK a, b \in 0..Len(f) : c = Slice(f, 0, a) /\ Cut(ms, f, a, b) /\ u = Slice(f, b, Len(f))
  BY Zenon DEF Way
<1>2. u \in Seq(Nat) /\ Len(u) = Len(f) - b
  <2>1. Len(f) \in b..Len(f) /\ b \in 0..Len(f)
    OBVIOUS
  <2> QED
    BY <1>1, <2>1, SliceOf, Zenon
<1>3. Len(u) > 0
  <2>1. Len(u) # 0
    BY <1>2, EmptySeq, Zenon
  <2>2. Len(u) \in Nat
    BY <1>2, LenProperties, Zenon
  <2> QED
    BY <2>1, <2>2
<1>4. a <= b
  <2>1. a \in Nat /\ b \in Nat
    OBVIOUS
  <2> QED
    BY <1>1, <2>1, CutGoesUp, Zenon
<1>5. /\ n \in Nat /\ n < Len(f) /\ Len(u) - 1 \in Nat /\ Len(u) - 1 < Len(u) /\ Len(u) - 1 = n - b /\ b + (n - b) = n
      /\ a \in 0..n /\ b \in 0..n /\ n \in 0..Len(f) /\ b + 0 = b /\ a \in Nat
      /\ 0 \in 0..(Len(f) - b) /\ n - b \in 0..(Len(f) - b)
      /\ 0 \in 0..n /\ n \in b..n
  <2> DEFINE lf == Len(f)
             lu == Len(u)
  <2>1. lf \in Nat /\ lu = lf - b /\ lu > 0 /\ a \in 0..lf /\ b \in 0..lf
    BY <1>2, <1>3
  <2> HIDE DEF lf, lu
  <2>2. /\ lf - 1 \in Nat /\ lf - 1 < lf /\ lu - 1 \in Nat /\ lu - 1 < lu /\ lu - 1 = (lf - 1) - b
        /\ b + ((lf - 1) - b) = lf - 1
        /\ a \in 0..(lf - 1) /\ b \in 0..(lf - 1) /\ lf - 1 \in 0..lf /\ b + 0 = b /\ a \in Nat
        /\ 0 \in 0..(lf - b) /\ (lf - 1) - b \in 0..(lf - b)
        /\ 0 \in 0..(lf - 1) /\ lf - 1 \in b..(lf - 1)
    BY <1>4, <2>1
  <2> QED
    BY <2>2, Zenon DEF lf, lu
<1>6. g \in Seq(Nat) /\ Len(g) = n /\ g = Slice(f, 0, n)
  BY <1>5, FrontAndRest, Zenon
<1>7. \A i \in 1..n : f[i] = g[i]
  <2>1. 0 \in 0..Len(f) /\ n \in 0..Len(f) /\ n - 0 = n
    BY <1>5
  <2>2. \A i \in 1..(n - 0) : Slice(f, 0, n)[i] = f[0 + i]
    BY <2>1, SliceOf, Zenon
  <2>3. \A i \in 1..n : 0 + i = i
    OBVIOUS
  <2> QED
    BY <1>6, <2>1, <2>2, <2>3, Zenon
<1>8. Front(u, Len(u) - 1) = Slice(u, 0, n - b) /\ Len(Front(u, Len(u) - 1)) = Len(u) - 1
  <2>1. PICK k \in 0..Len(u) : k = (IF Len(u) - 1 < Len(u) THEN Len(u) - 1 ELSE Len(u))
                              /\ Front(u, Len(u) - 1) = Slice(u, 0, k) /\ Len(Front(u, Len(u) - 1)) = k
    BY <1>2, <1>5, FrontAndRest, Zenon
  <2> QED
    BY <1>5, <2>1, Zenon
<1> HIDE DEF g, n
<1>9. Slice(u, 0, n - b) = Slice(f, b, n)
  <2>1. Slice(Slice(f, b, Len(f)), 0, n - b) = Slice(f, b + 0, b + (n - b))
    BY <1>5, SliceOfSlice, Zenon
  <2> QED
    BY <1>1, <1>5, <2>1, Zenon
<1>10. n <= Len(g)
  BY <1>5, <1>6
<1>11. Slice(f, b, n) = Slice(g, b, n) /\ Slice(f, 0, a) = Slice(g, 0, a)
  BY <1>5, <1>6, <1>7, <1>10, SliceSame, Zenon
<1>12. Cut(ms, g, a, b)
  <2>1. b <= Len(g) /\ \A i \in 1..b : f[i] = g[i]
    BY <1>5, <1>6, <1>7
  <2> QED
    BY <1>1, <1>5, <1>6, <2>1, CutSame, Zenon
<1>13. Way(c, ms, Front(u, Len(u) - 1), g)
  BY <1>1, <1>5, <1>6, <1>8, <1>9, <1>11, <1>12, Zenon DEF Way
<1>14. Len(f) > 0
  BY <1>5 DEF n
<1> QED
  BY <1>6, <1>8, <1>13, <1>14, Zenon DEF g, n

\* The pieces of the main file and those of the second file in the messages of a stream.
Mains(ms) == [k \in 1..Len(ms) |-> ms[k].main]
Extras(ms) == [k \in 1..Len(ms) |-> ms[k].extra]

Files == [main : Seq(Nat), extra : Seq(Nat)]

LEMMA NoPieces ==
    Mains(<<>>) = <<>> /\ Extras(<<>>) = <<>>
BY DEF Mains, Extras

LEMMA PiecesAreSequences ==
    ASSUME NEW ms \in Seq(Files)
    PROVE  Mains(ms) \in Seq(Seq(Nat)) /\ Extras(ms) \in Seq(Seq(Nat)) /\ Len(Mains(ms)) = Len(ms) /\ Len(Extras(ms)) = Len(ms)
<1>1. Len(ms) \in Nat /\ \A k \in 1..Len(ms) : ms[k] \in Files
  BY ElementOfSeq
<1>2. \A k \in 1..Len(ms) : ms[k].main \in Seq(Nat) /\ ms[k].extra \in Seq(Nat)
  BY <1>1, Zenon DEF Files
<1>3. Mains(ms) \in Seq(Seq(Nat)) /\ Extras(ms) \in Seq(Seq(Nat))
  BY <1>1, <1>2, IsASeq DEF Mains, Extras
<1>4. DOMAIN Mains(ms) = 1..Len(ms) /\ DOMAIN Extras(ms) = 1..Len(ms)
  BY Zenon DEF Mains, Extras
<1> QED
  BY <1>1, <1>3, <1>4, LenProperties

LEMMA PiecesOfAppend ==
    ASSUME NEW ms \in Seq(Files), NEW m \in Files
    PROVE  Mains(Append(ms, m)) = Append(Mains(ms), m.main) /\ Extras(Append(ms, m)) = Append(Extras(ms), m.extra)
<1>1. Append(ms, m) \in Seq(Files) /\ Len(Append(ms, m)) = Len(ms) + 1 /\ Append(ms, m)[Len(ms) + 1] = m
      /\ \A k \in 1..Len(ms) : Append(ms, m)[k] = ms[k]
  OBVIOUS
<1>2. m.main \in Seq(Nat) /\ m.extra \in Seq(Nat)
  BY Zenon DEF Files
<1>3. Mains(ms) \in Seq(Seq(Nat)) /\ Extras(ms) \in Seq(Seq(Nat)) /\ Len(Mains(ms)) = Len(ms) /\ Len(Extras(ms)) = Len(ms)
  BY PiecesAreSequences, Zenon
<1> DEFINE ns == Append(ms, m)
           s == Mains(ns)
           t == Append(Mains(ms), m.main)
           v == Extras(ns)
           w == Append(Extras(ms), m.extra)
<1> HIDE DEF ns
<1>4. s \in Seq(Seq(Nat)) /\ v \in Seq(Seq(Nat)) /\ Len(s) = Len(ms) + 1 /\ Len(v) = Len(ms) + 1
  BY <1>1, PiecesAreSequences, Zenon DEF ns
<1>5. \A k \in 1..(Len(ms) + 1) : s[k] = ns[k].main /\ v[k] = ns[k].extra
  BY <1>1, Zenon DEF Mains, Extras, ns
<1>6. \A k \in 1..Len(ms) : Mains(ms)[k] = ms[k].main /\ Extras(ms)[k] = ms[k].extra
  BY Zenon DEF Mains, Extras
<1>7. t \in Seq(Seq(Nat)) /\ w \in Seq(Seq(Nat)) /\ Len(t) = Len(ms) + 1 /\ Len(w) = Len(ms) + 1
      /\ t[Len(ms) + 1] = m.main /\ w[Len(ms) + 1] = m.extra
      /\ \A k \in 1..Len(ms) : t[k] = Mains(ms)[k] /\ w[k] = Extras(ms)[k]
  BY <1>2, <1>3
<1> HIDE DEF s, t, v, w
<1>8. \A k \in 1..(Len(ms) + 1) : s[k] = t[k] /\ v[k] = w[k]
  <2> SUFFICES ASSUME NEW k \in 1..(Len(ms) + 1)
               PROVE  s[k] = t[k] /\ v[k] = w[k]
    BY Zenon
  <2>1. CASE k = Len(ms) + 1
    BY <1>1, <1>5, <1>7, <2>1, Zenon DEF ns
  <2>2. CASE k # Len(ms) + 1
    <3>1. k \in 1..Len(ms)
      BY <2>2
    <3> QED
      BY <1>1, <1>5, <1>6, <1>7, <3>1, Zenon DEF ns
  <2> QED
    BY <2>1, <2>2, Zenon
<1>9. s = t
  <2>1. Len(s) = Len(t) /\ \A k \in 1..Len(s) : s[k] = t[k]
    BY <1>4, <1>7, <1>8, Zenon
  <2> QED
    BY <1>4, <1>7, <2>1, SeqEqual, Zenon
<1>10. v = w
  <2>1. Len(v) = Len(w) /\ \A k \in 1..Len(v) : v[k] = w[k]
    BY <1>4, <1>7, <1>8, Zenon
  <2> QED
    BY <1>4, <1>7, <2>1, SeqEqual, Zenon
<1> QED
  BY <1>9, <1>10, Zenon DEF s, t, v, w, ns

LEMMA PiecesOfTail ==
    ASSUME NEW ms \in Seq(Files), ms # <<>>
    PROVE  /\ Mains(ms) # <<>> /\ Head(Mains(ms)) = Head(ms).main /\ Mains(Tail(ms)) = Tail(Mains(ms))
           /\ Extras(ms) # <<>> /\ Head(Extras(ms)) = Head(ms).extra /\ Extras(Tail(ms)) = Tail(Extras(ms))
<1> DEFINE n == Len(ms) - 1
           ns == Tail(ms)
           ma == Mains(ms)
           ex == Extras(ms)
<1>1. n \in Nat /\ Len(ms) = n + 1 /\ ns \in Seq(Files) /\ Len(ns) = n /\ Head(ms) = ms[1]
      /\ \A k \in 1..n : ns[k] = ms[k + 1]
  OBVIOUS
<1>2. ma \in Seq(Seq(Nat)) /\ ex \in Seq(Seq(Nat)) /\ Len(ma) = n + 1 /\ Len(ex) = n + 1
  BY <1>1, PiecesAreSequences, Zenon
<1>3. \A k \in 1..(n + 1) : ma[k] = ms[k].main /\ ex[k] = ms[k].extra
  BY <1>1, Zenon DEF Mains, Extras
<1> HIDE DEF n, ns, ma, ex
<1> DEFINE s == Mains(ns)
           t == Tail(ma)
           v == Extras(ns)
           w == Tail(ex)
<1>4. s \in Seq(Seq(Nat)) /\ v \in Seq(Seq(Nat)) /\ Len(s) = n /\ Len(v) = n
  BY <1>1, PiecesAreSequences, Zenon
<1>5. \A k \in 1..n : s[k] = ns[k].main /\ v[k] = ns[k].extra
  BY <1>1, Zenon DEF Mains, Extras
<1>6. ma # <<>> /\ ex # <<>> /\ Head(ma) = ma[1] /\ Head(ex) = ex[1]
  BY <1>1, <1>2
<1>7. /\ t \in Seq(Seq(Nat)) /\ Len(t) = n /\ \A k \in 1..n : t[k] = ma[k + 1]
      /\ w \in Seq(Seq(Nat)) /\ Len(w) = n /\ \A k \in 1..n : w[k] = ex[k + 1]
  BY <1>1, <1>2, <1>6
<1> HIDE DEF s, t, v, w
<1>8. \A k \in 1..n : k + 1 \in 1..(n + 1)
  BY <1>1
<1>9. \A k \in 1..n : s[k] = t[k] /\ v[k] = w[k]
  BY <1>1, <1>3, <1>5, <1>7, <1>8, Zenon
<1>10. s = t /\ v = w
  BY <1>4, <1>7, <1>9, SeqEqual
<1>11. Head(ma) = Head(ms).main /\ Head(ex) = Head(ms).extra
  <2>1. 1 \in 1..(n + 1)
    BY <1>1
  <2> QED
    BY <1>1, <1>3, <1>6, <2>1, Zenon
<1> QED
  BY <1>6, <1>10, <1>11, Zenon DEF s, t, v, w, ma, ex, ns

\* What the file that is uploaded holds, after it was changed or not.
Content ==
    IF changed = "no" THEN source.main
    ELSE IF changed = "grown" THEN Append(source.main, 0) ELSE Front(source.main, Len(source.main) - 1)

TransfersTypeOK ==
    /\ method \in Uploads \cup Downloads \cup {"AttestationToken"}
    /\ source \in Files /\ unread \in Files /\ collected \in Files
    /\ messages \in Seq(Files)
    /\ total \in Nat /\ progress \in Nat
    /\ changed \in {"no", "grown", "shrunk"} /\ closed \in BOOLEAN

SourceFits ==
    /\ method = "IMAMeasurements" => Len(source.extra) = PcrSize
    /\ method \notin {"Algo", "IMAMeasurements"} => source.extra = <<>>

NothingSent ==
    stage = "calling" =>
        /\ unread = source /\ messages = <<>> /\ collected = NoFiles
        /\ progress = 0 /\ changed = "no" /\ closed = FALSE

NothingReturned == stage # "returned" => handed = <<>> /\ outcome = "pending"

\* An upload: both files are on their way; what was sent and what is unread add up to the file as it is now.
Uploading ==
    method \in Uploads /\ stage = "sending" =>
        /\ Way(collected.main, Mains(messages), unread.main, Content)
        /\ Way(collected.extra, Extras(messages), unread.extra, source.extra)
        /\ total = Size(source) /\ progress <= total
        /\ progress + Size(unread) = Len(Content) + Len(source.extra)
        /\ changed = "shrunk" => source.main # <<>>
        /\ closed = TRUE => unread = NoFiles
        /\ Len(collected.main) <= (IF method = "Algo" THEN MaxAlgorithm ELSE MaxDataset)
        /\ Len(collected.extra) <= MaxRequirements

\* A download: the file is on its way, and its size was announced.
Downloading ==
    method \in Downloads /\ stage = "sending" =>
        /\ Way(collected.main, Mains(messages), unread.main, source.main)
        /\ total = Len(source.main)
        /\ closed = TRUE => unread.main = <<>>

OneFile ==
    method \in {"Result", "Attestation"} /\ stage = "sending" =>
        /\ collected.extra = <<>>
        /\ messages # <<>> => source.main # <<>>

\* PCR 10 goes out whole with the first message; there is a second one only for measurements of more than one.
Long == Len(source.main) > BufferSize
PcrUnsent == unread = source /\ messages = <<>> /\ closed = FALSE
PcrOnTheWay ==
    /\ messages # <<>> /\ Head(messages).extra = source.extra
    /\ \A k \in 2..Len(messages) : messages[k].extra = <<>> /\ Long
PcrArrived ==
    /\ collected.extra = source.extra
    /\ \A k \in 1..Len(messages) : messages[k].extra = <<>> /\ Long

Measuring ==
    method = "IMAMeasurements" /\ stage = "sending" =>
        \/ PcrUnsent
        \/ (PcrOnTheWay \/ PcrArrived) /\ unread.extra = <<>> /\ (unread.main # <<>> => Long)

TransfersInv ==
    /\ TransfersTypeOK /\ SourceFits /\ NothingSent /\ NothingReturned
    /\ Uploading /\ Downloading /\ OneFile /\ Measuring
    /\ TransfersAreWhole

\* The files of a message, and those that are left when pieces of them are read.
LEMMA NoFilesAreFiles ==
    NoFiles \in Files /\ NoFiles.main = <<>> /\ NoFiles.extra = <<>>
    /\ \A x \in Files : x.main = <<>> /\ x.extra = <<>> => x = NoFiles
BY DEF NoFiles, Files

LEMMA FilesHaveFields ==
    ASSUME NEW x \in Files
    PROVE  x.main \in Seq(Nat) /\ x.extra \in Seq(Nat) /\ Len(x.main) \in Nat /\ Len(x.extra) \in Nat /\ Size(x) \in Nat
<1>1. x.main \in Seq(Nat) /\ x.extra \in Seq(Nat)
  BY Zenon DEF Files
<1>2. Len(x.main) \in Nat /\ Len(x.extra) \in Nat
  BY <1>1, LenProperties, Zenon
<1>3. \A m, e \in Nat : m + e \in Nat
  OBVIOUS
<1> QED
  BY <1>1, <1>2, <1>3, Zenon DEF Size

LEMMA FilesOfFields ==
    ASSUME NEW m \in Seq(Nat), NEW e \in Seq(Nat)
    PROVE  [main |-> m, extra |-> e] \in Files
BY Zenon DEF Files

LEMMA SizeZero ==
    ASSUME NEW x \in Files, Size(x) = 0
    PROVE  x = NoFiles
<1>1. x.main \in Seq(Nat) /\ x.extra \in Seq(Nat) /\ Len(x.main) \in Nat /\ Len(x.extra) \in Nat
  BY FilesHaveFields, Zenon
<1>2. Len(x.main) = 0 /\ Len(x.extra) = 0
  <2>1. \A m, e \in Nat : m + e = 0 => m = 0 /\ e = 0
    OBVIOUS
  <2> QED
    BY <1>1, <2>1, Zenon DEF Size
<1>3. x.main = <<>> /\ x.extra = <<>>
  BY <1>1, <1>2, EmptySeq, Zenon
<1> QED
  BY <1>3, NoFilesAreFiles, Zenon

LEMMA ContentIsAFile ==
    ASSUME source \in Files, changed \in {"no", "grown", "shrunk"}, changed = "shrunk" => source.main # <<>>
    PROVE  /\ Content \in Seq(Nat)
           /\ Len(Content) = (IF changed = "no" THEN Len(source.main)
                              ELSE IF changed = "grown" THEN Len(source.main) + 1 ELSE Len(source.main) - 1)
<1>1. source.main \in Seq(Nat)
  BY FilesHaveFields, Zenon
<1>2. CASE changed = "no"
  BY <1>1, <1>2, Zenon DEF Content
<1>3. CASE changed = "grown"
  BY <1>1, <1>3 DEF Content
<1>4. CASE changed = "shrunk"
  <2> DEFINE n == Len(source.main) - 1
  <2>1. n \in Nat /\ n < Len(source.main)
    BY <1>1, <1>4, EmptySeq
  <2>2. Front(source.main, n) \in Seq(Nat) /\ Len(Front(source.main, n)) = n
    BY <1>1, <2>1, FrontAndRest, Zenon
  <2> QED
    BY <1>4, <2>2, Zenon DEF Content
<1> QED
  BY <1>2, <1>3, <1>4, Zenon

\* While a call goes on nothing is promised; when it has returned only what it returned is.
LEMMA GoesOn ==
    ASSUME NothingReturned', stage' # "returned"
    PROVE  TransfersAreWhole'
<1>1. handed' = <<>> /\ outcome' = "pending"
  BY Zenon DEF NothingReturned
<1> QED
  BY <1>1, Zenon DEF TransfersAreWhole, UploadIsWhole, DownloadIsWhole

LEMMA HasReturned ==
    ASSUME stage' = "returned"
    PROVE  NothingSent' /\ NothingReturned' /\ Uploading' /\ Downloading' /\ OneFile' /\ Measuring'
BY Zenon DEF NothingSent, NothingReturned, Uploading, Downloading, OneFile, Measuring

LEMMA Refused ==
    ASSUME handed' = <<>>, outcome' \in {"error", "unauthenticated"}
    PROVE  TransfersAreWhole'
BY Zenon DEF TransfersAreWhole, UploadIsWhole, DownloadIsWhole

LEMMA TransfersInitially ==
    TransfersInit => TransfersInv
<1> SUFFICES ASSUME TransfersInit
             PROVE  TransfersInv
  BY Zenon
<1>1. \A n \in Nat : Bytes(n) \in Seq(Nat) /\ Len(Bytes(n)) = n
  BY DEF Bytes
<1>2. source \in Files /\ SourceFits
  <2>1. FileSizes \subseteq Nat /\ PcrSize \in Nat /\ <<>> \in Seq(Nat)
    BY TransfersAssumption
  <2>2. PICK m, e \in FileSizes :
          source = [main |-> Bytes(m),
                    extra |-> CASE method = "Algo" -> Bytes(e)
                                [] method = "IMAMeasurements" -> Bytes(PcrSize)
                                [] OTHER -> <<>>]
    BY Zenon DEF TransfersInit
  <2>3. Bytes(m) \in Seq(Nat) /\ Bytes(e) \in Seq(Nat) /\ Bytes(PcrSize) \in Seq(Nat) /\ Len(Bytes(PcrSize)) = PcrSize
    BY <1>1, <2>1, Zenon
  <2>4. CASE method = "Algo"
    BY <2>2, <2>3, <2>4, Zenon DEF Files, SourceFits
  <2>5. CASE method = "IMAMeasurements"
    BY <2>2, <2>3, <2>5, Zenon DEF Files, SourceFits
  <2>6. CASE method \notin {"Algo", "IMAMeasurements"}
    BY <2>1, <2>2, <2>3, <2>6, Zenon DEF Files, SourceFits
  <2> QED
    BY <2>4, <2>5, <2>6, Zenon
<1>3. TransfersTypeOK
  <2>1. messages \in Seq(Files) /\ total \in Nat /\ progress \in Nat /\ changed \in {"no", "grown", "shrunk"}
    BY DEF TransfersInit
  <2>2. closed \in BOOLEAN /\ collected \in Files /\ unread \in Files
    BY <1>2, NoFilesAreFiles, Zenon DEF TransfersInit
  <2> QED
    BY <1>2, <2>1, <2>2, Zenon DEF TransfersInit, TransfersTypeOK
<1>4. NothingSent /\ NothingReturned /\ stage = "calling"
  BY Zenon DEF TransfersInit, NothingSent, NothingReturned
<1>5. Uploading /\ Downloading /\ OneFile /\ Measuring
  BY <1>4, Zenon DEF Uploading, Downloading, OneFile, Measuring
<1>6. TransfersAreWhole
  BY <1>4, Zenon DEF NothingReturned, TransfersAreWhole, UploadIsWhole, DownloadIsWhole
<1> QED
  BY <1>2, <1>3, <1>4, <1>5, <1>6, Zenon DEF TransfersInv

\* A call begins: the whole file is still to be read.
LEMMA CallBegins ==
    ASSUME TransfersInv, stage = "calling", NEW signed \in BOOLEAN, Authenticate(signed), total' \in Nat,
           method \in Uploads => total' = Size(source),
           method \in Downloads => total' = Len(source.main)
    PROVE  TransfersInv'
<1>1. /\ UNCHANGED <<method, source, unread, progress, messages, closed, collected, handed, changed>>
      /\ handed = <<>> /\ outcome = "pending"
      /\ unread = source /\ messages = <<>> /\ collected = NoFiles /\ progress = 0 /\ changed = "no" /\ closed = FALSE
  BY Zenon DEF Authenticate, TransfersInv, NothingSent, NothingReturned
<1>2. TransfersTypeOK' /\ SourceFits'
  BY <1>1, Zenon DEF TransfersInv, TransfersTypeOK, SourceFits
<1>3. CASE stage' = "returned" /\ outcome' = "unauthenticated"
  <2>1. handed' = <<>> /\ outcome' \in {"error", "unauthenticated"}
    BY <1>1, <1>3, Zenon
  <2> QED
    BY <1>2, <1>3, <2>1, HasReturned, Refused, Zenon DEF TransfersInv
<1>4. CASE stage' = "sending" /\ outcome' = outcome
  <2>1. NothingSent' /\ NothingReturned'
    BY <1>1, <1>4, Zenon DEF NothingSent, NothingReturned
  <2>2. source \in Files /\ source.main \in Seq(Nat) /\ source.extra \in Seq(Nat)
    BY FilesHaveFields, Zenon DEF TransfersInv, TransfersTypeOK
  <2>3. Way(<<>>, <<>>, source.main, source.main) /\ Way(<<>>, <<>>, source.extra, source.extra)
    BY <2>2, WayStarts, Zenon
  <2>4. /\ Way(collected.main, Mains(messages), unread.main, source.main)
        /\ Way(collected.extra, Extras(messages), unread.extra, source.extra)
    BY <1>1, <2>3, NoFilesAreFiles, NoPieces, Zenon
  <2>5. Content' = source.main
    BY <1>1, Zenon DEF Content
  <2>6. Uploading'
    <3> SUFFICES ASSUME method \in Uploads
                 PROVE  Uploading'
      BY <1>1, Zenon DEF Uploading
    <3>1. total' = Size(source) /\ progress' = 0 /\ Size(source) \in Nat
      BY <1>1, <2>2, FilesHaveFields, Zenon
    <3>2. progress' <= total' /\ progress' + Size(unread') = Len(Content') + Len(source.extra)
      <4>1. 0 <= Size(source) /\ 0 + Size(source) = Size(source)
        BY <3>1
      <4> QED
        BY <1>1, <2>5, <3>1, <4>1, Zenon DEF Size
    <3>3. Len(<<>>) <= MaxRequirements /\ Len(<<>>) <= (IF method = "Algo" THEN MaxAlgorithm ELSE MaxDataset)
      BY TransfersAssumption
    <3>4. /\ total' = Size(source') /\ collected'.main = <<>> /\ collected'.extra = <<>>
          /\ changed' # "shrunk" /\ closed' # TRUE /\ method' = method /\ source' = source
      BY <1>1, <3>1, NoFilesAreFiles, Zenon
    <3> QED
      BY <1>1, <2>4, <2>5, <3>2, <3>3, <3>4, Zenon DEF Uploading
  <2>7. Downloading'
    <3>1. closed' # TRUE
      BY <1>1, Zenon
    <3> QED
      BY <1>1, <2>4, <3>1, Zenon DEF Downloading
  <2>8. OneFile' /\ Measuring'
    BY <1>1, NoFilesAreFiles, Zenon DEF OneFile, Measuring, PcrUnsent
  <2>9. TransfersAreWhole'
    BY <1>4, <2>1, GoesOn, Zenon
  <2> QED
    BY <1>2, <2>1, <2>6, <2>7, <2>8, <2>9, Zenon DEF TransfersInv
<1> QED
  BY <1>3, <1>4, Zenon DEF Authenticate, Return

LEMMA BeginsInv ==
    ASSUME TransfersInv,
           Algo \/ Data \/ Result \/ Attestation \/ IMAMeasurements \/ AttestationToken
    PROVE  TransfersInv'
<1>1. source \in Files /\ Size(source) \in Nat /\ Len(source.main) \in Nat /\ total \in Nat
  BY FilesHaveFields, Zenon DEF TransfersInv, TransfersTypeOK
<1>2. (caller = "other") \in BOOLEAN /\ TRUE \in BOOLEAN
  BY Zenon
<1>3. CASE Algo \/ Data
  <2>1. stage = "calling" /\ Authenticate(TRUE) /\ total' = Size(source) /\ method \notin Downloads
    BY <1>3, Zenon DEF Algo, Data, Downloads
  <2> QED
    BY <1>1, <1>2, <2>1, CallBegins, Zenon
<1>4. CASE Result
  <2>1. stage = "calling" /\ Authenticate(TRUE) /\ total' = Len(source.main) /\ method \notin Uploads
    BY <1>4, Zenon DEF Result, Uploads
  <2> QED
    BY <1>1, <1>2, <2>1, CallBegins, Zenon
<1>5. CASE Attestation \/ IMAMeasurements
  <2>1. stage = "calling" /\ Authenticate(caller = "other") /\ total' = Len(source.main) /\ method \notin Uploads
    BY <1>5, Zenon DEF Attestation, IMAMeasurements, Uploads
  <2> QED
    BY <1>1, <1>2, <2>1, CallBegins, Zenon
<1>6. CASE AttestationToken
  <2>1. /\ stage = "calling" /\ Authenticate(caller = "other") /\ total' = total
        /\ method \notin Uploads /\ method \notin Downloads
    BY <1>6, Zenon DEF AttestationToken, Uploads, Downloads
  <2> QED
    BY <1>1, <1>2, <2>1, CallBegins, Zenon
<1> QED
  BY <1>3, <1>4, <1>5, <1>6, Zenon

LEMMA StreamFailsInv ==
    ASSUME TransfersInv, StreamFails
    PROVE  TransfersInv'
<1>1. /\ UNCHANGED <<method, source, unread, total, progress, messages, closed, collected, handed, changed>>
      /\ handed = <<>> /\ stage' = "returned" /\ outcome' = "error"
  BY Zenon DEF StreamFails, Return, TransfersInv, NothingReturned
<1>2. TransfersTypeOK' /\ SourceFits'
  BY <1>1, Zenon DEF TransfersInv, TransfersTypeOK, SourceFits
<1>3. handed' = <<>> /\ outcome' \in {"error", "unauthenticated"}
  BY <1>1, Zenon
<1> QED
  BY <1>1, <1>2, <1>3, HasReturned, Refused, Zenon DEF TransfersInv

LEMMA AnswerTokenInv ==
    ASSUME TransfersInv, AnswerToken
    PROVE  TransfersInv'
<1>1. /\ UNCHANGED <<method, source, unread, total, progress, messages, closed, handed, changed>>
      /\ handed = <<>> /\ stage' = "returned" /\ outcome' = "ok" /\ collected' = source
  BY Zenon DEF AnswerToken, Return, TransfersInv, NothingReturned
<1>2. TransfersTypeOK' /\ SourceFits'
  BY <1>1, Zenon DEF TransfersInv, TransfersTypeOK, SourceFits
<1>3. TransfersAreWhole'
  BY <1>1, Zenon DEF TransfersAreWhole, UploadIsWhole, DownloadIsWhole
<1> QED
  BY <1>1, <1>2, <1>3, HasReturned, Zenon DEF TransfersInv

LEMMA FrontNothing ==
    ASSUME NEW u \in Seq(Nat)
    PROVE  Front(u, 0) = <<>>
<1>1. PICK k \in 0..Len(u) : /\ k = (IF 0 < Len(u) THEN 0 ELSE Len(u))
                             /\ Front(u, 0) \in Seq(Nat) /\ Len(Front(u, 0)) = k
  BY FrontAndRest, Zenon
<1>2. k = 0
  BY <1>1
<1> QED
  BY <1>1, <1>2, EmptySeq, Zenon

\* The sender reads at most i bytes of the one file and at most j of the other and sends them, or gives up.
LEMMA Sends ==
    ASSUME TransfersInv, NEW i \in Nat, NEW j \in Nat,
           Send([main |-> Front(unread.main, i), extra |-> Front(unread.extra, j)])
    PROVE  TransfersInv'
<1> DEFINE m == Front(unread.main, i)
           e == Front(unread.extra, j)
           piece == [main |-> m, extra |-> e]
<1>1. piece.main = m /\ piece.extra = e
  BY Zenon
<1>2. /\ UNCHANGED <<method, source, total, closed, collected, handed, changed>>
      /\ method \in Uploads /\ stage = "sending" /\ closed # TRUE /\ handed = <<>> /\ outcome = "pending"
  BY Zenon DEF Send, TransfersInv, NothingReturned
<1>3. /\ source \in Files /\ unread \in Files /\ messages \in Seq(Files) /\ total \in Nat /\ progress \in Nat
      /\ changed \in {"no", "grown", "shrunk"}
  BY Zenon DEF TransfersInv, TransfersTypeOK
<1>4. unread.main \in Seq(Nat) /\ unread.extra \in Seq(Nat) /\ source.extra \in Seq(Nat)
  BY <1>3, FilesHaveFields, Zenon
<1>5. PICK k \in 0..Len(unread.main) :
        /\ m \in Seq(Nat) /\ Len(m) = k /\ Rest(unread.main, i) \in Seq(Nat)
        /\ Len(Rest(unread.main, i)) = Len(unread.main) - k /\ Rest(unread.main, Len(m)) = Rest(unread.main, i)
  BY <1>4, FrontAndRest, Zenon
<1>6. PICK l \in 0..Len(unread.extra) :
        /\ e \in Seq(Nat) /\ Len(e) = l /\ Rest(unread.extra, j) \in Seq(Nat)
        /\ Len(Rest(unread.extra, j)) = Len(unread.extra) - l /\ Rest(unread.extra, Len(e)) = Rest(unread.extra, j)
  BY <1>4, FrontAndRest, Zenon
<1>7. piece \in Files
  BY <1>5, <1>6, FilesOfFields, Zenon
<1>8. IF exceeds(Size(piece))
      THEN Return("error") /\ UNCHANGED <<unread, progress, messages>>
      ELSE /\ progress' = progress + Size(piece)
           /\ messages' = Append(messages, piece)
           /\ unread' = [main |-> Rest(unread.main, Len(piece.main)), extra |-> Rest(unread.extra, Len(piece.extra))]
           /\ UNCHANGED <<stage, outcome>>
  BY Zenon DEF Send
<1> HIDE DEF piece, m, e
<1>9. CASE exceeds(Size(piece))
  <2>1. UNCHANGED <<unread, progress, messages>> /\ stage' = "returned" /\ outcome' = "error"
    BY <1>8, <1>9, Zenon DEF Return
  <2>2. TransfersTypeOK' /\ SourceFits'
    BY <1>2, <2>1, Zenon DEF TransfersInv, TransfersTypeOK, SourceFits
  <2>3. handed' = <<>> /\ outcome' \in {"error", "unauthenticated"}
    BY <1>2, <2>1, Zenon
  <2> QED
    BY <2>1, <2>2, <2>3, HasReturned, Refused, Zenon DEF TransfersInv
<1>10. CASE ~exceeds(Size(piece))
  <2>1. /\ progress' = progress + Size(piece) /\ messages' = Append(messages, piece) /\ UNCHANGED <<stage, outcome>>
        /\ unread' = [main |-> Rest(unread.main, i), extra |-> Rest(unread.extra, j)]
    BY <1>1, <1>5, <1>6, <1>8, <1>10, Zenon
  <2>2. Size(piece) \in Nat /\ progress + Size(piece) <= total
    BY <1>3, <1>7, <1>10, FilesHaveFields DEF exceeds
  <2>3. unread' \in Files /\ unread'.main = Rest(unread.main, i) /\ unread'.extra = Rest(unread.extra, j)
    BY <1>5, <1>6, <2>1, FilesOfFields, Zenon
  <2>4. messages' \in Seq(Files) /\ Mains(messages') = Append(Mains(messages), m)
        /\ Extras(messages') = Append(Extras(messages), e)
    <3>1. messages' \in Seq(Files)
      BY <1>3, <1>7, <2>1
    <3> QED
      BY <1>1, <1>3, <1>7, <2>1, <3>1, PiecesOfAppend, Zenon DEF piece
  <2>5. Mains(messages) \in Seq(Seq(Nat)) /\ Extras(messages) \in Seq(Seq(Nat))
    BY <1>3, PiecesAreSequences, Zenon
  <2>6. /\ Way(collected.main, Mains(messages), unread.main, Content)
        /\ Way(collected.extra, Extras(messages), unread.extra, source.extra)
        /\ progress + Size(unread) = Len(Content) + Len(source.extra)
        /\ changed = "shrunk" => source.main # <<>>
    BY <1>2, Zenon DEF TransfersInv, Uploading
  <2>7. Content \in Seq(Nat) /\ Content' = Content
    <3>1. Content \in Seq(Nat)
      BY <1>3, <2>6, ContentIsAFile, Zenon
    <3> QED
      BY <1>2, <3>1, Zenon DEF Content
  <2>8. /\ Way(collected.main, Mains(messages'), unread'.main, Content)
        /\ Way(collected.extra, Extras(messages'), unread'.extra, source.extra)
    BY <1>4, <2>3, <2>4, <2>5, <2>6, <2>7, WaySends, Zenon DEF m, e
  <2>9. progress' + Size(unread') = progress + Size(unread)
    <3>1. Size(unread') = (Len(unread.main) - k) + (Len(unread.extra) - l)
      BY <1>5, <1>6, <2>3, Zenon DEF Size
    <3>2. Size(piece) = k + l
      BY <1>1, <1>5, <1>6, Zenon DEF Size, piece
    <3>3. Len(unread.main) \in Nat /\ Len(unread.extra) \in Nat
      BY <1>3, FilesHaveFields, Zenon
    <3>4. Size(unread) = Len(unread.main) + Len(unread.extra)
      BY Zenon DEF Size
    <3>5. progress' = progress + (k + l)
      BY <2>1, <3>2, Zenon
    <3>6. (progress + (k + l)) + ((Len(unread.main) - k) + (Len(unread.extra) - l))
            = progress + (Len(unread.main) + Len(unread.extra))
      <4> DEFINE x == Len(unread.main)
                 y == Len(unread.extra)
      <4>1. progress \in Nat /\ x \in Nat /\ y \in Nat /\ k \in 0..x /\ l \in 0..y
        BY <1>3, <3>3, Zenon
      <4> HIDE DEF x, y
      <4>2. (progress + (k + l)) + ((x - k) + (y - l)) = progress + (x + y)
        BY <4>1
      <4> QED
        BY <4>2, Zenon DEF x, y
    <3> QED
      BY <3>1, <3>4, <3>5, <3>6, Zenon
  <2>10. TransfersTypeOK' /\ SourceFits'
    <3>1. progress' \in Nat
      BY <1>3, <2>1, <2>2
    <3> QED
      BY <1>2, <2>3, <2>4, <3>1, Zenon DEF TransfersInv, TransfersTypeOK, SourceFits
  <2>11. NothingSent' /\ NothingReturned'
    BY <1>2, <2>1, Zenon DEF NothingSent, NothingReturned
  <2>12. Uploading'
    BY <1>2, <2>1, <2>2, <2>6, <2>7, <2>8, <2>9, Zenon DEF Uploading, TransfersInv
  <2>13. Downloading' /\ OneFile' /\ Measuring'
    BY <1>2, Zenon DEF Downloading, OneFile, Measuring, Uploads, Downloads
  <2>14. TransfersAreWhole'
    <3>1. stage' # "returned"
      BY <1>2, <2>1, Zenon
    <3> QED
      BY <2>11, <3>1, GoesOn, Zenon
  <2> QED
    BY <2>10, <2>11, <2>12, <2>13, <2>14, Zenon DEF TransfersInv
<1> QED
  BY <1>9, <1>10, Zenon

LEMMA SendingInv ==
    ASSUME TransfersInv, SendAlgorithm \/ SendData
    PROVE  TransfersInv'
<1>1. BufferSize \in Nat /\ 0 \in Nat
  BY TransfersAssumption, Zenon
<1>2. unread.main \in Seq(Nat) /\ unread.extra \in Seq(Nat)
  BY FilesHaveFields, Zenon DEF TransfersInv, TransfersTypeOK
<1>3. Front(unread.main, 0) = <<>> /\ Front(unread.extra, 0) = <<>>
  BY <1>2, FrontNothing, Zenon
<1>4. \/ Send([main |-> Front(unread.main, 0), extra |-> Front(unread.extra, BufferSize)])
      \/ Send([main |-> Front(unread.main, BufferSize), extra |-> Front(unread.extra, 0)])
  BY <1>3, Zenon DEF SendAlgorithm, SendData
<1> QED
  BY <1>1, <1>4, Sends, Zenon

LEMMA CloseSendInv ==
    ASSUME TransfersInv, CloseSend
    PROVE  TransfersInv'
<1>1. /\ UNCHANGED <<method, source, unread, stage, total, progress, messages, collected, handed, changed, outcome>>
      /\ method \in Uploads /\ stage = "sending" /\ unread = NoFiles /\ closed' \in BOOLEAN
  BY Zenon DEF CloseSend
<1>2. TransfersTypeOK' /\ SourceFits'
  BY <1>1, Zenon DEF TransfersInv, TransfersTypeOK, SourceFits
<1>3. NothingSent' /\ NothingReturned'
  BY <1>1, Zenon DEF NothingSent, NothingReturned, TransfersInv
<1>4. Content' = Content
  BY <1>1, Zenon DEF Content
<1>5. Uploading'
  BY <1>1, <1>4, Zenon DEF Uploading, TransfersInv
<1>6. Downloading' /\ OneFile' /\ Measuring'
  BY <1>1, Zenon DEF Downloading, OneFile, Measuring, Uploads, Downloads
<1>7. TransfersAreWhole'
  <2>1. stage' # "returned"
    BY <1>1, Zenon
  <2> QED
    BY <1>3, <2>1, GoesOn, Zenon
<1> QED
  BY <1>2, <1>3, <1>5, <1>6, <1>7, Zenon DEF TransfersInv

\* The file is written to or cut short behind the reader.
LEMMA FileChangesInv ==
    ASSUME TransfersInv, FileChanges
    PROVE  TransfersInv'
<1>1. /\ UNCHANGED <<method, source, stage, total, progress, messages, closed, collected, handed, outcome>>
      /\ method \in Uploads /\ stage = "sending" /\ closed # TRUE /\ changed = "no"
  BY Zenon DEF FileChanges
<1>2. /\ source \in Files /\ unread \in Files /\ messages \in Seq(Files)
      /\ source.main \in Seq(Nat) /\ source.extra \in Seq(Nat) /\ unread.main \in Seq(Nat) /\ unread.extra \in Seq(Nat)
      /\ Len(source.main) \in Nat /\ Len(source.extra) \in Nat /\ Len(unread.main) \in Nat /\ Len(unread.extra) \in Nat
      /\ progress \in Nat
  BY FilesHaveFields, Zenon DEF TransfersInv, TransfersTypeOK
<1>3. Mains(messages) \in Seq(Seq(Nat))
  BY <1>2, PiecesAreSequences, Zenon
<1>4. Content = source.main
  BY <1>1, Zenon DEF Content
<1>5. /\ Way(collected.main, Mains(messages), unread.main, source.main)
      /\ Way(collected.extra, Extras(messages), unread.extra, source.extra)
      /\ progress + (Len(unread.main) + Len(unread.extra)) = Len(source.main) + Len(source.extra)
  BY <1>1, <1>4, Zenon DEF TransfersInv, Uploading, Size
<1>6. /\ unread' \in Files /\ unread'.extra = unread.extra /\ changed' \in {"grown", "shrunk"}
      /\ Way(collected.main, Mains(messages), unread'.main, Content')
      /\ progress + Size(unread') = Len(Content') + Len(source.extra)
      /\ changed' = "shrunk" => source.main # <<>>
  <2>1. CASE changed' = "grown" /\ unread' = [unread EXCEPT !.main = Append(@, 0)]
    <3>1. /\ unread' \in Files /\ unread'.extra = unread.extra /\ unread'.main = Append(unread.main, 0)
      <4>1. Append(unread.main, 0) \in Seq(Nat)
        BY <1>2
      <4> QED
        BY <1>2, <2>1, <4>1, Zenon DEF Files
    <3>2. Content' = Append(source.main, 0)
      BY <1>1, <2>1, Zenon DEF Content
    <3>3. Len(Append(unread.main, 0)) = Len(unread.main) + 1 /\ Len(Append(source.main, 0)) = Len(source.main) + 1 /\ 0 \in Nat
      BY <1>2
    <3>4. Way(collected.main, Mains(messages), unread'.main, Content')
      BY <1>2, <1>3, <1>5, <3>1, <3>2, <3>3, WayGrows, Zenon
    <3>5. progress + ((Len(unread.main) + 1) + Len(unread.extra)) = (Len(source.main) + 1) + Len(source.extra)
      <4> DEFINE x == Len(unread.main)
                 y == Len(unread.extra)
                 u == Len(source.main)
                 v == Len(source.extra)
      <4>1. progress \in Nat /\ x \in Nat /\ y \in Nat /\ u \in Nat /\ v \in Nat /\ progress + (x + y) = u + v
        BY <1>2, <1>5, Zenon
      <4> HIDE DEF x, y, u, v
      <4>2. progress + ((x + 1) + y) = (u + 1) + v
        BY <4>1
      <4> QED
        BY <4>2, Zenon DEF x, y, u, v
    <3>6. Size(unread') = (Len(unread.main) + 1) + Len(unread.extra)
      BY <3>1, <3>3, Zenon DEF Size
    <3> QED
      BY <2>1, <3>1, <3>2, <3>3, <3>4, <3>5, <3>6, Zenon
  <2>2. CASE changed' = "shrunk" /\ unread.main # <<>> /\ unread' = [unread EXCEPT !.main = Front(@, Len(@) - 1)]
    <3>1. /\ Way(collected.main, Mains(messages), Front(unread.main, Len(unread.main) - 1), Front(source.main, Len(source.main) - 1))
          /\ Len(source.main) > 0 /\ Len(Front(source.main, Len(source.main) - 1)) = Len(source.main) - 1
          /\ Len(Front(unread.main, Len(unread.main) - 1)) = Len(unread.main) - 1
      BY <1>2, <1>3, <1>5, <2>2, WayShrinks, Zenon
    <3>2. Len(unread.main) # 0
      BY <1>2, <2>2, EmptySeq, Zenon
    <3>3. Front(unread.main, Len(unread.main) - 1) \in Seq(Nat)
      <4>1. Len(unread.main) - 1 \in Nat
        BY <1>2, <3>2
      <4> QED
        BY <1>2, <4>1, FrontAndRest, Zenon
    <3>4. /\ unread' \in Files /\ unread'.extra = unread.extra /\ unread'.main = Front(unread.main, Len(unread.main) - 1)
      BY <1>2, <2>2, <3>3, Zenon DEF Files
    <3>5. Content' = Front(source.main, Len(source.main) - 1)
      BY <1>1, <2>2, Zenon DEF Content
    <3>6. progress + ((Len(unread.main) - 1) + Len(unread.extra)) = (Len(source.main) - 1) + Len(source.extra)
      <4> DEFINE x == Len(unread.main)
                 y == Len(unread.extra)
                 u == Len(source.main)
                 v == Len(source.extra)
      <4>1. progress \in Nat /\ x \in Nat /\ y \in Nat /\ u \in Nat /\ v \in Nat /\ progress + (x + y) = u + v
        BY <1>2, <1>5, Zenon
      <4> HIDE DEF x, y, u, v
      <4>2. progress + ((x - 1) + y) = (u - 1) + v
        BY <4>1
      <4> QED
        BY <4>2, Zenon DEF x, y, u, v
    <3>7. Size(unread') = (Len(unread.main) - 1) + Len(unread.extra)
      BY <3>1, <3>4, Zenon DEF Size
    <3>8. source.main # <<>>
      <4>1. Len(source.main) # 0
        BY <1>2, <3>1
      <4> QED
        BY <1>2, <4>1, EmptySeq, Zenon
    <3> QED
      BY <2>2, <3>1, <3>4, <3>5, <3>6, <3>7, <3>8, Zenon
  <2> QED
    BY <2>1, <2>2, Zenon DEF FileChanges
<1>7. TransfersTypeOK' /\ SourceFits'
  <2>1. changed' \in {"no", "grown", "shrunk"}
    BY <1>6, Zenon
  <2> QED
    BY <1>1, <1>6, <2>1, Zenon DEF TransfersInv, TransfersTypeOK, SourceFits
<1>8. NothingSent' /\ NothingReturned'
  BY <1>1, Zenon DEF NothingSent, NothingReturned, TransfersInv
<1>9. Uploading'
  BY <1>1, <1>5, <1>6, Zenon DEF Uploading, TransfersInv
<1>10. Downloading' /\ OneFile' /\ Measuring'
  BY <1>1, Zenon DEF Downloading, OneFile, Measuring, Uploads, Downloads
<1>11. TransfersAreWhole'
  <2>1. stage' # "returned"
    BY <1>1, Zenon
  <2> QED
    BY <1>8, <2>1, GoesOn, Zenon
<1> QED
  BY <1>7, <1>8, <1>9, <1>10, <1>11, Zenon DEF TransfersInv

LEMMA AppendIsBounded ==
    ASSUME NEW dst \in Seq(Nat), NEW chunk \in Seq(Nat), NEW max \in Nat, appendBounded(dst, chunk, max) # <<>>
    PROVE  LET x == appendBounded(dst, chunk, max)[1]
           IN  x = dst \o chunk /\ x \in Seq(Nat) /\ Len(x) <= max
<1>1. Len(chunk) + Len(dst) <= max
  <2>1. ~(Len(chunk) + Len(dst) > max)
    BY Zenon DEF appendBounded
  <2> QED
    BY <2>1
<1>2. appendBounded(dst, chunk, max)[1] = dst \o chunk
  BY <1>1, Zenon DEF appendBounded
<1>3. dst \o chunk \in Seq(Nat) /\ Len(dst \o chunk) <= max
  BY <1>1
<1> QED
  BY <1>2, <1>3, Zenon

\* One message of a stream is taken: the pieces in it arrive.
LEMMA Takes ==
    ASSUME TransfersTypeOK, messages # <<>>
    PROVE  /\ Head(messages) \in Files /\ Tail(messages) \in Seq(Files)
           /\ Head(messages).main \in Seq(Nat) /\ Head(messages).extra \in Seq(Nat)
           /\ \A f \in Seq(Nat) : \A c, u : Way(c, Mains(messages), u, f)
                 => Way(c \o Head(messages).main, Mains(Tail(messages)), u, f)
           /\ \A f \in Seq(Nat) : \A c, u : Way(c, Extras(messages), u, f)
                 => Way(c \o Head(messages).extra, Extras(Tail(messages)), u, f)
<1>1. messages \in Seq(Files)
  BY Zenon DEF TransfersTypeOK
<1>2. Head(messages) \in Files /\ Tail(messages) \in Seq(Files)
  BY <1>1
<1>3. Head(messages).main \in Seq(Nat) /\ Head(messages).extra \in Seq(Nat)
  BY <1>2, FilesHaveFields, Zenon
<1>4. Mains(messages) \in Seq(Seq(Nat)) /\ Extras(messages) \in Seq(Seq(Nat))
  BY <1>1, PiecesAreSequences, Zenon
<1>5. /\ Mains(messages) # <<>> /\ Head(Mains(messages)) = Head(messages).main /\ Mains(Tail(messages)) = Tail(Mains(messages))
      /\ Extras(messages) # <<>> /\ Head(Extras(messages)) = Head(messages).extra /\ Extras(Tail(messages)) = Tail(Extras(messages))
  BY <1>1, PiecesOfTail, Zenon
<1>6. ASSUME NEW f \in Seq(Nat), NEW c, NEW u, Way(c, Mains(messages), u, f)
      PROVE  Way(c \o Head(messages).main, Mains(Tail(messages)), u, f)
  <2>1. Way(c \o Head(Mains(messages)), Tail(Mains(messages)), u, f)
    BY <1>4, <1>5, <1>6, WayReceives, Zenon
  <2> QED
    BY <1>5, <2>1, Zenon
<1>7. ASSUME NEW f \in Seq(Nat), NEW c, NEW u, Way(c, Extras(messages), u, f)
      PROVE  Way(c \o Head(messages).extra, Extras(Tail(messages)), u, f)
  <2>1. Way(c \o Head(Extras(messages)), Tail(Extras(messages)), u, f)
    BY <1>4, <1>5, <1>7, WayReceives, Zenon
  <2> QED
    BY <1>5, <2>1, Zenon
<1> QED
  BY <1>2, <1>3, <1>6, <1>7, Zenon

LEMMA Collects ==
    ASSUME TransfersInv, method \in Uploads, stage = "sending", messages # <<>>, NEW main, NEW extra, Collect(main, extra),
           main # <<>> => /\ main[1] = collected.main \o Head(messages).main /\ main[1] \in Seq(Nat)
                          /\ Len(main[1]) <= (IF method = "Algo" THEN MaxAlgorithm ELSE MaxDataset),
           extra # <<>> => /\ extra[1] = collected.extra \o Head(messages).extra /\ extra[1] \in Seq(Nat)
                           /\ Len(extra[1]) <= MaxRequirements
    PROVE  TransfersInv'
<1>1. /\ UNCHANGED <<method, source, unread, total, progress, closed, handed, changed>>
      /\ messages' = Tail(messages) /\ handed = <<>> /\ outcome = "pending"
  BY Zenon DEF Collect, TransfersInv, NothingReturned
<1>2. TransfersTypeOK
  BY Zenon DEF TransfersInv
<1>3. messages' \in Seq(Files)
  BY <1>1, <1>2, Takes, Zenon
<1>4. CASE stage' = "returned" /\ outcome' = "error" /\ collected' = collected
  <2>1. TransfersTypeOK' /\ SourceFits'
    BY <1>1, <1>3, <1>4, Zenon DEF TransfersInv, TransfersTypeOK, SourceFits
  <2>2. handed' = <<>> /\ outcome' \in {"error", "unauthenticated"}
    BY <1>1, <1>4, Zenon
  <2> QED
    BY <1>4, <2>1, <2>2, HasReturned, Refused, Zenon DEF TransfersInv
<1>5. CASE /\ main # <<>> /\ extra # <<>> /\ UNCHANGED <<stage, outcome>>
           /\ collected' = [main |-> main[1], extra |-> extra[1]]
  <2>1. collected' \in Files /\ collected'.main = main[1] /\ collected'.extra = extra[1]
    BY <1>5, FilesOfFields, Zenon
  <2>2. TransfersTypeOK' /\ SourceFits'
    BY <1>1, <1>3, <2>1, Zenon DEF TransfersInv, TransfersTypeOK, SourceFits
  <2>3. NothingSent' /\ NothingReturned'
    BY <1>1, <1>5, Zenon DEF NothingSent, NothingReturned
  <2>4. /\ Way(collected.main, Mains(messages), unread.main, Content)
        /\ Way(collected.extra, Extras(messages), unread.extra, source.extra)
        /\ changed = "shrunk" => source.main # <<>>
    BY Zenon DEF TransfersInv, Uploading
  <2>5. Content \in Seq(Nat) /\ source.extra \in Seq(Nat)
    BY <1>2, <2>4, ContentIsAFile, FilesHaveFields, Zenon DEF TransfersTypeOK
  <2>6. Content' = Content
    BY <1>1, Zenon DEF Content
  <2>7. /\ Way(collected'.main, Mains(messages'), unread.main, Content)
        /\ Way(collected'.extra, Extras(messages'), unread.extra, source.extra)
    BY <1>1, <1>2, <1>5, <2>1, <2>4, <2>5, Takes, Zenon
  <2>8. Uploading'
    BY <1>1, <1>5, <2>1, <2>6, <2>7, Zenon DEF Uploading, TransfersInv
  <2>9. Downloading' /\ OneFile' /\ Measuring'
    BY <1>1, Zenon DEF Downloading, OneFile, Measuring, Uploads, Downloads
  <2>10. TransfersAreWhole'
    <3>1. stage' # "returned"
      BY <1>5, Zenon
    <3> QED
      BY <2>3, <3>1, GoesOn, Zenon
  <2> QED
    BY <2>2, <2>3, <2>8, <2>9, <2>10, Zenon DEF TransfersInv
<1> QED
  BY <1>4, <1>5, Zenon DEF Collect, Return

LEMMA CollectingInv ==
    ASSUME TransfersInv, receiveAlgoData \/ receiveStreamingData
    PROVE  TransfersInv'
<1>1. TransfersTypeOK /\ messages # <<>> /\ stage = "sending" /\ method \in Uploads
  BY Zenon DEF TransfersInv, receiveAlgoData, receiveStreamingData, Uploads
<1>2. /\ Head(messages).main \in Seq(Nat) /\ Head(messages).extra \in Seq(Nat)
  BY <1>1, Takes, Zenon
<1>3. collected \in Files /\ collected.main \in Seq(Nat) /\ collected.extra \in Seq(Nat)
  BY <1>1, FilesHaveFields, Zenon DEF TransfersTypeOK
<1>4. MaxAlgorithm \in Nat /\ MaxRequirements \in Nat /\ MaxDataset \in Nat
  BY TransfersAssumption, Zenon
<1>5. CASE receiveAlgoData
  <2>1. /\ method = "Algo"
        /\ Collect(appendBounded(collected.main, Head(messages).main, MaxAlgorithm),
                   appendBounded(collected.extra, Head(messages).extra, MaxRequirements))
    BY <1>5, Zenon DEF receiveAlgoData
  <2> DEFINE main == appendBounded(collected.main, Head(messages).main, MaxAlgorithm)
             extra == appendBounded(collected.extra, Head(messages).extra, MaxRequirements)
  <2>2. /\ main # <<>> => main[1] = collected.main \o Head(messages).main /\ main[1] \in Seq(Nat) /\ Len(main[1]) <= MaxAlgorithm
        /\ extra # <<>> => /\ extra[1] = collected.extra \o Head(messages).extra /\ extra[1] \in Seq(Nat)
                           /\ Len(extra[1]) <= MaxRequirements
    BY <1>2, <1>3, <1>4, AppendIsBounded, Zenon
  <2> HIDE DEF main, extra
  <2>3. Collect(main, extra)
    BY <2>1, Zenon DEF main, extra
  <2> QED
    BY <1>1, <2>1, <2>2, <2>3, Collects, Zenon
<1>6. CASE receiveStreamingData
  <2> DEFINE main == appendBounded(collected.main, Head(messages).main, MaxDataset)
             extra == <<collected.extra>>
  <2>1. method = "Data" /\ method # "Algo" /\ Collect(main, extra) /\ extra[1] = collected.extra
    BY <1>6, Zenon DEF receiveStreamingData
  <2>2. main # <<>> => main[1] = collected.main \o Head(messages).main /\ main[1] \in Seq(Nat) /\ Len(main[1]) <= MaxDataset
    BY <1>2, <1>3, <1>4, AppendIsBounded, Zenon
  <2>3. source.extra = <<>> /\ <<>> \in Seq(Nat)
    BY <2>1 DEF TransfersInv, SourceFits
  <2>4. Way(collected.extra, Extras(messages), unread.extra, <<>>) /\ Len(collected.extra) <= MaxRequirements
    BY <1>1, <2>3, Zenon DEF TransfersInv, Uploading
  <2>5. Way(collected.extra \o Head(messages).extra, Extras(Tail(messages)), unread.extra, <<>>)
    BY <1>1, <2>3, <2>4, Takes, Zenon
  <2>6. collected.extra = <<>> /\ collected.extra \o Head(messages).extra = <<>>
    BY <2>4, <2>5, WayOfNothing, Zenon
  <2>7. extra[1] = collected.extra \o Head(messages).extra /\ extra[1] \in Seq(Nat) /\ Len(extra[1]) <= MaxRequirements
    BY <1>3, <2>1, <2>4, <2>6, Zenon
  <2> HIDE DEF main, extra
  <2> QED
    BY <1>1, <2>1, <2>2, <2>7, Collects, Zenon
<1> QED
  BY <1>5, <1>6, Zenon

\* The end of an upload: all of both files has arrived, and the file had not grown.
LEMMA UploadArrived ==
    ASSUME TransfersInv, method \in Uploads, stage = "sending", messages = <<>>, closed
    PROVE  /\ collected.main = Content /\ collected.extra = source.extra /\ changed # "grown"
<1>1. source \in Files /\ closed = TRUE /\ progress \in Nat /\ total \in Nat /\ changed \in {"no", "grown", "shrunk"}
  BY Zenon DEF TransfersInv, TransfersTypeOK
<1>2. /\ source.main \in Seq(Nat) /\ source.extra \in Seq(Nat) /\ Len(source.main) \in Nat /\ Len(source.extra) \in Nat
  BY <1>1, FilesHaveFields, Zenon
<1>3. /\ Way(collected.main, Mains(messages), unread.main, Content)
      /\ Way(collected.extra, Extras(messages), unread.extra, source.extra)
      /\ unread = NoFiles /\ total = Size(source) /\ progress <= total
      /\ progress + Size(unread) = Len(Content) + Len(source.extra)
      /\ changed = "shrunk" => source.main # <<>>
  BY <1>1, Zenon DEF TransfersInv, Uploading
<1>4. /\ Content \in Seq(Nat)
      /\ Len(Content) = (IF changed = "no" THEN Len(source.main)
                         ELSE IF changed = "grown" THEN Len(source.main) + 1 ELSE Len(source.main) - 1)
  BY <1>1, <1>3, ContentIsAFile, Zenon
<1>5. /\ Way(collected.main, <<>>, <<>>, Content) /\ Way(collected.extra, <<>>, <<>>, source.extra)
  BY <1>3, NoPieces, NoFilesAreFiles, Zenon
<1>6. collected.main = Content /\ collected.extra = source.extra
  BY <1>2, <1>4, <1>5, WayEnds, Zenon
<1>7. ASSUME changed = "grown" PROVE FALSE
  <2> DEFINE x == Len(source.main)
             y == Len(source.extra)
  <2>1. Len(Content) = x + 1
    BY <1>4, <1>7, Zenon
  <2>2. Size(unread) = 0
    BY <1>3, NoFilesAreFiles DEF Size
  <2>3. total = x + y
    BY <1>3, Zenon DEF Size
  <2>4. x \in Nat /\ y \in Nat /\ progress + 0 = (x + 1) + y
    BY <1>2, <1>3, <2>1, <2>2, Zenon
  <2> HIDE DEF x, y
  <2> QED
    BY <1>1, <1>3, <2>3, <2>4
<1> QED
  BY <1>6, <1>7, Zenon

LEMMA HandingOverInv ==
    ASSUME TransfersInv, AlgoEnds \/ DataEnds
    PROVE  TransfersInv'
<1>1. HandOver /\ method \in Uploads
  BY Zenon DEF AlgoEnds, DataEnds, Uploads
<1>2. /\ UNCHANGED <<method, source, unread, total, progress, messages, closed, collected, changed>>
      /\ stage = "sending" /\ stage' = "returned" /\ outcome' \in {"ok", "error"} /\ messages = <<>> /\ closed
      /\ \/ handed' = handed
         \/ collected.main # <<>> /\ handed' = <<collected>>
  BY <1>1, Zenon DEF HandOver, Return, validate
<1>3. handed = <<>>
  BY <1>2, Zenon DEF TransfersInv, NothingReturned
<1>4. TransfersTypeOK' /\ SourceFits'
  BY <1>2, Zenon DEF TransfersInv, TransfersTypeOK, SourceFits
<1>5. DownloadIsWhole'
  BY <1>1, <1>2, Zenon DEF DownloadIsWhole
<1>6. UploadIsWhole'
  <2>1. CASE handed' = handed
    BY <1>3, <2>1, Zenon DEF UploadIsWhole
  <2>2. CASE collected.main # <<>> /\ handed' = <<collected>>
    <3>1. collected.main = Content /\ collected.extra = source.extra /\ changed # "grown"
      BY <1>1, <1>2, UploadArrived, Zenon
    <3>2. /\ Len(collected.main) <= (IF method = "Algo" THEN MaxAlgorithm ELSE MaxDataset)
          /\ Len(collected.extra) <= MaxRequirements
      BY <1>1, <1>2, Zenon DEF TransfersInv, Uploading
    <3>3. collected.main \in Seq(Nat) /\ Len(collected.main) \in Nat
      BY FilesHaveFields, Zenon DEF TransfersInv, TransfersTypeOK
    <3>4. Len(collected.main) \in 1..(IF method = "Algo" THEN MaxAlgorithm ELSE MaxDataset)
      <4> DEFINE n == Len(collected.main)
                 l == IF method = "Algo" THEN MaxAlgorithm ELSE MaxDataset
      <4>1. n # 0
        BY <2>2, <3>3, EmptySeq, Zenon
      <4>2. n \in Nat /\ n <= l
        BY <3>2, <3>3, Zenon
      <4>3. l \in Nat
        BY TransfersAssumption, Zenon
      <4> HIDE DEF n, l
      <4>4. n \in 1..l
        BY <4>1, <4>2, <4>3
      <4> QED
        BY <4>4, Zenon DEF n, l
    <3>5. handed'[1] = collected
      BY <2>2, Zenon
    <3>6. \/ collected.main = source.main
          \/ changed = "shrunk" /\ collected.main = Front(source.main, Len(source.main) - 1)
      <4>1. changed \in {"no", "grown", "shrunk"}
        BY Zenon DEF TransfersInv, TransfersTypeOK
      <4>2. changed = "no" \/ changed = "shrunk"
        BY <3>1, <4>1, Zenon
      <4> QED
        BY <3>1, <4>2, Zenon DEF Content
    <3> QED
      BY <1>2, <3>1, <3>2, <3>4, <3>5, <3>6, Zenon DEF UploadIsWhole
  <2> QED
    BY <1>2, <2>1, <2>2, Zenon
<1> QED
  BY <1>2, <1>4, <1>5, <1>6, HasReturned, Zenon DEF TransfersInv, TransfersAreWhole

\* The server streams a piece of the file, or ends the stream at its end.
LEMMA Streams ==
    ASSUME TransfersInv, method \in Downloads, NEW piece \in Files, NEW last \in BOOLEAN, Stream(piece, last),
           piece.main = Front(unread.main, BufferSize), last => unread.main = <<>>
    PROVE  /\ TransfersTypeOK' /\ SourceFits' /\ NothingSent' /\ NothingReturned'
           /\ Uploading' /\ Downloading' /\ TransfersAreWhole'
<1>1. /\ UNCHANGED <<method, source, stage, total, progress, collected, handed, changed, outcome>>
      /\ stage = "sending" /\ closed # TRUE
  BY Zenon DEF Stream
<1>2. /\ unread \in Files /\ source \in Files /\ messages \in Seq(Files)
      /\ unread.main \in Seq(Nat) /\ unread.extra \in Seq(Nat) /\ source.main \in Seq(Nat)
  BY FilesHaveFields, Zenon DEF TransfersInv, TransfersTypeOK
<1>3. /\ Way(collected.main, Mains(messages), unread.main, source.main)
      /\ total = Len(source.main)
  BY <1>1, Zenon DEF TransfersInv, Downloading
<1>4. NothingSent' /\ NothingReturned'
  BY <1>1, Zenon DEF NothingSent, NothingReturned, TransfersInv
<1>5. Uploading'
  BY <1>1, Zenon DEF Uploading, Uploads, Downloads
<1>6. TransfersAreWhole'
  <2>1. stage' # "returned"
    BY <1>1, Zenon
  <2> QED
    BY <1>4, <2>1, GoesOn, Zenon
<1>7. CASE last /\ closed' = TRUE /\ UNCHANGED <<messages, unread>>
  <2>1. TransfersTypeOK' /\ SourceFits'
    BY <1>1, <1>7, Zenon DEF TransfersInv, TransfersTypeOK, SourceFits
  <2>2. Downloading'
    BY <1>1, <1>3, <1>7, Zenon DEF Downloading
  <2> QED
    BY <1>4, <1>5, <1>6, <2>1, <2>2, Zenon
<1>8. CASE /\ messages' = Append(messages, piece) /\ UNCHANGED closed
           /\ unread' = [main |-> Rest(unread.main, BufferSize), extra |-> Rest(unread.extra, BufferSize)]
  <2>1. BufferSize \in Nat
    BY TransfersAssumption, Zenon
  <2>2. Rest(unread.main, BufferSize) \in Seq(Nat) /\ Rest(unread.extra, BufferSize) \in Seq(Nat)
    BY <1>2, <2>1, FrontAndRest, Zenon
  <2>3. unread' \in Files /\ unread'.main = Rest(unread.main, BufferSize)
    BY <1>8, <2>2, FilesOfFields, Zenon
  <2>4. messages' \in Seq(Files)
    BY <1>2, <1>8
  <2>5. Mains(messages') = Append(Mains(messages), piece.main) /\ Mains(messages) \in Seq(Seq(Nat))
    BY <1>2, <1>8, PiecesOfAppend, PiecesAreSequences, Zenon
  <2>6. Way(collected.main, Mains(messages'), unread'.main, source.main)
    BY <1>2, <1>3, <2>1, <2>3, <2>5, WaySends, Zenon
  <2>7. TransfersTypeOK' /\ SourceFits'
    BY <1>1, <1>8, <2>3, <2>4, Zenon DEF TransfersInv, TransfersTypeOK, SourceFits
  <2>8. Downloading'
    BY <1>1, <1>3, <1>8, <2>6, Zenon DEF Downloading
  <2> QED
    BY <1>4, <1>5, <1>6, <2>7, <2>8, Zenon
<1> QED
  BY <1>7, <1>8, Zenon DEF Stream

LEMMA StreamFileDataInv ==
    ASSUME TransfersInv, streamFileData
    PROVE  TransfersInv'
<1> DEFINE piece == [main |-> Front(unread.main, BufferSize), extra |-> <<>>]
           last == unread.main = <<>>
<1>1. method \in {"Result", "Attestation"} /\ Stream(piece, last)
  BY Zenon DEF streamFileData
<1>2. unread.main \in Seq(Nat) /\ source.main \in Seq(Nat) /\ BufferSize \in Nat /\ <<>> \in Seq(Nat)
  BY TransfersAssumption, FilesHaveFields DEF TransfersInv, TransfersTypeOK
<1>3. piece \in Files /\ piece.main = Front(unread.main, BufferSize)
  <2>1. Front(unread.main, BufferSize) \in Seq(Nat)
    BY <1>2, FrontAndRest, Zenon
  <2> QED
    BY <1>2, <2>1, FilesOfFields, Zenon
<1>4. last \in BOOLEAN /\ (last => unread.main = <<>>) /\ method \in Downloads /\ method # "IMAMeasurements"
  BY <1>1, Zenon DEF Downloads
<1> HIDE DEF piece
<1>5. /\ TransfersTypeOK' /\ SourceFits' /\ NothingSent' /\ NothingReturned'
      /\ Uploading' /\ Downloading' /\ TransfersAreWhole'
  BY <1>1, <1>3, <1>4, Streams, Zenon
<1>6. UNCHANGED <<method, source, stage, collected>> /\ stage = "sending"
      /\ (messages' = messages \/ unread.main # <<>>)
  BY <1>1, Zenon DEF Stream
<1>7. OneFile'
  <2>1. unread.main # <<>> => source.main # <<>>
    <3>1. Way(collected.main, Mains(messages), unread.main, source.main)
      BY <1>4, <1>6, Zenon DEF TransfersInv, Downloading
    <3>2. ASSUME source.main = <<>> PROVE unread.main = <<>>
      <4>1. Way(collected.main, Mains(messages), unread.main, <<>>)
        BY <3>1, <3>2, Zenon
      <4>2. collected.main = <<>> /\ unread.main = <<>>
        BY <4>1, WayOfNothing
      <4> QED
        BY <4>2, Zenon
    <3> QED
      BY <3>2, Zenon
  <2>2. collected.extra = <<>> /\ (messages # <<>> => source.main # <<>>)
    BY <1>1, <1>6, Zenon DEF TransfersInv, OneFile
  <2> QED
    BY <1>6, <2>1, <2>2, Zenon DEF OneFile
<1>8. Measuring'
  BY <1>4, <1>6, Zenon DEF Measuring
<1> QED
  BY <1>5, <1>7, <1>8, Zenon DEF TransfersInv

LEMMA StreamDualBuffersInv ==
    ASSUME TransfersInv, streamDualBuffers
    PROVE  TransfersInv'
<1> DEFINE main == Front(unread.main, BufferSize)
           extra == Front(unread.extra, BufferSize)
           piece == [main |-> main, extra |-> extra]
           last == unread = NoFiles
<1>1. method = "IMAMeasurements" /\ Stream(piece, last)
  BY Zenon DEF streamDualBuffers
<1>2. /\ unread \in Files /\ source \in Files /\ messages \in Seq(Files)
      /\ unread.main \in Seq(Nat) /\ unread.extra \in Seq(Nat) /\ source.main \in Seq(Nat) /\ source.extra \in Seq(Nat)
      /\ Len(source.main) \in Nat
  BY FilesHaveFields, Zenon DEF TransfersInv, TransfersTypeOK
<1>3. BufferSize \in Nat /\ PcrSize \in Nat /\ PcrSize # 0 /\ PcrSize <= BufferSize /\ Len(source.extra) = PcrSize
  BY <1>1, TransfersAssumption DEF TransfersInv, SourceFits
<1>4. PICK k \in 0..Len(unread.main) :
        /\ k = (IF BufferSize < Len(unread.main) THEN BufferSize ELSE Len(unread.main))
        /\ main \in Seq(Nat) /\ Rest(unread.main, BufferSize) \in Seq(Nat)
        /\ Len(Rest(unread.main, BufferSize)) = Len(unread.main) - k
  BY <1>2, <1>3, FrontAndRest, Zenon
<1>5. PICK l \in 0..Len(unread.extra) :
        /\ l = (IF BufferSize < Len(unread.extra) THEN BufferSize ELSE Len(unread.extra))
        /\ extra \in Seq(Nat) /\ Rest(unread.extra, BufferSize) \in Seq(Nat)
        /\ extra = Slice(unread.extra, 0, l) /\ Len(Rest(unread.extra, BufferSize)) = Len(unread.extra) - l
  BY <1>2, <1>3, FrontAndRest, Zenon
<1>6. piece \in Files /\ piece.main = main /\ piece.extra = extra
  BY <1>4, <1>5, FilesOfFields, Zenon
<1>7. last \in BOOLEAN /\ (last => unread.main = <<>>) /\ method \in Downloads /\ method \notin {"Result", "Attestation"}
  BY <1>1, NoFilesAreFiles, Zenon DEF Downloads
<1> HIDE DEF piece
<1>8. /\ TransfersTypeOK' /\ SourceFits' /\ NothingSent' /\ NothingReturned'
      /\ Uploading' /\ Downloading' /\ TransfersAreWhole'
  BY <1>1, <1>6, <1>7, Streams, Zenon
<1>9. /\ UNCHANGED <<method, source, stage, collected>> /\ stage = "sending"
      /\ \/ unread = NoFiles /\ UNCHANGED <<messages, unread>>
         \/ /\ unread # NoFiles /\ messages' = Append(messages, piece) /\ closed' = closed
            /\ unread' = [main |-> Rest(unread.main, BufferSize), extra |-> Rest(unread.extra, BufferSize)]
  BY <1>1, Zenon DEF Stream
<1>10. OneFile'
  BY <1>7, <1>9, Zenon DEF OneFile
<1>11. \/ PcrUnsent
       \/ (PcrOnTheWay \/ PcrArrived) /\ unread.extra = <<>> /\ (unread.main # <<>> => Long)
  BY <1>1, <1>9, Zenon DEF TransfersInv, Measuring
<1>12. source.extra # <<>>
  <2>1. Len(source.extra) # 0
    BY <1>3, Zenon
  <2> QED
    BY <1>2, <2>1, EmptySeq, Zenon
<1>13. Long' = Long
  BY <1>9, Zenon DEF Long
<1>14. \/ PcrUnsent'
       \/ (PcrOnTheWay' \/ PcrArrived') /\ unread'.extra = <<>> /\ (unread'.main # <<>> => Long')
  <2>1. CASE unread = NoFiles /\ UNCHANGED <<messages, unread>>
    <3>1. ~PcrUnsent
      BY <1>12, <2>1, NoFilesAreFiles, Zenon DEF PcrUnsent
    <3> QED
      BY <1>9, <1>11, <1>13, <2>1, <3>1, Zenon DEF PcrOnTheWay, PcrArrived
  <2>2. CASE /\ unread # NoFiles /\ messages' = Append(messages, piece)
             /\ unread' = [main |-> Rest(unread.main, BufferSize), extra |-> Rest(unread.extra, BufferSize)]
    <3>1. unread'.main = Rest(unread.main, BufferSize) /\ unread'.extra = Rest(unread.extra, BufferSize)
      BY <2>2, Zenon
    <3>2. CASE PcrUnsent
      <4>1. unread = source /\ messages = <<>> /\ Len(unread.extra) = PcrSize
        BY <1>3, <3>2, Zenon DEF PcrUnsent
      <4>2. l = PcrSize /\ l = Len(unread.extra)
        BY <1>3, <1>5, <4>1
      <4>3. extra = source.extra
        <5>1. Slice(unread.extra, 0, Len(unread.extra)) = unread.extra
          BY <1>2, SubSeqFull DEF Slice
        <5> QED
          BY <1>5, <4>1, <4>2, <5>1, Zenon
      <4>4. unread'.extra = <<>>
        <5>1. Len(Rest(unread.extra, BufferSize)) = 0
          BY <1>3, <1>5, <4>1, <4>2
        <5> QED
          BY <1>5, <3>1, <5>1, EmptySeq, Zenon
      <4>5. unread'.main # <<>> => Long'
        <5> SUFFICES ASSUME ~(Len(source.main) > BufferSize)
                     PROVE  Rest(unread.main, BufferSize) = <<>>
          BY <1>13, <3>1, Zenon DEF Long
        <5>1. ~(BufferSize < Len(unread.main))
          BY <1>2, <1>3, <4>1, Zenon
        <5>2. k = Len(unread.main)
          BY <1>4, <5>1, Zenon
        <5>3. Len(unread.main) \in Nat
          BY <1>2, <4>1, Zenon
        <5>4. Len(Rest(unread.main, BufferSize)) = 0
          BY <1>4, <5>2, <5>3
        <5> QED
          BY <1>4, <5>4, EmptySeq, Zenon
      <4>6. messages' # <<>> /\ Head(messages') = piece /\ Len(messages') = 1
        BY <1>6, <2>2, <4>1
      <4>7. PcrOnTheWay'
        <5>1. \A i \in 2..Len(messages') : FALSE
          BY <4>6
        <5> QED
          BY <1>6, <1>9, <4>3, <4>6, <5>1, Zenon DEF PcrOnTheWay
      <4> QED
        BY <4>4, <4>5, <4>7, Zenon
    <3>3. CASE (PcrOnTheWay \/ PcrArrived) /\ unread.extra = <<>> /\ (unread.main # <<>> => Long)
      <4>1. Long
        BY <1>2, <2>2, <3>3, NoFilesAreFiles, Zenon
      <4>2. Len(unread.extra) = 0
        BY <3>3
      <4>3. l = 0
        BY <1>5, <4>2
      <4>4. unread'.extra = <<>>
        <5>1. Len(Rest(unread.extra, BufferSize)) = 0 - 0
          BY <1>5, <4>2, <4>3, Zenon
        <5>2. 0 - 0 = 0
          OBVIOUS
        <5> QED
          BY <1>5, <3>1, <5>1, <5>2, EmptySeq, Zenon
      <4>5. piece.extra = <<>>
        <5>1. Slice(unread.extra, 0, 0) = <<>>
          BY <1>2, SubSeqEmpty DEF Slice
        <5> QED
          BY <1>5, <1>6, <4>3, <5>1, Zenon
      <4>6. /\ Len(messages') = Len(messages) + 1 /\ messages'[Len(messages) + 1] = piece /\ Len(messages) \in Nat
            /\ \A i \in 1..Len(messages) : messages'[i] = messages[i]
        BY <1>2, <1>6, <2>2
      <4>7. CASE PcrOnTheWay
        <5>1. messages' # <<>> /\ Head(messages') = Head(messages)
          <6>1. messages # <<>> /\ messages' = Append(messages, piece)
            BY <2>2, <4>7, Zenon DEF PcrOnTheWay
          <6>2. Append(messages, piece) # <<>>
            BY <1>2, <1>6, AppendProperties, Zenon
          <6> QED
            BY <1>2, <1>6, <6>1, <6>2, HeadTailAppend, Zenon
        <5>2. \A i \in 2..Len(messages') : i = Len(messages) + 1 \/ (i \in 2..Len(messages) /\ i \in 1..Len(messages))
          BY <4>6
        <5>3. PcrOnTheWay'
          BY <1>9, <1>13, <4>1, <4>5, <4>6, <4>7, <5>1, <5>2, Zenon DEF PcrOnTheWay
        <5> QED
          BY <1>13, <4>1, <4>4, <5>3, Zenon
      <4>8. CASE PcrArrived
        <5>1. \A i \in 1..Len(messages') : i = Len(messages) + 1 \/ i \in 1..Len(messages)
          BY <4>6
        <5>2. PcrArrived'
          BY <1>9, <1>13, <4>1, <4>5, <4>6, <4>8, <5>1, Zenon DEF PcrArrived
        <5> QED
          BY <1>13, <4>1, <4>4, <5>2, Zenon
      <4> QED
        BY <3>3, <4>7, <4>8, Zenon
    <3> QED
      BY <1>11, <3>2, <3>3, Zenon
  <2> QED
    BY <1>9, <2>1, <2>2, Zenon
<1>15. Measuring'
  BY <1>14, Zenon DEF Measuring
<1> QED
  BY <1>8, <1>10, <1>15, Zenon DEF TransfersInv

\* The client takes one message of a download.
LEMMA Receives ==
    ASSUME TransfersInv, method \in Downloads, stage = "sending", messages # <<>>, NEW extra \in Seq(Nat), receiveStream(extra),
           total = 0 => method = "IMAMeasurements"
    PROVE  /\ TransfersTypeOK' /\ SourceFits' /\ NothingSent' /\ NothingReturned'
           /\ Uploading' /\ Downloading' /\ TransfersAreWhole'
           /\ \/ stage' = "returned"
              \/ /\ UNCHANGED <<method, source, unread, closed, stage>>
                 /\ messages' = Tail(messages) /\ collected'.extra = extra
<1> DEFINE m == Head(messages)
<1>1. UNCHANGED <<method, source, unread, total, closed, handed, changed>> /\ messages' = Tail(messages)
  BY Zenon DEF receiveStream
<1>2. TransfersTypeOK /\ handed = <<>> /\ outcome = "pending"
  BY Zenon DEF TransfersInv, NothingReturned
<1>3. /\ messages' \in Seq(Files) /\ m.main \in Seq(Nat) /\ Len(m.main) \in Nat
      /\ \A f \in Seq(Nat) : \A c, u : Way(c, Mains(messages), u, f) => Way(c \o m.main, Mains(messages'), u, f)
  <2>1. m \in Files
    BY <1>2, Takes, Zenon
  <2> QED
    BY <1>1, <1>2, <2>1, Takes, FilesHaveFields, Zenon
<1>4. /\ collected \in Files /\ source \in Files /\ progress \in Nat /\ collected.main \in Seq(Nat) /\ source.main \in Seq(Nat)
  BY <1>2, FilesHaveFields, Zenon DEF TransfersTypeOK
<1>5. Way(collected.main, Mains(messages), unread.main, source.main) /\ total = Len(source.main)
  BY Zenon DEF TransfersInv, Downloading
<1>6. \/ stage' = "returned" /\ outcome' = "error" /\ UNCHANGED <<collected, progress>>
      \/ total = 0 /\ stage' = "returned" /\ outcome' = "panic" /\ UNCHANGED <<collected, progress>>
      \/ /\ collected' = [main |-> collected.main \o m.main, extra |-> extra]
         /\ progress' = progress + Len(m.main) /\ UNCHANGED <<stage, outcome>>
  BY Zenon DEF receiveStream, Return
<1> HIDE DEF m
<1>7. CASE stage' = "returned" /\ outcome' = "error" /\ UNCHANGED <<collected, progress>>
  <2>1. TransfersTypeOK' /\ SourceFits'
    BY <1>1, <1>3, <1>7, Zenon DEF TransfersInv, TransfersTypeOK, SourceFits
  <2>2. handed' = <<>> /\ outcome' \in {"error", "unauthenticated"}
    BY <1>1, <1>2, <1>7, Zenon
  <2> QED
    BY <1>7, <2>1, <2>2, HasReturned, Refused, Zenon
<1>8. CASE total = 0 /\ stage' = "returned" /\ outcome' = "panic" /\ UNCHANGED <<collected, progress>>
  <2>1. TransfersTypeOK' /\ SourceFits'
    BY <1>1, <1>3, <1>8, Zenon DEF TransfersInv, TransfersTypeOK, SourceFits
  <2>2. UploadIsWhole'
    BY <1>1, <1>2, Zenon DEF UploadIsWhole
  <2>3. Len(source'.main) \notin 1..BufferSize /\ method' = "IMAMeasurements" /\ outcome' # "ok"
    <3>1. 0 \notin 1..BufferSize
      OBVIOUS
    <3> QED
      BY <1>1, <1>5, <1>8, <3>1, Zenon
  <2>4. TransfersAreWhole'
    BY <2>2, <2>3, Zenon DEF TransfersAreWhole, DownloadIsWhole
  <2> QED
    BY <1>8, <2>1, <2>4, HasReturned, Zenon
<1>9. CASE /\ collected' = [main |-> collected.main \o m.main, extra |-> extra]
           /\ progress' = progress + Len(m.main) /\ UNCHANGED <<stage, outcome>>
  <2>1. collected' \in Files /\ collected'.main = collected.main \o m.main /\ collected'.extra = extra
    <3>1. collected.main \o m.main \in Seq(Nat)
      BY <1>3, <1>4, ConcatProperties, Zenon
    <3> QED
      BY <1>9, <3>1, FilesOfFields, Zenon
  <2>2. progress' \in Nat
    BY <1>3, <1>4, <1>9
  <2>3. TransfersTypeOK' /\ SourceFits'
    BY <1>1, <1>3, <2>1, <2>2, Zenon DEF TransfersInv, TransfersTypeOK, SourceFits
  <2>4. NothingSent' /\ NothingReturned'
    BY <1>1, <1>2, <1>9, Zenon DEF NothingSent, NothingReturned
  <2>5. Uploading'
    BY <1>1, Zenon DEF Uploading, Uploads, Downloads
  <2>6. Way(collected'.main, Mains(messages'), unread.main, source.main)
    BY <1>3, <1>4, <1>5, <2>1, Zenon
  <2>7. Downloading'
    BY <1>1, <1>5, <1>9, <2>6, Zenon DEF Downloading, TransfersInv
  <2>8. TransfersAreWhole'
    <3>1. stage' # "returned"
      BY <1>9, Zenon
    <3> QED
      BY <2>4, <3>1, GoesOn, Zenon
  <2> QED
    BY <1>1, <1>9, <2>1, <2>3, <2>4, <2>5, <2>7, <2>8, Zenon
<1> QED
  BY <1>6, <1>7, <1>8, <1>9, Zenon

LEMMA ReceiveFileInv ==
    ASSUME TransfersInv, ReceiveResult \/ ReceiveAttestation
    PROVE  TransfersInv'
<1>1. /\ method \in {"Result", "Attestation"} /\ method # "IMAMeasurements" /\ method \in Downloads
      /\ stage = "sending" /\ messages # <<>> /\ receiveStream(<<>>)
  BY Zenon DEF ReceiveResult, ReceiveAttestation, Downloads
<1>2. source.main # <<>> /\ total = Len(source.main)
  BY <1>1, Zenon DEF TransfersInv, OneFile, Downloading
<1>3. total # 0 /\ <<>> \in Seq(Nat)
  <2>1. source.main \in Seq(Nat)
    BY FilesHaveFields, Zenon DEF TransfersInv, TransfersTypeOK
  <2> QED
    BY <1>2, <2>1, EmptySeq, Zenon
<1>4. /\ TransfersTypeOK' /\ SourceFits' /\ NothingSent' /\ NothingReturned'
      /\ Uploading' /\ Downloading' /\ TransfersAreWhole'
      /\ \/ stage' = "returned"
         \/ /\ UNCHANGED <<method, source, unread, closed, stage>>
            /\ messages' = Tail(messages) /\ collected'.extra = <<>>
  BY <1>1, <1>3, Receives, Zenon
<1>5. method' = method /\ source' = source
  BY <1>1, Zenon DEF receiveStream
<1>6. OneFile'
  BY <1>2, <1>4, <1>5, Zenon DEF OneFile
<1>7. Measuring'
  BY <1>1, <1>5, Zenon DEF Measuring
<1> QED
  BY <1>4, <1>6, <1>7, Zenon DEF TransfersInv

LEMMA ReceiveIMAMeasurementsInv ==
    ASSUME TransfersInv, ReceiveIMAMeasurements
    PROVE  TransfersInv'
<1>1. method = "IMAMeasurements" /\ stage = "sending" /\ messages # <<>>
      /\ IF Len(Head(messages).extra) < PcrSize THEN Panic ELSE receiveStream(Head(messages).extra)
  BY Zenon DEF ReceiveIMAMeasurements
<1>2. TransfersTypeOK /\ messages \in Seq(Files) /\ handed = <<>> /\ Len(source.main) \in Nat
  BY <1>1, FilesHaveFields, Zenon DEF TransfersInv, TransfersTypeOK, NothingReturned
<1>3. /\ Tail(messages) \in Seq(Files) /\ Head(messages).extra \in Seq(Nat)
      /\ Head(messages) = messages[1] /\ Len(messages) \in Nat /\ 1 \in 1..Len(messages)
      /\ Len(Tail(messages)) = Len(messages) - 1 /\ \A i \in 1..(Len(messages) - 1) : Tail(messages)[i] = messages[i + 1]
  <2>1. Head(messages).extra \in Seq(Nat)
    BY <1>1, <1>2, Takes, Zenon
  <2> QED
    BY <1>1, <1>2, <2>1
<1>4. BufferSize \in Nat /\ PcrSize \in Nat /\ PcrSize > 0 /\ Len(source.extra) = PcrSize
  BY <1>1, TransfersAssumption DEF TransfersInv, SourceFits
<1>5. (PcrOnTheWay \/ PcrArrived) /\ unread.extra = <<>> /\ (unread.main # <<>> => Long)
  BY <1>1, Zenon DEF TransfersInv, Measuring, PcrUnsent
<1>6. CASE PcrOnTheWay
  <2>1. Head(messages).extra = source.extra /\ \A i \in 2..Len(messages) : messages[i].extra = <<>> /\ Long
    BY <1>6, Zenon DEF PcrOnTheWay
  <2>2. ~(Len(Head(messages).extra) < PcrSize)
    <3>1. ~(PcrSize < PcrSize)
      BY <1>4
    <3> QED
      BY <1>4, <2>1, <3>1, Zenon
  <2>3. receiveStream(Head(messages).extra) /\ method \in Downloads /\ method \notin {"Result", "Attestation"}
    BY <1>1, <2>2, Zenon DEF Downloads
  <2>4. /\ TransfersTypeOK' /\ SourceFits' /\ NothingSent' /\ NothingReturned'
        /\ Uploading' /\ Downloading' /\ TransfersAreWhole'
        /\ \/ stage' = "returned"
           \/ /\ UNCHANGED <<method, source, unread, closed, stage>>
              /\ messages' = Tail(messages) /\ collected'.extra = Head(messages).extra
    BY <1>1, <1>3, <2>3, Receives, Zenon
  <2>5. method' = method
    BY <2>3, Zenon DEF receiveStream
  <2>6. OneFile'
    BY <2>3, <2>5, Zenon DEF OneFile
  <2>7. CASE stage' = "returned"
    BY <2>4, <2>6, <2>7, HasReturned, Zenon DEF TransfersInv
  <2>8. CASE /\ UNCHANGED <<method, source, unread, closed, stage>>
             /\ messages' = Tail(messages) /\ collected'.extra = Head(messages).extra
    <3>1. Long' = Long
      BY <2>8, Zenon DEF Long
    <3>2. \A i \in 1..Len(messages') : i \in 1..(Len(messages) - 1) /\ i + 1 \in 2..Len(messages)
      BY <1>3, <2>8
    <3>3. \A i \in 1..Len(messages') : messages'[i].extra = <<>> /\ Long'
      BY <1>3, <2>1, <2>8, <3>1, <3>2, Zenon
    <3>4. PcrArrived'
      BY <2>1, <2>8, <3>3, Zenon DEF PcrArrived
    <3>5. Measuring'
      BY <1>5, <2>8, <3>1, <3>4, Zenon DEF Measuring
    <3> QED
      BY <2>4, <2>6, <3>5, Zenon DEF TransfersInv
  <2> QED
    BY <2>4, <2>7, <2>8, Zenon
<1>7. CASE PcrArrived
  <2>1. Head(messages).extra = <<>> /\ Long
    BY <1>3, <1>7, Zenon DEF PcrArrived
  <2>2. Len(Head(messages).extra) < PcrSize
    <3>1. Len(<<>>) < PcrSize
      BY <1>4, Zenon
    <3> QED
      BY <2>1, <3>1, Zenon
  <2>3. /\ UNCHANGED <<method, source, unread, total, progress, closed, collected, handed, changed>>
        /\ messages' = Tail(messages) /\ stage' = "returned" /\ outcome' = "panic"
    BY <1>1, <2>2, Zenon DEF Panic, Return
  <2>4. TransfersTypeOK' /\ SourceFits'
    BY <1>3, <2>3, Zenon DEF TransfersInv, TransfersTypeOK, SourceFits
  <2>5. UploadIsWhole'
    BY <1>2, <2>3, Zenon DEF UploadIsWhole
  <2>6. Len(source.main) \notin 1..BufferSize
    BY <1>2, <1>4, <2>1 DEF Long
  <2>7. DownloadIsWhole'
    <3>1. outcome' # "ok"
      BY <2>3, Zenon
    <3> QED
      BY <1>1, <2>3, <2>6, <3>1, Zenon DEF DownloadIsWhole
  <2> QED
    BY <2>3, <2>4, <2>5, <2>7, HasReturned, Zenon DEF TransfersInv, TransfersAreWhole
<1> QED
  BY <1>5, <1>6, <1>7, Zenon

\* The end of a download: all of the file has arrived, and PCR 10 with it.
LEMMA EndDownloadInv ==
    ASSUME TransfersInv, EndDownload
    PROVE  TransfersInv'
<1>1. /\ UNCHANGED <<method, source, unread, total, progress, messages, closed, collected, handed, changed>>
      /\ method \in Downloads /\ stage = "sending" /\ closed /\ messages = <<>> /\ stage' = "returned" /\ outcome' = "ok"
  BY Zenon DEF EndDownload, Return
<1>2. TransfersTypeOK' /\ SourceFits'
  BY <1>1, Zenon DEF TransfersInv, TransfersTypeOK, SourceFits
<1>3. source \in Files /\ collected \in Files /\ source.main \in Seq(Nat) /\ closed = TRUE /\ handed = <<>>
  BY <1>1, FilesHaveFields, Zenon DEF TransfersInv, TransfersTypeOK, NothingReturned
<1>4. collected.main = source.main
  <2>1. Way(collected.main, Mains(messages), unread.main, source.main) /\ unread.main = <<>>
    BY <1>1, <1>3, Zenon DEF TransfersInv, Downloading
  <2>2. Way(collected.main, <<>>, <<>>, source.main)
    BY <1>1, <2>1, NoPieces, Zenon
  <2> QED
    BY <1>3, <2>2, WayEnds, Zenon
<1>5. collected.extra = source.extra
  <2>1. CASE method = "IMAMeasurements"
    BY <1>1, <1>3, <2>1, Zenon DEF TransfersInv, Measuring, PcrUnsent, PcrOnTheWay, PcrArrived
  <2>2. CASE method # "IMAMeasurements"
    <3>1. method \in {"Result", "Attestation"} /\ method \notin {"Algo", "IMAMeasurements"}
      BY <1>1, <2>2, Zenon DEF Downloads
    <3> QED
      BY <1>1, <3>1, Zenon DEF TransfersInv, OneFile, SourceFits
  <2> QED
    BY <2>1, <2>2, Zenon
<1>6. collected = source
  BY <1>3, <1>4, <1>5 DEF Files
<1>7. TransfersAreWhole'
  <2>1. outcome' # "panic"
    BY <1>1, Zenon
  <2> QED
    BY <1>1, <1>3, <1>6, <2>1, Zenon DEF TransfersAreWhole, UploadIsWhole, DownloadIsWhole
<1> QED
  BY <1>1, <1>2, <1>7, HasReturned, Zenon DEF TransfersInv

LEMMA TransfersStep ==
    TransfersInv /\ [TransfersNext]_transfersVars => TransfersInv'
<1> SUFFICES ASSUME TransfersInv, [TransfersNext]_transfersVars
             PROVE  TransfersInv'
  BY Zenon
<1>1. CASE Algo \/ Data \/ Result \/ Attestation \/ IMAMeasurements \/ AttestationToken
  BY <1>1, BeginsInv, Zenon
<1>2. CASE AnswerToken
  BY <1>2, AnswerTokenInv, Zenon
<1>3. CASE FileChanges
  BY <1>3, FileChangesInv, Zenon
<1>4. CASE SendAlgorithm \/ SendData
  BY <1>4, SendingInv, Zenon
<1>5. CASE CloseSend
  BY <1>5, CloseSendInv, Zenon
<1>6. CASE receiveAlgoData \/ receiveStreamingData
  BY <1>6, CollectingInv, Zenon
<1>7. CASE AlgoEnds \/ DataEnds
  BY <1>7, HandingOverInv, Zenon
<1>8. CASE streamFileData
  BY <1>8, StreamFileDataInv, Zenon
<1>9. CASE streamDualBuffers
  BY <1>9, StreamDualBuffersInv, Zenon
<1>10. CASE ReceiveResult \/ ReceiveAttestation
  BY <1>10, ReceiveFileInv, Zenon
<1>11. CASE ReceiveIMAMeasurements
  BY <1>11, ReceiveIMAMeasurementsInv, Zenon
<1>12. CASE EndDownload
  BY <1>12, EndDownloadInv, Zenon
<1>13. CASE StreamFails
  BY <1>13, StreamFailsInv, Zenon
<1>14. CASE UNCHANGED transfersVars
  <2>1. /\ UNCHANGED <<method, source, unread, stage, total, progress, messages, closed>>
        /\ UNCHANGED <<collected, handed, changed, outcome>>
    BY <1>14, Zenon DEF transfersVars
  <2>2. TransfersTypeOK' /\ SourceFits' /\ NothingSent' /\ NothingReturned'
    BY <2>1, Zenon DEF TransfersInv, TransfersTypeOK, SourceFits, NothingSent, NothingReturned
  <2>3. Content' = Content
    BY <2>1, Zenon DEF Content
  <2>4. Uploading'
    BY <2>1, <2>3, Zenon DEF TransfersInv, Uploading
  <2>5. Downloading' /\ OneFile'
    BY <2>1, Zenon DEF TransfersInv, Downloading, OneFile
  <2>6. Measuring'
    BY <2>1, Zenon DEF TransfersInv, Measuring, PcrUnsent, PcrOnTheWay, PcrArrived, Long
  <2>7. UploadIsWhole' /\ DownloadIsWhole'
    BY <2>1, Zenon DEF TransfersInv, TransfersAreWhole, UploadIsWhole, DownloadIsWhole
  <2> QED
    BY <2>2, <2>4, <2>5, <2>6, <2>7, Zenon DEF TransfersInv, TransfersAreWhole
<1> QED
  BY <1>1, <1>2, <1>3, <1>4, <1>5, <1>6, <1>7, <1>8, <1>9, <1>10, <1>11, <1>12, <1>13, <1>14, Zenon DEF TransfersNext

(***************************************************************************)
(* A file on its way is never lost, reordered or duplicated: what arrived, *)
(* what the stream holds and what is still to be read are always the file, *)
(* cut into pieces, for every buffer size, limit and length of the files.  *)
(***************************************************************************)
THEOREM TransfersInvariant == TransfersSpec => []TransfersInv
<1>1. TransfersInv /\ [TransfersNext]_transfersVars => TransfersInv'
  BY TransfersStep, Zenon
<1> QED
  BY <1>1, TransfersInitially, PTL DEF TransfersSpec

(***************************************************************************)
(* The service gets whole files within the limits, or nothing, and a       *)
(* download reported as complete is the file of the server with PCR 10,    *)
(* wherever a stream breaks or a file changes while it is uploaded; only   *)
(* measurements that are empty or longer than a message stop the client.   *)
(***************************************************************************)
THEOREM FilesPassWhole == TransfersSpec => []TransfersAreWhole
<1>1. TransfersInv => TransfersAreWhole
  BY Zenon DEF TransfersInv
<1> QED
  BY <1>1, TransfersInvariant, PTL
=============================================================================
