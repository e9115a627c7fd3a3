------------------------------ MODULE SlipProofs ------------------------------
(***************************************************************************)
(* Theorems about the SLIP driver, for any size of the ring, any frames,   *)
(* losses and requests, and the interrupt between any two statements of    *)
(* slip_process, if it does not bring more than two bytes between two.     *)
(***************************************************************************)
EXTENDS Slip, SequenceTheorems, WellFoundedInduction, TLAPS

\* A set of numbers has a least one.
LEMMA LeastNumber ==
  ASSUME NEW T \in SUBSET Nat, T # {}
  PROVE  \E x \in T : \A y \in T : x <= y
<1> DEFINE R == {r \in Nat \X Nat : r[1] < r[2]}
<1>1. IsWellFoundedOn(R, Nat)
  BY NatLessThanWellFounded, Zenon DEF OpToRel
<1>2. \A x, y \in Nat : <<x, y>> \notin R => y <= x
  OBVIOUS
<1> HIDE DEF R
<1>3. PICK x \in T : \A y \in T : ~(<<y, x>> \in R)
  BY <1>1, WFMin
<1> QED BY <1>2, <1>3

\* A third byte could end a packet between `begin = pkt_end' and the test of
\* STATE_TWOPACKETS: slip_process would then take two packets for one.
ShortBurst == Burst <= 2

--------------------------------------------------------------------------------
(* The ring as two sequences of bytes.                                          *)

Off(i, k) == IF i + k < RX_BUFSIZE THEN i + k ELSE i + k - RX_BUFSIZE
Dist(i, j) == IF i <= j THEN j - i ELSE j + RX_BUFSIZE - i
Span(r, i, j) == [k \in 1..Dist(i, j) |-> r[Off(i, k - 1)]]

Ready == Span(rxbuf, begin, pkt_end)
Behind == Span(rxbuf, pkt_end, end)

RingOK ==
  /\ rxbuf \in [Index -> Byte] /\ begin \in Index /\ end \in Index /\ pkt_end \in Index
  /\ Dist(begin, pkt_end) + Dist(pkt_end, end) = Dist(begin, end)

--------------------------------------------------------------------------------
(* The line.                                                                    *)

Number == Len(frames)
Client == [c |-> "CLIENT", frame |-> 0, at |-> 0]
TailByte(k) == [c |-> "tail", frame |-> Number, at |-> k]

\* What is still to come of a frame after its first k bytes.
RestOf(bytes, f, k) ==
  FlattenSeq([i \in 1..(Len(bytes) - k) |-> Escaped(f, k + i, bytes[k + i])]) \o End(f)
Rest(k) == RestOf(frames[Number], Number, k)

NoFrame == line = <<>> \/ line = <<Client>>
AtStart == Number > 0 /\ line = End(Number) \o Rest(0)
AtByte(k) == Number > 0 /\ k \in 0..Len(frames[Number]) /\ line = Rest(k)
AtTail(k) ==
  /\ Number > 0 /\ k \in 0..(Len(frames[Number]) - 1) /\ frames[Number][k + 1] = "special"
  /\ line = Cons(TailByte(k + 1), Rest(k + 1))

--------------------------------------------------------------------------------
(* The packets that are complete: given, taken, first and, of two, the last.    *)

OneFrame(s) == \A i, j \in DOMAIN s : s[i].frame = s[j].frame
SentOf(fr, f) == [i \in DOMAIN fr[f] |-> [c |-> fr[f][i], frame |-> f, at |-> i]]
Intact(s, sp, fr) == s # <<>> /\ s[1].frame \notin sp \cup {0} => s = SentOf(fr, s[1].frame)
UpTo(s, n) == \A i \in DOMAIN s : s[i].frame <= n
Before(s, t) ==
  \A i \in DOMAIN s, j \in DOMAIN t :
    s[i].frame # 0 /\ t[j].frame # 0 => s[i].frame < t[j].frame

Packet(s, n, sp, fr) == s \in Seq(Byte) /\ OneFrame(s) /\ Intact(s, sp, fr) /\ UpTo(s, n)

\* Packets g were given, and a, b and c follow, each of them a packet or empty: of the frames
\* up to n, in their order.
Queue(g, a, b, c, n, sp, fr) ==
  /\ \A k \in DOMAIN g : g[k] # <<>> /\ Packet(g[k], n, sp, fr)
  /\ Packet(a, n, sp, fr) /\ Packet(b, n, sp, fr) /\ Packet(c, n, sp, fr)
  /\ \A j, k \in DOMAIN g : j < k => Before(g[j], g[k])
  /\ \A k \in DOMAIN g : Before(g[k], a) /\ Before(g[k], b) /\ Before(g[k], c)
  /\ Before(a, b) /\ Before(a, c) /\ Before(b, c)

Taken == IF pc \in {"second", "again", "give"} THEN copied ELSE <<>>
Closed == state = "TWOPACKETS" /\ pc # "answer"
Closing == IF Closed THEN Behind ELSE <<>>

Complete(n) == Queue(given, Taken, Ready, Closing, n, spoilt, frames)

--------------------------------------------------------------------------------
(* What has been received of the frame on the line.                             *)

Of(s, f) == \A i \in DOMAIN s : s[i].frame = f
Part(k) == [i \in 1..k |-> [c |-> frames[Number][i], frame |-> Number, at |-> i]]

Quiet ==
  /\ state # "ESC"
  /\ state = "OK" => Of(Behind, 0)
  /\ state = "RUBBISH" => Behind = <<>>

Receives(k, s) ==
  /\ state \in {"OK", "ESC"} => Of(Behind, Number)
  /\ state = "RUBBISH" => Behind = <<>>
  /\ Number \notin spoilt =>
       IF Closed THEN k = 0 /\ s = "OK"
       ELSE IF pc = "answer" THEN k > 0 => \E i \in DOMAIN Behind : Behind[i].frame = Number
       ELSE state = s /\ Behind = Part(k)

LineInv ==
  \/ NoFrame /\ Complete(Number) /\ Quiet
  \/ AtStart /\ Complete(Number - 1) /\ Quiet
  \/ /\ Number > 0 /\ Complete(Number - 1)
     /\ \E k \in 0..Len(frames[Number]) :
          \/ AtByte(k) /\ Receives(k, "OK")
          \/ AtTail(k) /\ Receives(k, "ESC")

--------------------------------------------------------------------------------
(* What the process has done.                                                   *)

PlaceInv ==
  /\ pc \in {"copy", "advance"} => Ready # <<>>
  /\ pc = "copy" => /\ Len(copied) <= Len(Ready) /\ copied = SubSeq(Ready, 1, Len(copied))
                    /\ Len(Ready) > BufLen => copied = <<>>
  /\ pc = "advance" => copied = IF Len(Ready) > BufLen THEN <<>> ELSE Ready
  /\ pc = "second" =>
       \/ Ready = <<>>
       \/ state # "TWOPACKETS" /\ burst >= 1 /\ (burst = 1 => Behind = <<>>)
  /\ pc = "start" => Ready = <<>> /\ Behind = <<>> /\ state = "TWOPACKETS"
  /\ pc = "answer" => state = "TWOPACKETS"

SlipInv ==
  /\ TypeOK /\ RingOK /\ given \in Seq(Seq(Byte)) /\ lost \in Nat /\ clients \in Nat
  /\ frames \in Seq(Frame) /\ Len(frames) <= MaxFrames
  /\ LineInv /\ PlaceInv

--------------------------------------------------------------------------------
(* Sequences.                                                                   *)

Starts(l, a, s) == l # <<>> /\ Head(l) = a /\ Tail(l) = s

LEMMA ConsFacts ==
  ASSUME NEW T, NEW a, NEW s, a \in T, s \in Seq(T)
  PROVE  Cons(a, s) \in Seq(T) /\ Starts(Cons(a, s), a, s)
<1>1. <<a>> \in Seq(T) /\ Len(<<a>>) = 1 /\ <<a>>[1] = a
  OBVIOUS
<1> DEFINE t == <<a>> \o s
<1>2. t \in Seq(T) /\ Len(t) = 1 + Len(s) /\ Len(s) \in Nat
      /\ \A i \in 1..Len(t) : t[i] = IF i <= 1 THEN a ELSE s[i - 1]
  <2>1. /\ t \in Seq(T) /\ Len(t) = Len(<<a>>) + Len(s)
        /\ \A i \in 1..(Len(<<a>>) + Len(s)) :
             t[i] = IF i <= Len(<<a>>) THEN <<a>>[i] ELSE s[i - Len(<<a>>)]
    BY <1>1, ConcatProperties
  <2> QED BY <1>1, <2>1
<1> HIDE DEF t
<1>3. t # <<>> /\ Head(t) = a
  BY <1>2
<1>4. Tail(t) \in Seq(T) /\ Len(Tail(t)) = Len(s) /\ \A i \in 1..Len(s) : Tail(t)[i] = s[i]
  BY <1>2, <1>3, HeadTailProperties
<1>5. Tail(t) = s
  BY <1>4, SeqEqual
<1>6. t \in Seq(T) /\ Starts(t, a, s)
  BY <1>2, <1>3, <1>5 DEF Starts
<1>7. Cons(a, s) = t
  BY DEF Cons, t
<1> QED BY <1>6, <1>7, Zenon

Regroups(x, y, z) == (x \o y) \o z = x \o (y \o z)

LEMMA Associative ==
  ASSUME NEW T, NEW x, NEW y, NEW z, x \in Seq(T), y \in Seq(T), z \in Seq(T)
  PROVE  Regroups(x, y, z)
BY ConcatAssociative DEF Regroups

\* What FlattenSeq joins, step by step.
Joined(f, s) == [i \in 1..Len(s) |-> IF i = 1 THEN s[i] ELSE f[i - 1] \o s[i]]

LEMMA JoinedExists ==
  ASSUME NEW T, NEW s \in Seq(Seq(T)), Len(s) > 0
  PROVE  \E f : f = Joined(f, s)
<1> DEFINE n == Len(s)
           Is(f, m) == f[1] = s[1] /\ \A i \in 2..m : f[i] = f[i - 1] \o s[i]
           There(m) == \E f : f = [i \in 1..m |-> f[i]] /\ Is(f, m)
           Missing == {m \in 1..n : ~There(m)}
<1>1. n \in Nat \ {0}
  OBVIOUS
<1> HIDE DEF n
<1>2. SUFFICES ASSUME Missing # {} PROVE FALSE
  <2>1. ASSUME Missing = {} PROVE There(n)
    <3> HIDE DEF There
    <3>1. n \in 1..n
      BY <1>1
    <3> QED BY <2>1, <3>1
  <2>2. ASSUME NEW f, f = [i \in 1..n |-> f[i]], Is(f, n) PROVE f = Joined(f, s)
    <3>1. ASSUME NEW i \in 1..n PROVE f[i] = IF i = 1 THEN s[i] ELSE f[i - 1] \o s[i]
      <4>1. f[1] = s[1] /\ \A j \in 2..n : f[j] = f[j - 1] \o s[j]
        BY <2>2
      <4>2. CASE i = 1
        BY <4>1, <4>2
      <4>3. CASE i # 1
        <5>1. i \in 2..n
          BY <1>1, <4>3
        <5> QED BY <4>1, <4>3, <5>1, Zenon
      <4> QED BY <4>2, <4>3
    <3>2. [i \in 1..n |-> f[i]] = [i \in 1..n |-> IF i = 1 THEN s[i] ELSE f[i - 1] \o s[i]]
      BY <3>1
    <3> HIDE DEF Is
    <3>3. f = [i \in 1..n |-> IF i = 1 THEN s[i] ELSE f[i - 1] \o s[i]]
      BY <2>2, <3>2, Zenon
    <3> QED BY <3>3, Zenon DEF Joined, n
  <2>3. ASSUME Missing = {} PROVE \E f : f = Joined(f, s)
    <3>1. \E f : f = [i \in 1..n |-> f[i]] /\ Is(f, n)
      BY <2>1, <2>3
    <3> HIDE DEF Is
    <3> QED BY <2>2, <3>1, Zenon
  <2> HIDE DEF Missing
  <2> QED BY <2>3
<1>3. PICK p \in Missing : \A k \in Missing : p <= k
  <2>1. Missing \subseteq Nat
    <3>1. \A m \in Missing : m \in 1..n
      BY Zenon
    <3> HIDE DEF Missing
    <3> QED BY <1>1, <3>1
  <2> HIDE DEF Missing
  <2> QED BY <1>2, <2>1, LeastNumber
<1>4. CASE p = 1
  <2> DEFINE f == [i \in 1..1 |-> s[1]]
  <2>1. f = [i \in 1..1 |-> f[i]] /\ Is(f, 1)
    OBVIOUS
  <2> QED BY <1>3, <1>4, <2>1
<1>5. CASE p # 1
  <2>1. p \in Nat /\ p \in 2..n /\ p - 1 \in 1..n /\ p - 1 \notin Missing
    <3> HIDE DEF There
    <3>1. p \in 1..n
      BY <1>3
    <3>2. p - 1 \in 1..n /\ ~(p <= p - 1)
      BY <1>1, <1>5, <3>1
    <3> QED BY <1>1, <1>3, <1>5, <3>1, <3>2
  <2>2. PICK g : g = [i \in 1..(p - 1) |-> g[i]] /\ Is(g, p - 1)
    BY <2>1
  <2> DEFINE last == g[p - 1] \o s[p]
             f == [i \in 1..p |-> IF i = p THEN last ELSE g[i]]
  <2> HIDE DEF last
  <2>3. f = [i \in 1..p |-> f[i]] /\ f[1] = s[1]
    BY <1>5, <2>1, <2>2
  <2>4. ASSUME NEW i \in 2..p PROVE f[i] = f[i - 1] \o s[i]
    <3>1. i \in 1..p /\ i - 1 \in 1..p /\ i - 1 # p
      BY <2>1
    <3>2. CASE i = p
      <4>1. f[i] = last /\ f[i - 1] = g[p - 1]
        BY <3>1, <3>2
      <4> QED BY <3>2, <4>1 DEF last
    <3>3. CASE i # p
      <4>1. i \in 2..(p - 1) /\ f[i] = g[i] /\ f[i - 1] = g[i - 1]
        BY <2>1, <3>1, <3>3
      <4> HIDE DEF f
      <4> QED BY <2>2, <4>1
    <3> QED BY <3>2, <3>3
  <2>5. There(p)
    <3> HIDE DEF f
    <3> QED BY <2>3, <2>4
  <2> QED BY <1>3, <2>5
<1> QED BY <1>4, <1>5

LEMMA FlattenFacts ==
  ASSUME NEW T, NEW s \in Seq(Seq(T)), Len(s) > 0
  PROVE  \E f : /\ \A i \in 1..Len(s) : f[i] \in Seq(T)
                /\ f[1] = s[1] /\ \A i \in 2..Len(s) : f[i] = f[i - 1] \o s[i]
                /\ FlattenSeq(s) = f[Len(s)]
<1> DEFINE f == CHOOSE x : x = Joined(x, s)
<1>1. f = Joined(f, s)
  BY JoinedExists, Zenon
<1>2. FlattenSeq(s) = f[Len(s)]
  BY DEF FlattenSeq, Joined
<1> HIDE DEF f
<1>0. Len(s) \in Nat
  BY LenProperties
<1>3. /\ f[1] = s[1] /\ \A i \in 2..Len(s) : f[i] = f[i - 1] \o s[i]
  <2>1. f = [i \in 1..Len(s) |-> IF i = 1 THEN s[i] ELSE f[i - 1] \o s[i]]
    BY <1>1, Zenon DEF Joined
  <2>2. \A i \in 1..Len(s) : f[i] = IF i = 1 THEN s[i] ELSE f[i - 1] \o s[i]
    BY <2>1, Zenon
  <2>3. 1 \in 1..Len(s) /\ \A i \in 2..Len(s) : i \in 1..Len(s) /\ i # 1
    BY <1>0
  <2> QED BY <2>2, <2>3, Zenon
<1> DEFINE Bad == {i \in 1..Len(s) : f[i] \notin Seq(T)}
<1>4. ASSUME Bad # {} PROVE FALSE
  <2>1. PICK p \in Bad : \A k \in Bad : p <= k
    <3>1. Bad \subseteq Nat
      OBVIOUS
    <3> HIDE DEF Bad
    <3> QED BY <1>4, <3>1, LeastNumber
  <2>2. p # 1 /\ p \in 1..Len(s)
    <3>1. s[1] \in Seq(T)
      BY ElementOfSeq
    <3> QED BY <1>3, <2>1, <3>1
  <2>3. p - 1 \in 1..Len(s) /\ ~(p <= p - 1) /\ p \in 2..Len(s)
    BY <2>2
  <2>4. f[p - 1] \in Seq(T)
    BY <2>1, <2>3
  <2>5. s[p] \in Seq(T)
    BY <2>2, ElementOfSeq
  <2>6. f[p] = f[p - 1] \o s[p]
    BY <1>3, <2>3
  <2>7. f[p] \in Seq(T)
    BY <2>4, <2>5, <2>6, ConcatProperties
  <2> QED BY <2>1, <2>7
<1> QED BY <1>2, <1>3, <1>4

LEMMA FlattenTyped ==
  ASSUME NEW T, NEW s \in Seq(Seq(T))
  PROVE  FlattenSeq(s) \in Seq(T)
<1>1. CASE Len(s) = 0
  <2>1. FlattenSeq(s) = s /\ s = <<>>
    BY <1>1, EmptySeq DEF FlattenSeq
  <2> QED BY <2>1
<1>2. CASE Len(s) > 0
  <2>1. Len(s) \in 1..Len(s)
    BY <1>2
  <2> QED BY <1>2, <2>1, FlattenFacts
<1> QED BY <1>1, <1>2, LenProperties

\* The first sequence and the flattened rest.
LEMMA FlattenCons ==
  ASSUME NEW T, NEW t \in Seq(Seq(T)), NEW s \in Seq(Seq(T)), Len(t) = Len(s) + 1,
         \A i \in 1..Len(s) : t[i + 1] = s[i]
  PROVE  FlattenSeq(t) = t[1] \o FlattenSeq(s)
<1>1. Len(s) \in Nat /\ Len(t) > 0 /\ t[1] \in Seq(T)
  BY LenProperties, ElementOfSeq
<1>2. PICK f : /\ \A i \in 1..Len(t) : f[i] \in Seq(T)
               /\ f[1] = t[1] /\ \A i \in 2..Len(t) : f[i] = f[i - 1] \o t[i]
               /\ FlattenSeq(t) = f[Len(t)]
  BY <1>1, FlattenFacts
<1>3. CASE Len(s) = 0
  <2>1. FlattenSeq(s) = <<>>
    BY <1>3, EmptySeq DEF FlattenSeq
  <2>2. FlattenSeq(t) = t[1]
    BY <1>2, <1>3
  <2> QED BY <1>1, <2>1, <2>2, ConcatEmptySeq
<1>4. CASE Len(s) > 0
  <2>1. PICK g : /\ \A i \in 1..Len(s) : g[i] \in Seq(T)
                 /\ g[1] = s[1] /\ \A i \in 2..Len(s) : g[i] = g[i - 1] \o s[i]
                 /\ FlattenSeq(s) = g[Len(s)]
    BY <1>4, FlattenFacts
  <2> DEFINE Bad == {i \in 1..Len(s) : f[i + 1] # t[1] \o g[i]}
  <2>2. ASSUME Bad # {} PROVE FALSE
    <3>1. PICK p \in Bad : \A k \in Bad : p <= k
      <4>1. Bad \subseteq Nat
        <5>1. \A m \in Bad : m \in 1..Len(s)
          BY Zenon
        <5> HIDE DEF Bad
        <5> QED BY <1>1, <5>1
      <4> HIDE DEF Bad
      <4> QED BY <2>2, <4>1, LeastNumber
    <3>2. p \in 1..Len(s) /\ p + 1 \in 2..Len(t) /\ (p + 1) - 1 = p
      BY <1>1
    <3>3. f[p + 1] = f[p] \o s[p]
      <4>1. f[p + 1] = f[(p + 1) - 1] \o t[p + 1]
        BY <1>2, <3>2
      <4> QED BY <3>2, <4>1
    <3>4. CASE p = 1
      BY <1>2, <2>1, <3>1, <3>3, <3>4
    <3>5. CASE p # 1
      <4>1. p - 1 \in 1..Len(s) /\ ~(p <= p - 1) /\ p \in 2..Len(s) /\ (p - 1) + 1 = p
        BY <3>2, <3>5
      <4>2. f[p] = t[1] \o g[p - 1]
        BY <3>1, <4>1
      <4>3. g[p] = g[p - 1] \o s[p]
        BY <2>1, <4>1
      <4>4. g[p - 1] \in Seq(T) /\ s[p] \in Seq(T)
        BY <2>1, <3>2, <4>1, ElementOfSeq
      <4>5. (t[1] \o g[p - 1]) \o s[p] = t[1] \o (g[p - 1] \o s[p])
        <5>1. Regroups(t[1], g[p - 1], s[p])
          BY <1>1, <4>4, Associative, Zenon
        <5> QED BY <5>1, Zenon DEF Regroups
      <4> QED BY <3>1, <3>3, <4>2, <4>3, <4>5
    <3> QED BY <3>4, <3>5
  <2>3. Len(s) \in 1..Len(s)
    BY <1>1, <1>4
  <2>4. f[Len(s) + 1] = t[1] \o g[Len(s)]
    BY <2>2, <2>3
  <2> QED BY <1>2, <2>1, <2>4
<1> QED BY <1>1, <1>3, <1>4

--------------------------------------------------------------------------------
(* The ring.                                                                    *)

LEMMA Circle ==
  ASSUME NEW i \in Index, NEW j \in Index
  PROVE  /\ Dist(i, j) \in 0..(RX_BUFSIZE - 1) /\ (Dist(i, j) = 0 <=> i = j)
         /\ Off(i, Dist(i, j)) = j
         /\ \A k \in 0..(RX_BUFSIZE - 1) : Off(i, k) \in Index /\ Dist(i, Off(i, k)) = k
         /\ NextIndex(j) \in Index /\ (NextIndex(j) = i <=> Dist(i, j) = RX_BUFSIZE - 1)
         /\ NextIndex(j) # i => Dist(i, NextIndex(j)) = Dist(i, j) + 1
BY SizeAssumption DEF Index, Dist, Off, NextIndex

LEMMA SpanTyped ==
  ASSUME NEW r \in [Index -> Byte], NEW i \in Index, NEW j \in Index
  PROVE  /\ Span(r, i, j) \in Seq(Byte) /\ Len(Span(r, i, j)) = Dist(i, j)
         /\ DOMAIN Span(r, i, j) = 1..Dist(i, j)
         /\ \A k \in 1..Dist(i, j) : Span(r, i, j)[k] = r[Off(i, k - 1)]
         /\ Span(r, i, j) = <<>> <=> i = j
<1>1. Dist(i, j) \in 0..(RX_BUFSIZE - 1) /\ (Dist(i, j) = 0 <=> i = j)
      /\ \A k \in 0..(RX_BUFSIZE - 1) : Off(i, k) \in Index
  BY Circle
<1> DEFINE d == Dist(i, j)
<1> HIDE DEF d
<1>2. d \in Nat /\ \A k \in 1..d : k - 1 \in 0..(RX_BUFSIZE - 1)
  BY <1>1, SizeAssumption DEF d
<1>3. \A k \in 1..d : r[Off(i, k - 1)] \in Byte
  BY <1>1, <1>2
<1>4. [k \in 1..d |-> r[Off(i, k - 1)]] \in Seq(Byte) /\ Len([k \in 1..d |-> r[Off(i, k - 1)]]) = d
  BY <1>2, <1>3
<1>5. Span(r, i, j) = [k \in 1..d |-> r[Off(i, k - 1)]]
  BY Zenon DEF Span, d
<1> DEFINE s == Span(r, i, j)
<1> HIDE DEF s
<1>6. s \in Seq(Byte) /\ Len(s) = d /\ DOMAIN s = 1..d /\ \A k \in 1..d : s[k] = r[Off(i, k - 1)]
  BY <1>2, <1>4, <1>5 DEF s
<1>7. s = <<>> <=> d = 0
  BY <1>2, <1>6
<1> QED BY <1>1, <1>6, <1>7 DEF s, d

LEMMA SpanOther ==
  ASSUME NEW r \in [Index -> Byte], NEW i \in Index, NEW j \in Index, NEW e \in Index,
         NEW x \in Byte, Dist(i, j) <= Dist(i, e)
  PROVE  Span([r EXCEPT ![e] = x], i, j) = Span(r, i, j)
<1> DEFINE q == [r EXCEPT ![e] = x]
<1>1. q \in [Index -> Byte] /\ \A k \in Index \ {e} : q[k] = r[k]
  OBVIOUS
<1> HIDE DEF q
<1>2. ASSUME NEW k \in 1..Dist(i, j) PROVE q[Off(i, k - 1)] = r[Off(i, k - 1)]
  <2>1. k - 1 \in 0..(RX_BUFSIZE - 1) /\ k - 1 # Dist(i, e)
    <3>1. Dist(i, j) \in 0..(RX_BUFSIZE - 1) /\ Dist(i, e) \in 0..(RX_BUFSIZE - 1)
      BY Circle
    <3> QED BY <3>1, SizeAssumption
  <2>2. Off(i, k - 1) \in Index /\ Dist(i, Off(i, k - 1)) = k - 1
    BY <2>1, Circle
  <2> QED BY <1>1, <2>1, <2>2
<1> QED BY <1>2 DEF Span, q

LEMMA SpanGrows ==
  ASSUME NEW r \in [Index -> Byte], NEW i \in Index, NEW e \in Index, NEW x \in Byte,
         NextIndex(e) # i
  PROVE  Span([r EXCEPT ![e] = x], i, NextIndex(e)) = Append(Span(r, i, e), x)
<1> DEFINE q == [r EXCEPT ![e] = x]
           s == Span(r, i, e)
           t == Span(q, i, NextIndex(e))
<1>1. q \in [Index -> Byte] /\ q[e] = x
  OBVIOUS
<1> HIDE DEF q
<1>2. NextIndex(e) \in Index /\ Dist(i, NextIndex(e)) = Dist(i, e) + 1 /\ Dist(i, e) \in Nat
      /\ Off(i, Dist(i, e)) = e
  BY Circle, SizeAssumption
<1>3. s \in Seq(Byte) /\ Len(s) = Dist(i, e) /\ \A k \in 1..Dist(i, e) : s[k] = r[Off(i, k - 1)]
  BY SpanTyped
<1>4. t \in Seq(Byte) /\ Len(t) = Dist(i, e) + 1
      /\ \A k \in 1..(Dist(i, e) + 1) : t[k] = q[Off(i, k - 1)]
  BY <1>1, <1>2, SpanTyped, SMTT(30)
<1>5. Span(q, i, e) = s
  <2>1. Dist(i, e) <= Dist(i, e)
    BY <1>2
  <2> QED BY <2>1, SpanOther DEF q
<1>6. \A k \in 1..Dist(i, e) : s[k] = q[Off(i, k - 1)]
  BY <1>1, <1>5, SpanTyped
<1>7. Append(s, x) \in Seq(Byte) /\ Len(Append(s, x)) = Dist(i, e) + 1
  BY <1>2, <1>3
<1>8. ASSUME NEW k \in 1..(Dist(i, e) + 1) PROVE t[k] = Append(s, x)[k]
  <2>1. CASE k = Dist(i, e) + 1
    <3>1. k - 1 = Dist(i, e)
      BY <1>2, <2>1
    <3>2. t[k] = x
      BY <1>1, <1>2, <1>4, <3>1
    <3> HIDE DEF s, t
    <3>3. Append(s, x)[k] = x
      BY <1>2, <1>3, <2>1
    <3> QED BY <3>2, <3>3
  <2>2. CASE k # Dist(i, e) + 1
    <3>1. k \in 1..Dist(i, e)
      BY <1>2, <2>2
    <3>2. t[k] = s[k]
      BY <1>4, <1>6, <3>1
    <3> HIDE DEF s, t
    <3> QED BY <1>2, <1>3, <3>1, <3>2
  <2> QED BY <2>1, <2>2
<1> HIDE DEF s, t
<1>9. t = Append(s, x)
  BY <1>4, <1>7, <1>8, SeqEqual
<1> QED BY <1>9 DEF s, t, q

LEMMA Turns ==
  ASSUME NEW a \in 0..(2 * RX_BUFSIZE - 1)
  PROVE  a % RX_BUFSIZE = IF a < RX_BUFSIZE THEN a ELSE a - RX_BUFSIZE
BY SizeAssumption

LEMMA RingFacts ==
  ASSUME RingOK
  PROVE  /\ Ready \in Seq(Byte) /\ Behind \in Seq(Byte) /\ Len(Ready) = PacketLen
         /\ Ready = <<>> <=> begin = pkt_end
         /\ Behind = <<>> <=> end = pkt_end
         /\ \A k \in 0..(Len(Ready) - 1) : rxbuf[(begin + k) % RX_BUFSIZE] = Ready[k + 1]
<1>1. rxbuf \in [Index -> Byte] /\ begin \in Index /\ end \in Index /\ pkt_end \in Index
  BY DEF RingOK
<1>2. /\ Ready \in Seq(Byte) /\ Len(Ready) = Dist(begin, pkt_end)
      /\ \A k \in 1..Dist(begin, pkt_end) : Ready[k] = rxbuf[Off(begin, k - 1)]
      /\ Ready = <<>> <=> begin = pkt_end
  BY <1>1, SpanTyped, SMTT(30) DEF Ready
<1>3. Behind \in Seq(Byte) /\ (Behind = <<>> <=> pkt_end = end)
  BY <1>1, SpanTyped DEF Behind
<1>4. PacketLen = Dist(begin, pkt_end)
  <2>1. pkt_end + RX_BUFSIZE - begin \in 0..(2 * RX_BUFSIZE - 1)
    BY <1>1, SizeAssumption DEF Index
  <2>2. PICK a \in 0..(2 * RX_BUFSIZE - 1) : a = pkt_end + RX_BUFSIZE - begin
    BY <2>1
  <2>3. a % RX_BUFSIZE = IF a < RX_BUFSIZE THEN a ELSE a - RX_BUFSIZE
    BY Turns
  <2>4. PacketLen = a % RX_BUFSIZE
    BY <2>2 DEF PacketLen
  <2>5. (IF a < RX_BUFSIZE THEN a ELSE a - RX_BUFSIZE) = Dist(begin, pkt_end)
    BY <1>1, <2>2, SizeAssumption DEF Dist, Index
  <2> QED BY <2>3, <2>4, <2>5
<1>5. ASSUME NEW k \in 0..(Len(Ready) - 1) PROVE rxbuf[(begin + k) % RX_BUFSIZE] = Ready[k + 1]
  <2>1. k \in 0..(RX_BUFSIZE - 1) /\ k + 1 \in 1..Dist(begin, pkt_end) /\ (k + 1) - 1 = k
    <3>1. Dist(begin, pkt_end) \in 0..(RX_BUFSIZE - 1)
      BY <1>1, Circle
    <3> QED BY <1>2, <3>1, SizeAssumption
  <2>2. begin + k \in 0..(2 * RX_BUFSIZE - 1)
    BY <1>1, <2>1, SizeAssumption DEF Index
  <2>3. (begin + k) % RX_BUFSIZE = Off(begin, k)
    <3>1. PICK a \in 0..(2 * RX_BUFSIZE - 1) : a = begin + k
      BY <2>2
    <3>2. a % RX_BUFSIZE = IF a < RX_BUFSIZE THEN a ELSE a - RX_BUFSIZE
      BY Turns
    <3>3. Off(begin, k) = IF a < RX_BUFSIZE THEN a ELSE a - RX_BUFSIZE
      BY <1>1, <2>1, <3>1, SizeAssumption DEF Off, Index
    <3> QED BY <3>1, <3>2, <3>3, Zenon
  <2> QED BY <1>2, <2>1, <2>3
<1> QED BY <1>2, <1>3, <1>4, <1>5

\* A byte is added at the end.
LEMMA RingAdd ==
  ASSUME RingOK, NEW x \in Byte, NextIndex(end) # begin,
         rxbuf' = [rxbuf EXCEPT ![end] = x], end' = NextIndex(end), UNCHANGED <<begin, pkt_end>>
  PROVE  RingOK' /\ Ready' = Ready /\ Behind' = Append(Behind, x)
<1>1. /\ rxbuf \in [Index -> Byte] /\ begin \in Index /\ end \in Index /\ pkt_end \in Index
      /\ Dist(begin, pkt_end) + Dist(pkt_end, end) = Dist(begin, end)
  BY DEF RingOK
<1>2. /\ Dist(begin, end) \in 0..(RX_BUFSIZE - 1) /\ Dist(pkt_end, end) \in 0..(RX_BUFSIZE - 1)
      /\ Dist(begin, pkt_end) \in 0..(RX_BUFSIZE - 1)
      /\ Dist(begin, NextIndex(end)) = Dist(begin, end) + 1 /\ NextIndex(end) \in Index
      /\ Dist(begin, end) # RX_BUFSIZE - 1
  BY <1>1, Circle
<1>3. Dist(pkt_end, end) # RX_BUFSIZE - 1 /\ Dist(begin, pkt_end) <= Dist(begin, end)
  BY <1>1, <1>2, SizeAssumption
<1>4. NextIndex(end) # pkt_end /\ Dist(pkt_end, NextIndex(end)) = Dist(pkt_end, end) + 1
  BY <1>1, <1>3, Circle
<1>5. [rxbuf EXCEPT ![end] = x] \in [Index -> Byte]
  BY <1>1
<1>6. RingOK'
  BY <1>1, <1>2, <1>4, <1>5 DEF RingOK
<1>7. Ready' = Ready
  BY <1>1, <1>3, SpanOther, ZenonT(60) DEF Ready
<1>8. Behind' = Append(Behind, x)
  BY <1>1, <1>4, SpanGrows DEF Behind
<1> QED BY <1>6, <1>7, <1>8

\* What is behind the packet is thrown away.
LEMMA RingDrop ==
  ASSUME RingOK, end' = pkt_end, UNCHANGED <<rxbuf, begin, pkt_end>>
  PROVE  RingOK' /\ Ready' = Ready /\ Behind' = <<>>
<1>1. /\ rxbuf \in [Index -> Byte] /\ begin \in Index /\ pkt_end \in Index
      /\ Dist(pkt_end, pkt_end) = 0 /\ Dist(begin, pkt_end) \in Nat
  BY Circle, SizeAssumption DEF RingOK
<1>2. RingOK'
  BY <1>1 DEF RingOK
<1>3. Behind' = <<>>
  BY <1>1, SpanTyped DEF Behind
<1> QED BY <1>2, <1>3 DEF Ready

\* What is behind no packet becomes the packet.
LEMMA RingFirst ==
  ASSUME RingOK, begin = pkt_end, pkt_end' = end, UNCHANGED <<rxbuf, begin, end>>
  PROVE  RingOK' /\ Ready' = Behind /\ Behind' = <<>>
<1>1. /\ rxbuf \in [Index -> Byte] /\ begin \in Index /\ end \in Index
      /\ Dist(end, end) = 0 /\ Dist(begin, end) \in Nat
  BY Circle, SizeAssumption DEF RingOK
<1>2. RingOK'
  BY <1>1 DEF RingOK
<1>3. Behind' = <<>>
  BY <1>1, SpanTyped DEF Behind
<1> QED BY <1>2, <1>3 DEF Ready, Behind

\* The packet is removed.
LEMMA RingTake ==
  ASSUME RingOK, begin' = pkt_end, UNCHANGED <<rxbuf, pkt_end, end>>
  PROVE  RingOK' /\ Ready' = <<>> /\ Behind' = Behind
<1>1. /\ rxbuf \in [Index -> Byte] /\ pkt_end \in Index /\ end \in Index
      /\ Dist(pkt_end, pkt_end) = 0 /\ Dist(pkt_end, end) \in Nat
  BY Circle, SizeAssumption DEF RingOK
<1>2. RingOK'
  BY <1>1 DEF RingOK
<1>3. Ready' = <<>>
  BY <1>1, SpanTyped DEF Ready
<1> QED BY <1>2, <1>3 DEF Behind

LEMMA RingInit ==
  ASSUME rxbuf' \in [Index -> Byte], begin' = 0, end' = 0, pkt_end' = 0
  PROVE  RingOK' /\ Ready' = <<>> /\ Behind' = <<>>
<1>1. 0 \in Index
  BY SizeAssumption DEF Index
<1>2. Dist(0, 0) = 0
  BY <1>1, Circle
<1>3. Span(rxbuf', 0, 0) = <<>>
  BY <1>1, SpanTyped
<1> QED BY <1>1, <1>2, <1>3 DEF RingOK, Ready, Behind

LEMMA RingSame ==
  ASSUME RingOK, UNCHANGED <<rxbuf, begin, end, pkt_end>>
  PROVE  RingOK' /\ Ready' = Ready /\ Behind' = Behind
BY DEF RingOK, Ready, Behind

\* The frames that rxbuf_init() and a packet that is too long spoil.
LEMMA FromRing ==
  ASSUME RingOK
  PROVE  /\ \A i \in DOMAIN Behind : Behind[i].frame \in From(begin, end)
         /\ \A i \in DOMAIN Ready : Ready[i].frame \in From(begin, pkt_end)
<1>1. /\ rxbuf \in [Index -> Byte] /\ begin \in Index /\ end \in Index /\ pkt_end \in Index
      /\ Dist(begin, pkt_end) + Dist(pkt_end, end) = Dist(begin, end)
  BY DEF RingOK
<1>2. /\ DOMAIN Behind = 1..Dist(pkt_end, end)
      /\ \A k \in 1..Dist(pkt_end, end) : Behind[k] = rxbuf[Off(pkt_end, k - 1)]
      /\ DOMAIN Ready = 1..Dist(begin, pkt_end)
      /\ \A k \in 1..Dist(begin, pkt_end) : Ready[k] = rxbuf[Off(begin, k - 1)]
  <2>1. /\ Behind \in Seq(Byte) /\ Len(Behind) = Dist(pkt_end, end)
        /\ \A k \in 1..Dist(pkt_end, end) : Behind[k] = rxbuf[Off(pkt_end, k - 1)]
    BY <1>1, SpanTyped, SMTT(30) DEF Behind
  <2>2. /\ Ready \in Seq(Byte) /\ Len(Ready) = Dist(begin, pkt_end)
        /\ \A k \in 1..Dist(begin, pkt_end) : Ready[k] = rxbuf[Off(begin, k - 1)]
    BY <1>1, SpanTyped, SMTT(30) DEF Ready
  <2> QED BY <2>1, <2>2
<1>3. ASSUME NEW i \in 1..Dist(pkt_end, end) PROVE Behind[i].frame \in From(begin, end)
  <2>1. Off(pkt_end, i - 1) \in IF begin <= end THEN begin..(end - 1) ELSE Index \ (end..(begin - 1))
    BY <1>1, SizeAssumption DEF Off, Dist, Index
  <2> QED BY <1>2, <2>1 DEF From
<1>4. ASSUME NEW i \in 1..Dist(begin, pkt_end) PROVE Ready[i].frame \in From(begin, pkt_end)
  <2>1. Off(begin, i - 1) \in IF begin <= pkt_end THEN begin..(pkt_end - 1)
                              ELSE Index \ (pkt_end..(begin - 1))
    BY <1>1, SizeAssumption DEF Off, Dist, Index
  <2> QED BY <1>2, <2>1 DEF From
<1> QED BY <1>2, <1>3, <1>4

--------------------------------------------------------------------------------
(* The packets that are complete.                                               *)

LEMMA EmptyPacket ==
  ASSUME NEW n, NEW sp, NEW fr
  PROVE  /\ Packet(<<>>, n, sp, fr)
         /\ \A s : Before(s, <<>>) /\ Before(<<>>, s)
BY DEF Packet, OneFrame, Intact, UpTo, Before

\* A packet stays one when more is spoilt and frames are added.
Grows(n, sp, fr, tp, gr) == sp \subseteq tp /\ \A f \in 1..n : gr[f] = fr[f]

LEMMA PacketKept ==
  ASSUME NEW n \in Nat, NEW m \in Nat, n <= m, NEW sp, NEW fr, NEW tp, NEW gr,
         Grows(n, sp, fr, tp, gr), NEW s, Packet(s, n, sp, fr)
  PROVE  Packet(s, m, tp, gr)
<1>1. s \in Seq(Byte) /\ OneFrame(s) /\ UpTo(s, n) /\ Intact(s, sp, fr)
  BY DEF Packet
<1>2. \A i \in DOMAIN s : s[i] \in Byte /\ s[i].frame \in Nat
  <2>1. \A i \in DOMAIN s : s[i] \in Byte
    BY <1>1
  <2> QED BY <2>1, SizeAssumption DEF Byte
<1>3. UpTo(s, m)
  BY <1>1, <1>2 DEF UpTo
<1>4. ASSUME s # <<>>, s[1].frame \notin tp \cup {0} PROVE s = SentOf(gr, s[1].frame)
  <2>1. 1 \in DOMAIN s
    BY <1>1, <1>4
  <2>2. s[1].frame \in 1..n
    BY <1>1, <1>2, <1>4, <2>1 DEF UpTo
  <2>3. s = SentOf(fr, s[1].frame)
    BY <1>1, <1>4 DEF Intact, Grows
  <2>4. SentOf(gr, s[1].frame) = SentOf(fr, s[1].frame)
    BY <2>2 DEF SentOf, Grows
  <2> QED BY <2>3, <2>4, Zenon
<1> QED BY <1>1, <1>3, <1>4, Zenon DEF Packet, Intact

LEMMA QueueKept ==
  ASSUME NEW n \in Nat, NEW m \in Nat, n <= m, NEW sp, NEW fr, NEW tp, NEW gr,
         Grows(n, sp, fr, tp, gr), NEW g, NEW a, NEW b, NEW c, Queue(g, a, b, c, n, sp, fr)
  PROVE  Queue(g, a, b, c, m, tp, gr)
<1>1. ASSUME NEW s, Packet(s, n, sp, fr) PROVE Packet(s, m, tp, gr)
  BY <1>1, PacketKept
<1> QED BY <1>1, Zenon DEF Queue

\* The first packet is taken, the packet behind it becomes the first, packets are lost.
LEMMA QueueMoves ==
  ASSUME NEW g, NEW a, NEW b, NEW c, NEW n, NEW sp, NEW fr, Queue(g, a, b, c, n, sp, fr)
  PROVE  /\ Queue(g, <<>>, b, c, n, sp, fr) /\ Queue(g, a, <<>>, c, n, sp, fr)
         /\ Queue(g, a, b, <<>>, n, sp, fr) /\ Queue(g, <<>>, <<>>, <<>>, n, sp, fr)
         /\ a = <<>> => Queue(g, b, <<>>, c, n, sp, fr)
         /\ b = <<>> => Queue(g, a, c, <<>>, n, sp, fr)
<1>1. /\ Packet(<<>>, n, sp, fr)
      /\ \A s : Before(s, <<>>) /\ Before(<<>>, s)
  BY EmptyPacket
<1> QED BY <1>1, Zenon DEF Queue

\* A packet is given to uIP.
LEMMA QueueGives ==
  ASSUME NEW g \in Seq(Seq(Byte)), NEW a, a # <<>>, NEW b, NEW c, NEW n, NEW sp, NEW fr,
         Queue(g, a, b, c, n, sp, fr)
  PROVE  Queue(Append(g, a), <<>>, b, c, n, sp, fr)
<1> DEFINE h == Append(g, a)
           m == Len(g) + 1
<1>0. a \in Seq(Byte)
  BY DEF Queue, Packet
<1>1. /\ Len(g) \in Nat /\ DOMAIN g = 1..Len(g) /\ DOMAIN h = 1..m /\ h[m] = a
      /\ \A k \in DOMAIN g : h[k] = g[k]
  BY <1>0
<1>2. \A k \in DOMAIN h : k = m \/ (k \in DOMAIN g /\ h[k] = g[k])
  BY <1>1
<1>3. \A j, k \in DOMAIN h : j < k => j \in DOMAIN g /\ (k = m \/ k \in DOMAIN g)
  BY <1>1
<1> HIDE DEF h, m
<1>4. /\ Packet(<<>>, n, sp, fr)
      /\ \A s : Before(s, <<>>) /\ Before(<<>>, s)
  BY EmptyPacket
<1>5. \A k \in DOMAIN h : h[k] # <<>> /\ Packet(h[k], n, sp, fr)
  BY <1>1, <1>2, Zenon DEF Queue
<1>6. \A j, k \in DOMAIN h : j < k => Before(h[j], h[k])
  BY <1>1, <1>3, Zenon DEF Queue
<1>7. \A k \in DOMAIN h : Before(h[k], <<>>) /\ Before(h[k], b) /\ Before(h[k], c)
  BY <1>1, <1>2, <1>4, Zenon DEF Queue
<1> QED BY <1>4, <1>5, <1>6, <1>7, Zenon DEF Queue, h

\* A packet ends: it is of a later frame than the others, or of requests.
LEMMA QueueEnds ==
  ASSUME NEW g, NEW a, NEW b, NEW n \in Nat, NEW m \in Nat, n <= m, NEW sp, NEW fr,
         Queue(g, a, b, <<>>, n, sp, fr),
         NEW s, Packet(s, m, sp, fr), \A i \in DOMAIN s : s[i].frame = 0 \/ s[i].frame > n
  PROVE  /\ Queue(g, a, b, s, m, sp, fr)
         /\ b = <<>> => Queue(g, a, s, <<>>, m, sp, fr)
<1>1. Grows(n, sp, fr, sp, fr)
  BY DEF Grows
<1>2. Queue(g, a, b, <<>>, m, sp, fr)
  BY <1>1, QueueKept
<1>3. ASSUME NEW t, Packet(t, n, sp, fr) PROVE Before(t, s)
  <2>1. \A i \in DOMAIN t : t[i].frame <= n /\ t[i].frame \in Nat
    <3>1. t \in Seq(Byte) /\ UpTo(t, n)
      BY <1>3 DEF Packet
    <3>2. \A i \in DOMAIN t : t[i] \in Byte
      BY <3>1
    <3> QED BY <3>1, <3>2, SizeAssumption DEF Byte, UpTo
  <2>2. \A i \in DOMAIN s : s[i].frame \in Nat
    <3>1. s \in Seq(Byte)
      BY DEF Packet
    <3>2. \A i \in DOMAIN s : s[i] \in Byte
      BY <3>1
    <3> QED BY <3>2, SizeAssumption DEF Byte
  <2> QED BY <2>1, <2>2 DEF Before
<1>4. /\ Before(a, s) /\ Before(b, s) /\ \A k \in DOMAIN g : Before(g[k], s)
  BY <1>3, Zenon DEF Queue
<1>5. Queue(g, a, b, s, m, sp, fr)
  BY <1>2, <1>4, Zenon DEF Queue
<1> QED BY <1>5, QueueMoves

--------------------------------------------------------------------------------
(* The line.                                                                    *)

Wire == [c : {"plain", "ESC", "tail", "END", "CLIENT"}, frame : Nat, at : Nat]

LEMMA FrameFacts ==
  ASSUME frames \in Seq(Frame), Number > 0
  PROVE  /\ Number \in Nat /\ frames[Number] \in Seq({"plain", "special"})
         /\ Len(frames[Number]) \in Nat \ {0}
         /\ \A i \in 1..Len(frames[Number]) : frames[Number][i] \in {"plain", "special"}
<1>1. Number \in Nat /\ Number \in 1..Len(frames)
  BY DEF Number
<1>2. frames[Number] \in Frame
  BY <1>1
<1>3. frames[Number] \in Seq({"plain", "special"}) /\ frames[Number] # <<>>
  BY <1>2, SizeAssumption
<1> DEFINE s == frames[Number]
<1> HIDE DEF s
<1>4. s \in Seq({"plain", "special"}) /\ s # <<>>
  BY <1>3 DEF s
<1>5. Len(s) \in Nat \ {0} /\ \A i \in 1..Len(s) : s[i] \in {"plain", "special"}
  BY <1>4
<1> QED BY <1>1, <1>4, <1>5 DEF s

LEMMA EscapedTyped ==
  ASSUME NEW f \in Nat, NEW i \in Nat, NEW c
  PROVE  Escaped(f, i, c) \in Seq(Wire) /\ End(f) \in Seq(Wire)
<1>1. ASSUME NEW x \in {"plain", "ESC", "tail", "END"}, NEW j \in Nat
      PROVE  [c |-> x, frame |-> f, at |-> j] \in Wire
  BY DEF Wire
<1>2. \A x \in Wire : <<x>> \in Seq(Wire)
  OBVIOUS
<1>3. \A x, y \in Wire : <<x, y>> \in Seq(Wire)
  OBVIOUS
<1>4. /\ [c |-> "plain", frame |-> f, at |-> i] \in Wire
      /\ [c |-> "ESC", frame |-> f, at |-> i] \in Wire
      /\ [c |-> "tail", frame |-> f, at |-> i] \in Wire
      /\ [c |-> "END", frame |-> f, at |-> 0] \in Wire
  BY <1>1
<1> HIDE DEF Wire
<1> QED BY <1>2, <1>3, <1>4, Zenon DEF Escaped, End

LEMMA RestFacts ==
  ASSUME frames \in Seq(Frame), Number > 0, NEW k \in 0..Len(frames[Number])
  PROVE  /\ Rest(k) \in Seq(Wire)
         /\ k = Len(frames[Number]) => Rest(k) = End(Number)
         /\ k < Len(frames[Number]) =>
              Rest(k) = Escaped(Number, k + 1, frames[Number][k + 1]) \o Rest(k + 1)
<1> DEFINE n == Number
           l == Len(frames[n])
           e(i) == Escaped(n, i, frames[n][i])
           body(j) == [i \in 1..(l - j) |-> e(j + i)]
<1>1. n \in Nat /\ l \in Nat \ {0}
  BY FrameFacts
<1>2. \A j : Rest(j) = FlattenSeq(body(j)) \o End(n)
  BY Zenon DEF Rest, RestOf
<1>3. End(n) \in Seq(Wire) /\ \A i \in Nat : e(i) \in Seq(Wire)
  BY <1>1, EscapedTyped
<1> HIDE DEF n, l, e
<1>4. ASSUME NEW j \in 0..l
      PROVE  /\ body(j) \in Seq(Seq(Wire)) /\ Len(body(j)) = l - j
             /\ \A i \in 1..(l - j) : body(j)[i] = e(j + i)
  <2>1. l - j \in Nat /\ \A i \in 1..(l - j) : j + i \in Nat
    BY <1>1
  <2>2. \A i \in 1..(l - j) : e(j + i) \in Seq(Wire)
    BY <1>3, <2>1
  <2> QED BY <2>1, <2>2
<1> HIDE DEF body
<1>5. ASSUME NEW j \in 0..l PROVE FlattenSeq(body(j)) \in Seq(Wire) /\ Rest(j) \in Seq(Wire)
  <2>1. body(j) \in Seq(Seq(Wire))
    BY <1>4
  <2>2. FlattenSeq(body(j)) \in Seq(Wire)
    BY <2>1, FlattenTyped
  <2>3. FlattenSeq(body(j)) \o End(n) \in Seq(Wire)
    BY <1>3, <2>2, ConcatProperties
  <2> QED BY <1>2, <2>2, <2>3
<1>6. k \in 0..l
  BY DEF l, n
<1>7. ASSUME k = l PROVE Rest(k) = End(n)
  <2>1. body(k) \in Seq(Seq(Wire)) /\ Len(body(k)) = 0
    BY <1>1, <1>4, <1>6, <1>7
  <2>2. body(k) = <<>>
    BY <2>1
  <2>3. FlattenSeq(<<>>) = <<>>
    BY DEF FlattenSeq
  <2>4. <<>> \o End(n) = End(n)
    BY <1>3, ConcatEmptySeq
  <2> QED BY <1>2, <2>2, <2>3, <2>4
<1>8. ASSUME k < l PROVE Rest(k) = e(k + 1) \o Rest(k + 1)
  <2>1. k + 1 \in 0..l /\ l - k = (l - (k + 1)) + 1 /\ 1 \in 1..(l - k) /\ k \in Nat
        /\ \A i \in 1..(l - (k + 1)) : i + 1 \in 1..(l - k) /\ k + (i + 1) = (k + 1) + i
    BY <1>1, <1>6, <1>8
  <2> DEFINE t == body(k)
             s == body(k + 1)
  <2>2. /\ t \in Seq(Seq(Wire)) /\ Len(t) = l - k /\ \A i \in 1..(l - k) : t[i] = e(k + i)
        /\ s \in Seq(Seq(Wire)) /\ Len(s) = l - (k + 1)
        /\ \A i \in 1..(l - (k + 1)) : s[i] = e((k + 1) + i)
    <3>1. k \in 0..l
      BY <1>6
    <3> HIDE DEF t, s
    <3>2. t \in Seq(Seq(Wire)) /\ Len(t) = l - k /\ \A i \in 1..(l - k) : t[i] = e(k + i)
      BY <1>4, <3>1, Zenon DEF t
    <3>3. s \in Seq(Seq(Wire)) /\ Len(s) = l - (k + 1)
          /\ \A i \in 1..(l - (k + 1)) : s[i] = e((k + 1) + i)
      BY <1>4, <2>1, Zenon DEF s
    <3> QED BY <3>2, <3>3
  <2> HIDE DEF t, s
  <2>3. \A i \in 1..Len(s) : t[i + 1] = s[i]
    <3>1. ASSUME NEW i \in 1..(l - (k + 1)) PROVE t[i + 1] = s[i]
      <4>1. t[i + 1] = e(k + (i + 1)) /\ s[i] = e((k + 1) + i) /\ k + (i + 1) = (k + 1) + i
        BY <2>1, <2>2, Zenon
      <4> QED BY <4>1, Zenon
    <3> QED BY <2>2, <3>1, Zenon
  <2>4. Len(t) = Len(s) + 1
    BY <2>1, <2>2
  <2>5. FlattenSeq(t) = t[1] \o FlattenSeq(s)
    BY <2>2, <2>3, <2>4, FlattenCons
  <2>6. t[1] = e(k + 1)
    BY <2>1, <2>2
  <2>7. e(k + 1) \in Seq(Wire) /\ FlattenSeq(s) \in Seq(Wire)
    BY <1>3, <1>5, <2>1 DEF s
  <2>8. Regroups(e(k + 1), FlattenSeq(s), End(n))
    BY <1>3, <2>7, Associative, Zenon
  <2>9. Rest(k) = (e(k + 1) \o FlattenSeq(s)) \o End(n)
    BY <1>2, <2>5, <2>6, Zenon DEF t
  <2>10. Rest(k + 1) = FlattenSeq(s) \o End(n)
    BY <1>2, Zenon DEF s
  <2> QED BY <2>8, <2>9, <2>10, Zenon DEF Regroups
<1> QED BY <1>5, <1>6, <1>7, <1>8, Zenon DEF l, n, e

LEMMA WriteFacts ==
  ASSUME NEW f \in Nat, NEW bytes \in Seq({"plain", "special"})
  PROVE  slip_write(f, bytes) = End(f) \o RestOf(bytes, f, 0)
<1> DEFINE l == Len(bytes)
           b == [i \in 1..l |-> Escaped(f, i, bytes[i])]
<1>1. l \in Nat /\ DOMAIN bytes = 1..l
  OBVIOUS
<1>2. b \in Seq(Seq(Wire))
  <2>1. \A i \in 1..l : Escaped(f, i, bytes[i]) \in Seq(Wire)
    BY <1>1, EscapedTyped
  <2> QED BY <1>1, <2>1
<1>3. FlattenSeq(b) \in Seq(Wire) /\ End(f) \in Seq(Wire)
  BY <1>1, <1>2, FlattenTyped, EscapedTyped
<1>4. slip_write(f, bytes) = (End(f) \o FlattenSeq(b)) \o End(f)
  BY <1>1, Zenon DEF slip_write
<1>5. RestOf(bytes, f, 0) = FlattenSeq(b) \o End(f)
  <2>1. l - 0 = l /\ \A i \in 1..l : 0 + i = i
    BY <1>1
  <2>2. [i \in 1..(l - 0) |-> Escaped(f, 0 + i, bytes[0 + i])] = b
    BY <2>1
  <2>3. RestOf(bytes, f, 0) = FlattenSeq([i \in 1..(l - 0) |-> Escaped(f, 0 + i, bytes[0 + i])]) \o End(f)
    BY Zenon DEF RestOf
  <2> HIDE DEF b
  <2> QED BY <2>2, <2>3, Zenon
<1> HIDE DEF b
<1>6. Regroups(End(f), FlattenSeq(b), End(f))
  BY <1>3, Associative, Zenon
<1> QED BY <1>4, <1>5, <1>6, Zenon DEF Regroups

Sends(c, k) == [c |-> c, frame |-> Number, at |-> k]

LEMMA Bytes ==
  ASSUME frames \in Seq(Frame), Number > 0
  PROVE  /\ End(Number) = <<Sends("END", 0)>> /\ Sends("END", 0) \in Wire
         /\ \A k \in Nat, c \in {"plain", "ESC", "tail"} : Sends(c, k) \in Wire
         /\ \A k : Escaped(Number, k, "plain") = <<Sends("plain", k)>>
         /\ \A k : Escaped(Number, k, "special") = <<Sends("ESC", k), Sends("tail", k)>>
         /\ \A k : TailByte(k) = Sends("tail", k)
<1>1. Number \in Nat
  BY FrameFacts
<1>2. Sends("END", 0) \in Wire /\ \A k \in Nat, c \in {"plain", "ESC", "tail"} : Sends(c, k) \in Wire
  BY <1>1 DEF Sends, Wire
<1>3. \A k : Escaped(Number, k, "special") = <<Sends("ESC", k), Sends("tail", k)>>
  BY DEF Escaped, Sends
<1>4. \A k : Escaped(Number, k, "plain") = <<Sends("plain", k)>>
  BY DEF Escaped, Sends
<1> QED BY <1>2, <1>3, <1>4, Zenon DEF Sends, End, TailByte

LEMMA ConsTwo ==
  ASSUME NEW T, NEW a, NEW b, NEW s, a \in T, b \in T, s \in Seq(T)
  PROVE  Starts(<<a, b>> \o s, a, Cons(b, s))
<1>1. <<a>> \in Seq(T) /\ <<b>> \in Seq(T) /\ <<a>> \o <<b>> = <<a, b>>
  <2>1. \A x \in T : <<x>> \in Seq(T)
    OBVIOUS
  <2>2. <<a>> \o <<b>> = <<a, b>>
    <3> DEFINE x == <<a>>
               y == <<b>>
               z == <<a, b>>
    <3>1. /\ x \in Seq(T) /\ y \in Seq(T) /\ z \in Seq(T) /\ Len(x) = 1 /\ Len(y) = 1 /\ Len(z) = 2
          /\ x[1] = a /\ y[1] = b /\ z[1] = a /\ z[2] = b
      OBVIOUS
    <3> HIDE DEF x, y, z
    <3>2. x \o y = z
      <4>1. /\ x \o y \in Seq(T) /\ Len(x \o y) = Len(x) + Len(y)
            /\ \A i \in 1..(Len(x) + Len(y)) :
                 (x \o y)[i] = IF i <= Len(x) THEN x[i] ELSE y[i - Len(x)]
        BY <3>1, ConcatProperties
      <4> DEFINE w == x \o y
      <4> HIDE DEF w
      <4>2. w \in Seq(T) /\ Len(w) = 2 /\ w[1] = a /\ w[2] = b
        BY <3>1, <4>1 DEF w
      <4>3. \A i \in 1..Len(w) : w[i] = z[i]
        BY <3>1, <4>2
      <4>4. w = z
        BY <3>1, <4>2, <4>3, SeqEqual
      <4> QED BY <4>4 DEF w
    <3> QED BY <3>2 DEF x, y, z
  <2> QED BY <2>1, <2>2, Zenon
<1>2. Regroups(<<a>>, <<b>>, s)
  BY <1>1, Associative, Zenon
<1>3. <<a, b>> \o s = Cons(a, Cons(b, s))
  BY <1>1, <1>2 DEF Regroups, Cons
<1>4. Cons(b, s) \in Seq(T)
  BY ConsFacts, Zenon
<1>5. Starts(Cons(a, Cons(b, s)), a, Cons(b, s))
  BY <1>4, ConsFacts, Zenon
<1> QED BY <1>3, <1>5, Zenon

\* The byte that comes next, and what is on the line after it.
LEMMA StartSteps ==
  ASSUME frames \in Seq(Frame), AtStart
  PROVE  line # <<>> /\ Head(line) = Sends("END", 0) /\ Tail(line) = Rest(0)
<1>1. Number > 0 /\ line = End(Number) \o Rest(0)
  BY DEF AtStart
<1>2. 0 \in 0..Len(frames[Number])
  BY <1>1, FrameFacts
<1>3. Rest(0) \in Seq(Wire)
  BY <1>1, <1>2, RestFacts
<1>4. Sends("END", 0) \in Wire /\ line = <<Sends("END", 0)>> \o Rest(0)
  BY <1>1, Bytes
<1>5. Starts(Cons(Sends("END", 0), Rest(0)), Sends("END", 0), Rest(0))
  BY <1>3, <1>4, ConsFacts, Zenon
<1>6. line = Cons(Sends("END", 0), Rest(0))
  BY <1>4 DEF Cons
<1> QED BY <1>5, <1>6, Zenon DEF Starts

LEMMA ByteSteps ==
  ASSUME frames \in Seq(Frame), NEW k, AtByte(k)
  PROVE  /\ line # <<>> /\ Number > 0 /\ k \in 0..Len(frames[Number])
         /\ k = Len(frames[Number]) => Head(line) = Sends("END", 0) /\ Tail(line) = <<>>
         /\ k < Len(frames[Number]) =>
              \/ /\ frames[Number][k + 1] = "plain"
                 /\ Head(line) = Sends("plain", k + 1) /\ Tail(line) = Rest(k + 1)
              \/ /\ frames[Number][k + 1] = "special"
                 /\ Head(line) = Sends("ESC", k + 1)
                 /\ Tail(line) = Cons(TailByte(k + 1), Rest(k + 1))
<1>1. Number > 0 /\ k \in 0..Len(frames[Number]) /\ line = Rest(k)
  BY DEF AtByte
<1>2. Len(frames[Number]) \in Nat
  BY <1>1, FrameFacts
<1>3. CASE k = Len(frames[Number])
  <2>1. line = <<Sends("END", 0)>>
    <3>1. Rest(k) = End(Number)
      BY <1>1, <1>3, RestFacts
    <3> QED BY <1>1, <3>1, Bytes
  <2>2. \A x : <<x>> # <<>> /\ Head(<<x>>) = x /\ Tail(<<x>>) = <<>>
    OBVIOUS
  <2>3. ~(k < Len(frames[Number]))
    BY <1>2, <1>3
  <2> QED BY <1>1, <1>3, <2>1, <2>2, <2>3, Zenon
<1>4. CASE k < Len(frames[Number])
  <2>1. k + 1 \in 0..Len(frames[Number]) /\ k + 1 \in 1..Len(frames[Number]) /\ k + 1 \in Nat
    BY <1>1, <1>2, <1>4
  <2>2. frames[Number][k + 1] \in {"plain", "special"}
    BY <1>1, <2>1, FrameFacts
  <2>3. line = Escaped(Number, k + 1, frames[Number][k + 1]) \o Rest(k + 1)
    BY <1>1, <1>4, RestFacts
  <2>4. Rest(k + 1) \in Seq(Wire)
    BY <1>1, <2>1, RestFacts
  <2>5. ASSUME NEW j \in Nat, j = k + 1
        PROVE  /\ Sends("plain", j) \in Wire /\ Sends("ESC", j) \in Wire /\ Sends("tail", j) \in Wire
               /\ Escaped(Number, j, "plain") = <<Sends("plain", j)>>
               /\ Escaped(Number, j, "special") = <<Sends("ESC", j), Sends("tail", j)>>
               /\ TailByte(j) = Sends("tail", j)
    BY <1>1, Bytes
  <2>6. PICK j \in Nat : j = k + 1
    BY <2>1
  <2>7. CASE frames[Number][k + 1] = "plain"
    <3>1. line = Cons(Sends("plain", j), Rest(j))
      <4>1. line = Escaped(Number, j, "plain") \o Rest(j)
        BY <2>3, <2>6, <2>7
      <4> QED BY <2>5, <2>6, <4>1 DEF Cons
    <3>2. line # <<>> /\ Head(line) = Sends("plain", j) /\ Tail(line) = Rest(j)
      <4>1. Starts(line, Sends("plain", j), Rest(j))
        BY <2>4, <2>5, <2>6, <3>1, ConsFacts, Zenon
      <4> QED BY <4>1 DEF Starts
    <3> QED BY <1>1, <1>2, <1>4, <2>6, <2>7, <3>2
  <2>8. CASE frames[Number][k + 1] = "special"
    <3>1. line = <<Sends("ESC", j), Sends("tail", j)>> \o Rest(j)
      <4>1. line = Escaped(Number, j, "special") \o Rest(j)
        BY <2>3, <2>6, <2>8
      <4> QED BY <2>5, <2>6, <4>1
    <3>2. line # <<>> /\ Head(line) = Sends("ESC", j) /\ Tail(line) = Cons(TailByte(j), Rest(j))
      <4>1. Starts(line, Sends("ESC", j), Cons(Sends("tail", j), Rest(j)))
        <5>1. Starts(<<Sends("ESC", j), Sends("tail", j)>> \o Rest(j), Sends("ESC", j),
                     Cons(Sends("tail", j), Rest(j)))
          BY <2>4, <2>5, <2>6, ConsTwo, Zenon
        <5> QED BY <3>1, <5>1
      <4> QED BY <2>5, <2>6, <4>1, Zenon DEF Starts
    <3> QED BY <1>1, <1>2, <1>4, <2>6, <2>8, <3>2
  <2> QED BY <2>2, <2>7, <2>8
<1> QED BY <1>1, <1>2, <1>3, <1>4

LEMMA TailSteps ==
  ASSUME frames \in Seq(Frame), NEW k, AtTail(k)
  PROVE  /\ line # <<>> /\ Number > 0 /\ k \in 0..Len(frames[Number])
         /\ k < Len(frames[Number]) /\ frames[Number][k + 1] = "special"
         /\ Head(line) = Sends("tail", k + 1) /\ Tail(line) = Rest(k + 1)
<1>1. /\ Number > 0 /\ k \in 0..(Len(frames[Number]) - 1) /\ frames[Number][k + 1] = "special"
      /\ line = Cons(TailByte(k + 1), Rest(k + 1))
  BY DEF AtTail
<1>2. Len(frames[Number]) \in Nat
  BY <1>1, FrameFacts
<1>3. k \in 0..Len(frames[Number]) /\ k < Len(frames[Number]) /\ k + 1 \in 0..Len(frames[Number])
      /\ k + 1 \in Nat
  BY <1>1, <1>2
<1>4. TailByte(k + 1) = Sends("tail", k + 1) /\ Sends("tail", k + 1) \in Wire
      /\ Rest(k + 1) \in Seq(Wire)
  BY <1>1, <1>3, Bytes, RestFacts
<1>5. Starts(line, Sends("tail", k + 1), Rest(k + 1))
  BY <1>1, <1>4, ConsFacts, Zenon
<1> QED BY <1>1, <1>3, <1>5 DEF Starts

--------------------------------------------------------------------------------
(* The steps of slip_process.                                                   *)

LEMMA InvFacts ==
  ASSUME SlipInv
  PROVE  /\ TypeOK /\ RingOK /\ LineInv /\ PlaceInv
         /\ given \in Seq(Seq(Byte)) /\ frames \in Seq(Frame)
         /\ Number \in 0..MaxFrames /\ Number \in Nat
         /\ Ready \in Seq(Byte) /\ Behind \in Seq(Byte)
<1>1. /\ TypeOK /\ RingOK /\ LineInv /\ PlaceInv
      /\ given \in Seq(Seq(Byte)) /\ frames \in Seq(Frame) /\ Len(frames) <= MaxFrames
  BY DEF SlipInv
<1>2. Ready \in Seq(Byte) /\ Behind \in Seq(Byte)
  BY <1>1, RingFacts
<1>3. Len(frames) \in Nat
  BY <1>1
<1> QED BY <1>1, <1>2, <1>3, SizeAssumption DEF Number

LEMMA LineStays ==
  ASSUME UNCHANGED <<line, frames>>
  PROVE  /\ Number' = Number /\ (NoFrame <=> NoFrame') /\ (AtStart <=> AtStart')
         /\ \A k : (AtByte(k) <=> AtByte(k)') /\ (AtTail(k) <=> AtTail(k)')
         /\ \A k : Part(k)' = Part(k)
<1>1. Number' = Number /\ \A k : Rest(k)' = Rest(k) /\ TailByte(k)' = TailByte(k)
  BY DEF Number, Rest, RestOf, TailByte
<1> QED BY <1>1 DEF NoFrame, AtStart, AtByte, AtTail, Part

LEMMA CompleteNext ==
  ASSUME NEW n \in Nat, NEW m \in Nat, n <= m, Grows(n, spoilt, frames, spoilt', frames'),
         NEW g, NEW a, NEW b, NEW c, Queue(g, a, b, c, n, spoilt, frames),
         given' = g, Taken' = a, Ready' = b, Closing' = c
  PROVE  Complete(m)'
<1>1. Queue(g, a, b, c, m, spoilt', frames')
  BY QueueKept
<1> QED BY <1>1, Zenon DEF Complete

\* The peer sends nothing meanwhile.
LEMMA LineKeeps ==
  ASSUME SlipInv, UNCHANGED <<line, frames>>,
         \A n \in 0..Number : Complete(n) => Complete(n)',
         Quiet => Quiet',
         \A k, s : (AtByte(k) \/ AtTail(k)) /\ Receives(k, s) => Receives(k, s)'
  PROVE  LineInv'
<1>1. /\ Number' = Number /\ (NoFrame <=> NoFrame') /\ (AtStart <=> AtStart')
      /\ \A k : (AtByte(k) <=> AtByte(k)') /\ (AtTail(k) <=> AtTail(k)')
  BY LineStays
<1>2. PICK n \in Nat : n = Number
  BY InvFacts
<1>3. CASE NoFrame /\ Complete(n) /\ Quiet
  <2>1. Complete(n)'
    BY <1>2, <1>3
  <2>2. Complete(Number)'
    BY <1>1, <1>2, <2>1, Zenon DEF Complete
  <2> QED BY <1>1, <1>3, <2>2 DEF LineInv
<1>4. ASSUME n > 0, Complete(n - 1) PROVE Complete(Number - 1)'
  <2>1. PICK m : m = n - 1
    OBVIOUS
  <2>2. m \in 0..Number
    BY <1>2, <1>4, <2>1
  <2>3. Complete(m)'
    BY <1>4, <2>1, <2>2
  <2> QED BY <1>1, <1>2, <2>1, <2>3 DEF Complete
<1>5. CASE AtStart /\ Complete(n - 1) /\ Quiet
  <2>1. Complete(Number - 1)'
    BY <1>2, <1>4, <1>5 DEF AtStart
  <2> QED BY <1>1, <1>5, <2>1 DEF LineInv
<1>6. CASE /\ n > 0 /\ Complete(n - 1)
           /\ \E k \in 0..Len(frames[n]) :
                \/ AtByte(k) /\ Receives(k, "OK")
                \/ AtTail(k) /\ Receives(k, "ESC")
  <2>1. Complete(Number - 1)'
    BY <1>4, <1>6
  <2>2. PICK k \in 0..Len(frames[n]) : \/ AtByte(k) /\ Receives(k, "OK")
                                       \/ AtTail(k) /\ Receives(k, "ESC")
    BY <1>6
  <2>3. (AtByte(k)' /\ Receives(k, "OK")') \/ (AtTail(k)' /\ Receives(k, "ESC")')
    BY <1>1, <2>2, Zenon
  <2>4. k \in 0..Len(frames'[Number']) /\ Number' > 0
    BY <1>1, <1>2, <1>6
  <2> QED BY <2>1, <2>3, <2>4, Zenon DEF LineInv
<1>7. LineInv
  BY InvFacts
<1>8. \/ NoFrame /\ Complete(n) /\ Quiet
      \/ AtStart /\ Complete(n - 1) /\ Quiet
      \/ /\ n > 0 /\ Complete(n - 1)
         /\ \E k \in 0..Len(frames[n]) :
              \/ AtByte(k) /\ Receives(k, "OK")
              \/ AtTail(k) /\ Receives(k, "ESC")
  BY <1>2, <1>7, Zenon DEF LineInv
<1> QED BY <1>3, <1>5, <1>6, <1>8, Zenon

LEMMA ComingFacts ==
  ASSUME SlipInv, NEW k, AtTail(k) \/ (AtByte(k) /\ k < Len(frames[Number]))
  PROVE  Number \in Coming
<1>1. frames \in Seq(Frame)
  BY InvFacts
<1>2. CASE AtTail(k)
  <2>1. line # <<>> /\ Head(line) = Sends("tail", k + 1)
    BY <1>1, <1>2, TailSteps
  <2> QED BY <2>1 DEF Coming, Sends
<1>3. CASE AtByte(k) /\ k < Len(frames[Number])
  <2>1. line # <<>> /\ (Head(line) = Sends("plain", k + 1) \/ Head(line) = Sends("ESC", k + 1))
    BY <1>1, <1>3, ByteSteps
  <2> QED BY <2>1 DEF Coming, Sends
<1> QED BY <1>2, <1>3

\* The ring is emptied.
LEMMA EmptiedKeeps ==
  ASSUME SlipInv, UNCHANGED aside, pc \in {"start", "answer"}, pc' = "idle", UNCHANGED given,
         rxbuf_init, RingOK', Ready' = <<>>, Behind' = <<>>
  PROVE  LineInv'
<1>1. UNCHANGED <<line, frames>> /\ state' = "OK" /\ spoilt' = spoilt \cup From(begin, end) \cup Coming
  BY DEF aside, rxbuf_init
<1>2. Number' = Number /\ \A k : Part(k)' = Part(k)
  BY <1>1, LineStays
<1>3. ASSUME NEW n \in 0..Number, Complete(n) PROVE Complete(n)'
  <2>1. Grows(n, spoilt, frames, spoilt', frames')
    BY <1>1 DEF Grows
  <2>2. Queue(given, <<>>, <<>>, <<>>, n, spoilt, frames)
    BY <1>3, QueueMoves DEF Complete
  <2>3. Taken' = <<>> /\ Closing' = <<>>
    BY <1>1 DEF Taken, Closing, Closed
  <2>4. n \in Nat /\ n <= n
    BY InvFacts
  <2> QED BY <2>1, <2>2, <2>3, <2>4, CompleteNext
<1>4. Quiet'
  BY <1>1 DEF Quiet, Of
<1>5. ASSUME NEW k, NEW s, AtByte(k) \/ AtTail(k), Receives(k, s) PROVE Receives(k, s)'
  <2>1. Number \in spoilt'
    <3>1. CASE AtTail(k) \/ (AtByte(k) /\ k < Len(frames[Number]))
      BY <1>1, <3>1, ComingFacts
    <3>2. CASE AtByte(k) /\ ~(k < Len(frames[Number]))
      <4>1. frames \in Seq(Frame) /\ Number > 0 /\ k \in 0..Len(frames[Number])
        BY <3>2, InvFacts DEF AtByte
      <4>2. Len(frames[Number]) \in Nat \ {0}
        BY <4>1, FrameFacts
      <4>3. k > 0 /\ k # 0
        BY <3>2, <4>1, <4>2
      <4>4. CASE Number \notin spoilt
        <5>1. pc = "answer"
          <6>1. pc = "start" => state = "TWOPACKETS"
            BY InvFacts DEF PlaceInv
          <6> QED BY <1>5, <4>3, <4>4, <6>1 DEF Receives, Closed
        <5>2. \E i \in DOMAIN Behind : Behind[i].frame = Number
          BY <1>5, <4>3, <4>4, <5>1 DEF Receives, Closed
        <5>3. RingOK
          BY InvFacts
        <5> QED BY <1>1, <5>2, <5>3, FromRing
      <4> QED BY <1>1, <4>4
    <3> QED BY <1>5, <3>1, <3>2
  <2> QED BY <1>1, <1>2, <2>1 DEF Receives, Of
<1> QED BY <1>1, <1>3, <1>4, <1>5, LineKeeps

LEMMA StartKeeps ==
  ASSUME SlipInv, Start, burst' = 0
  PROVE  SlipInv'
<1>1. /\ pc = "start" /\ pc' = "idle" /\ UNCHANGED <<aside, rxbuf, needspoll, copied, given>>
      /\ rxbuf_init
  BY DEF Start
<1>2. /\ begin' = 0 /\ end' = 0 /\ pkt_end' = 0 /\ state' = "OK"
  BY <1>1 DEF rxbuf_init
<1>3. rxbuf \in [Index -> Byte]
  BY InvFacts DEF TypeOK
<1>4. RingOK' /\ Ready' = <<>> /\ Behind' = <<>>
  BY <1>1, <1>2, <1>3, RingInit
<1>5. LineInv'
  BY <1>1, <1>4, EmptiedKeeps
<1>6. TypeOK'
  <2>1. TypeOK
    BY InvFacts
  <2> QED BY <1>1, <1>2, <1>4, <2>1, SizeAssumption DEF TypeOK, RingOK, State
<1>7. PlaceInv'
  BY <1>1 DEF PlaceInv
<1> QED BY <1>1, <1>4, <1>5, <1>6, <1>7 DEF SlipInv, aside

LEMMA AnswerKeeps ==
  ASSUME SlipInv, Answer, burst' = 0
  PROVE  SlipInv'
<1>1. /\ pc = "answer" /\ pc' = "idle" /\ UNCHANGED <<aside, needspoll, copied, given>>
      /\ rxbuf_init /\ rxbuf' = [rxbuf EXCEPT ![begin] = Nothing]
  BY DEF Answer
<1>2. /\ begin' = 0 /\ end' = 0 /\ pkt_end' = 0 /\ state' = "OK"
  BY <1>1 DEF rxbuf_init
<1>3. rxbuf' \in [Index -> Byte]
  <2>1. rxbuf \in [Index -> Byte] /\ begin \in Index
    BY InvFacts DEF TypeOK
  <2>2. Nothing \in Byte
    BY SizeAssumption DEF Nothing, Byte, Data
  <2> QED BY <1>1, <2>1, <2>2
<1>4. RingOK' /\ Ready' = <<>> /\ Behind' = <<>>
  BY <1>2, <1>3, RingInit
<1>5. LineInv'
  BY <1>1, <1>4, EmptiedKeeps
<1>6. TypeOK'
  <2>1. TypeOK
    BY InvFacts
  <2> QED BY <1>1, <1>2, <1>4, <2>1, SizeAssumption DEF TypeOK, RingOK, State
<1>7. PlaceInv'
  BY <1>1 DEF PlaceInv
<1> QED BY <1>1, <1>4, <1>5, <1>6, <1>7 DEF SlipInv, aside

\* The ring stays as it is, and what is taken.
LEMMA RingRests ==
  ASSUME SlipInv, UNCHANGED <<aside, ring, spoilt, given>>, Taken' = Taken,
         pc # "answer", pc' # "answer"
  PROVE  LineInv' /\ RingOK' /\ Ready' = Ready /\ Behind' = Behind
<1>1. UNCHANGED <<line, frames, rxbuf, begin, end, pkt_end, state, spoilt, given>>
  BY DEF aside, ring
<1>2. RingOK' /\ Ready' = Ready /\ Behind' = Behind
  BY <1>1, InvFacts, RingSame
<1>3. Number' = Number /\ \A k : Part(k)' = Part(k)
  BY <1>1, LineStays
<1>4. (Closed' <=> Closed) /\ Closing' = Closing
  BY <1>1, <1>2 DEF Closing, Closed
<1>5. ASSUME NEW n \in 0..Number, Complete(n) PROVE Complete(n)'
  BY <1>1, <1>2, <1>4, <1>5, Zenon DEF Complete
<1>6. Quiet => Quiet'
  BY <1>1, <1>2 DEF Quiet
<1>7. ASSUME NEW k, NEW s, AtByte(k) \/ AtTail(k), Receives(k, s) PROVE Receives(k, s)'
  BY <1>1, <1>2, <1>3, <1>4, <1>7 DEF Receives
<1> QED BY <1>1, <1>2, <1>5, <1>6, <1>7, LineKeeps

LEMMA PollKeeps ==
  ASSUME SlipInv, Poll, burst' = 0
  PROVE  SlipInv'
<1>1. /\ pc = "idle" /\ pc' = "client" /\ needspoll' = FALSE
      /\ UNCHANGED <<aside, ring, copied, spoilt, given>>
  BY DEF Poll
<1>2. UNCHANGED <<aside, ring, spoilt, given>> /\ Taken' = Taken
  BY <1>1 DEF Taken
<1>3. LineInv' /\ RingOK' /\ Ready' = Ready /\ Behind' = Behind
  BY <1>1, <1>2, RingRests
<1>4. TypeOK'
  <2>1. needspoll' \in BOOLEAN
    BY <1>1
  <2>2. 0 \in 0..Burst /\ TypeOK
    BY SizeAssumption, InvFacts
  <2>3. UNCHANGED <<rxbuf, begin, end, pkt_end, state, copied>> /\ burst' = 0 /\ pc' = "client"
    BY <1>1 DEF ring
  <2> QED BY <2>1, <2>2, <2>3 DEF TypeOK
<1>5. PlaceInv'
  BY <1>1 DEF PlaceInv
<1> QED BY <1>1, <1>3, <1>4, <1>5 DEF SlipInv, aside

LEMMA TestClientKeeps ==
  ASSUME SlipInv, TestClient, burst' = 0
  PROVE  SlipInv'
<1>1. /\ pc = "client" /\ pc' \in {"disconnect", "packet"}
      /\ UNCHANGED <<aside, ring, needspoll, copied, spoilt, given>>
  BY DEF TestClient
<1>2. UNCHANGED <<aside, ring, spoilt, given>> /\ Taken' = Taken
  BY <1>1 DEF Taken
<1>3. LineInv' /\ RingOK' /\ Ready' = Ready /\ Behind' = Behind
  BY <1>1, <1>2, RingRests
<1>4. TypeOK'
  BY <1>1, InvFacts, SizeAssumption DEF TypeOK, ring
<1>5. PlaceInv'
  BY <1>1 DEF PlaceInv
<1> QED BY <1>1, <1>3, <1>4, <1>5 DEF SlipInv, aside

LEMMA TestPacketKeeps ==
  ASSUME SlipInv, TestPacket, burst' = 0
  PROVE  SlipInv'
<1>1. /\ pc = "packet" /\ pc' = (IF begin # pkt_end THEN "copy" ELSE "idle") /\ copied' = <<>>
      /\ UNCHANGED <<aside, ring, needspoll, spoilt, given>>
  BY DEF TestPacket
<1>2. UNCHANGED <<aside, ring, spoilt, given>> /\ Taken' = Taken
  BY <1>1 DEF Taken
<1>3. LineInv' /\ RingOK' /\ Ready' = Ready /\ Behind' = Behind
  BY <1>1, <1>2, RingRests
<1>4. TypeOK'
  <2>1. <<>> \in Seq(Byte) /\ Len(<<>>) = 0 /\ 0 <= BufLen
    BY SizeAssumption
  <2> QED BY <1>1, <2>1, InvFacts, SizeAssumption DEF TypeOK, ring
<1>5. PlaceInv'
  <2>1. pc' = "copy" => Ready # <<>>
    BY <1>1, InvFacts, RingFacts
  <2>2. SubSeq(Ready, 1, 0) = <<>> /\ Len(<<>>) = 0 /\ 0 <= Len(Ready)
    BY InvFacts, SubSeqEmpty
  <2> QED BY <1>1, <1>3, <2>1, <2>2 DEF PlaceInv
<1> QED BY <1>1, <1>3, <1>4, <1>5 DEF SlipInv, aside

LEMMA CopyKeeps ==
  ASSUME SlipInv, Copy, burst' = 0
  PROVE  SlipInv'
<1> DEFINE n == Len(copied)
<1>1. /\ pc = "copy" /\ UNCHANGED <<aside, ring, needspoll, spoilt, given>>
      /\ IF PacketLen > BufLen \/ n = PacketLen
         THEN pc' = "advance" /\ UNCHANGED copied
         ELSE /\ copied' = Append(copied, rxbuf[(begin + n) % RX_BUFSIZE])
              /\ UNCHANGED pc
  BY DEF Copy
<1>2. UNCHANGED <<aside, ring, spoilt, given>> /\ Taken' = Taken /\ pc' \in {"copy", "advance"}
  BY <1>1 DEF Taken
<1>3. LineInv' /\ RingOK' /\ Ready' = Ready /\ Behind' = Behind
  BY <1>1, <1>2, RingRests
<1>4. /\ Ready # <<>> /\ n <= Len(Ready) /\ copied = SubSeq(Ready, 1, n)
      /\ Len(Ready) > BufLen => copied = <<>>
      /\ copied \in Seq(Byte) /\ n <= BufLen /\ Ready \in Seq(Byte) /\ PacketLen = Len(Ready)
  BY <1>1, InvFacts, RingFacts DEF PlaceInv, TypeOK
<1>5. n \in Nat /\ Len(Ready) \in Nat
  BY <1>4
<1>6. CASE PacketLen > BufLen \/ n = PacketLen
  <2>1. copied' = IF Len(Ready) > BufLen THEN <<>> ELSE Ready
    <3>1. CASE Len(Ready) > BufLen
      BY <1>1, <1>4, <1>6, <3>1
    <3>2. CASE ~(Len(Ready) > BufLen)
      <4>1. n = Len(Ready)
        BY <1>4, <1>6, <3>2
      <4>2. SubSeq(Ready, 1, Len(Ready)) = Ready
        BY <1>4, SubSeqFull
      <4> QED BY <1>1, <1>4, <1>6, <3>2, <4>1, <4>2
    <3> QED BY <3>1, <3>2
  <2>2. TypeOK'
    BY <1>1, <1>6, InvFacts, SizeAssumption DEF TypeOK, ring
  <2>3. PlaceInv'
    BY <1>1, <1>3, <1>4, <1>6, <2>1 DEF PlaceInv
  <2> QED BY <1>1, <1>3, <2>2, <2>3 DEF SlipInv, aside
<1>7. CASE ~(PacketLen > BufLen \/ n = PacketLen)
  <2>1. n < Len(Ready) /\ ~(Len(Ready) > BufLen) /\ n < BufLen
    BY <1>4, <1>5, <1>7, SizeAssumption
  <2>2. n \in 0..(Len(Ready) - 1) /\ n + 1 \in 1..Len(Ready)
    BY <1>5, <2>1
  <2>3. rxbuf[(begin + n) % RX_BUFSIZE] = Ready[n + 1]
    BY <2>2, InvFacts, RingFacts
  <2>4. copied' = Append(copied, Ready[n + 1]) /\ pc' = "copy"
    BY <1>1, <1>7, <2>3
  <2>5. Ready[n + 1] \in Byte
    BY <1>4, <2>2, ElementOfSeq
  <2> DEFINE t == SubSeq(Ready, 1, n + 1)
  <2>6. /\ t \in Seq(Byte) /\ Len(t) = n + 1 /\ \A i \in 1..(n + 1) : t[i] = Ready[i]
    BY <1>4, <1>5, <2>2
  <2>7. Len(SubSeq(Ready, 1, n)) = n /\ \A i \in 1..n : SubSeq(Ready, 1, n)[i] = Ready[i]
    BY <1>4, <1>5, <2>2
  <2>8. \A i \in 1..n : copied[i] = Ready[i]
    BY <1>4, <2>7
  <2>9. copied' \in Seq(Byte) /\ Len(copied') = n + 1
    BY <1>4, <2>4, <2>5
  <2>10. \A i \in 1..(n + 1) : copied'[i] = Ready[i]
    BY <1>4, <1>5, <2>4, <2>5, <2>8
  <2>11. copied' = t
    <3> HIDE DEF t
    <3>1. \A i \in 1..Len(copied') : copied'[i] = t[i]
      BY <2>6, <2>9, <2>10
    <3> QED BY <2>6, <2>9, <3>1, SeqEqual
  <2>12. TypeOK'
    BY <1>1, <2>1, <2>4, <2>9, <1>5, InvFacts, SizeAssumption DEF TypeOK, ring
  <2>13. PlaceInv'
    BY <1>3, <1>4, <1>5, <2>1, <2>4, <2>9, <2>11 DEF PlaceInv
  <2> QED BY <1>1, <1>3, <2>12, <2>13 DEF SlipInv, aside
<1> QED BY <1>6, <1>7

LEMMA PollAgainKeeps ==
  ASSUME SlipInv, PollAgain, burst' = 0
  PROVE  SlipInv'
<1>1. /\ pc = "again" /\ pc' = "give" /\ needspoll' = TRUE
      /\ UNCHANGED <<aside, ring, copied, spoilt, given>>
  BY DEF PollAgain
<1>2. UNCHANGED <<aside, ring, spoilt, given>> /\ Taken' = Taken
  BY <1>1 DEF Taken
<1>3. LineInv' /\ RingOK' /\ Ready' = Ready /\ Behind' = Behind
  BY <1>1, <1>2, RingRests
<1>4. TypeOK'
  BY <1>1, InvFacts, SizeAssumption DEF TypeOK, ring
<1>5. PlaceInv'
  BY <1>1 DEF PlaceInv
<1> QED BY <1>1, <1>3, <1>4, <1>5 DEF SlipInv, aside

LEMMA DisconnectKeeps ==
  ASSUME SlipInv, Disconnect, burst' = 0
  PROVE  SlipInv'
<1>1. /\ pc = "disconnect" /\ pc' = "answer" /\ state' = "TWOPACKETS"
      /\ UNCHANGED <<aside, rxbuf, begin, end, pkt_end, needspoll, copied, spoilt, given>>
  BY DEF Disconnect
<1>2. UNCHANGED <<line, frames>>
  BY <1>1 DEF aside
<1>3. RingOK' /\ Ready' = Ready /\ Behind' = Behind
  BY <1>1, InvFacts, RingSame
<1>4. Number' = Number /\ \A k : Part(k)' = Part(k)
  BY <1>2, LineStays
<1>5. ASSUME NEW n \in 0..Number, Complete(n) PROVE Complete(n)'
  <2>1. Queue(given, Taken, Ready, <<>>, n, spoilt, frames)
    BY <1>5, QueueMoves DEF Complete
  <2>2. Taken' = Taken /\ Closing' = <<>>
    BY <1>1 DEF Taken, Closing, Closed
  <2> QED BY <1>1, <1>2, <1>3, <2>1, <2>2, Zenon DEF Complete
<1>6. Quiet'
  BY <1>1 DEF Quiet
<1>7. ASSUME NEW k, NEW s, AtByte(k) \/ AtTail(k), Receives(k, s) PROVE Receives(k, s)'
  <2>1. ~Closed' /\ pc' = "answer" /\ state' \notin {"OK", "ESC", "RUBBISH"}
    BY <1>1 DEF Closed
  <2>2. ASSUME Number \notin spoilt, k > 0
        PROVE  \E i \in DOMAIN Behind : Behind[i].frame = Number
    <3>1. k \in Nat
      BY <1>7, InvFacts, FrameFacts DEF AtByte, AtTail
    <3>2. Behind = Part(k)
      BY <1>1, <1>7, <2>2, <3>1 DEF Receives
    <3>3. 1 \in DOMAIN Part(k) /\ Part(k)[1].frame = Number
      BY <2>2, <3>1 DEF Part
    <3> QED BY <3>2, <3>3
  <2> QED BY <1>1, <1>3, <1>4, <2>1, <2>2 DEF Receives
<1>8. LineInv'
  BY <1>2, <1>5, <1>6, <1>7, LineKeeps
<1>9. TypeOK'
  BY <1>1, InvFacts, SizeAssumption DEF TypeOK, State
<1>10. PlaceInv'
  BY <1>1 DEF PlaceInv
<1> QED BY <1>1, <1>3, <1>8, <1>9, <1>10, InvFacts DEF SlipInv, aside

LEMMA AdvanceKeeps ==
  ASSUME SlipInv, Advance, burst' = 0
  PROVE  SlipInv'
<1>1. /\ pc = "advance" /\ pc' = "second" /\ begin' = pkt_end
      /\ spoilt' = IF PacketLen > BufLen THEN spoilt \cup From(begin, pkt_end) ELSE spoilt
      /\ UNCHANGED <<aside, rxbuf, end, pkt_end, state, needspoll, copied, given>>
  BY DEF Advance, BeginOfNext
<1>2. UNCHANGED <<line, frames>> /\ spoilt \subseteq spoilt'
  BY <1>1 DEF aside
<1>3. RingOK' /\ Ready' = <<>> /\ Behind' = Behind
  BY <1>1, InvFacts, RingTake
<1>4. Number' = Number /\ \A k : Part(k)' = Part(k)
  BY <1>2, LineStays
<1>5. copied = <<>> \/ copied = Ready
  BY <1>1, InvFacts DEF PlaceInv
<1>6. ASSUME NEW n \in 0..Number, Complete(n) PROVE Complete(n)'
  <2>1. Grows(n, spoilt, frames, spoilt', frames')
    BY <1>2 DEF Grows
  <2>2. Queue(given, <<>>, Ready, Closing, n, spoilt, frames)
    BY <1>1, <1>6 DEF Complete, Taken
  <2>3. Queue(given, copied, <<>>, Closing, n, spoilt, frames)
    BY <1>5, <2>2, QueueMoves
  <2>4. Taken' = copied /\ Closing' = Closing
    BY <1>1, <1>3 DEF Taken, Closing, Closed
  <2>5. n \in Nat /\ n <= n
    BY InvFacts
  <2> QED BY <1>1, <1>3, <2>1, <2>3, <2>4, <2>5, CompleteNext
<1>7. Quiet => Quiet'
  BY <1>1, <1>3 DEF Quiet
<1>8. ASSUME NEW k, NEW s, AtByte(k) \/ AtTail(k), Receives(k, s) PROVE Receives(k, s)'
  <2>1. Closed' <=> Closed
    BY <1>1 DEF Closed
  <2> QED BY <1>1, <1>2, <1>3, <1>4, <1>8, <2>1 DEF Receives
<1>9. LineInv'
  BY <1>2, <1>6, <1>7, <1>8, LineKeeps
<1>10. TypeOK'
  BY <1>1, InvFacts, SizeAssumption DEF TypeOK, State
<1>11. PlaceInv'
  BY <1>1, <1>3 DEF PlaceInv
<1> QED BY <1>1, <1>3, <1>9, <1>10, <1>11, InvFacts DEF SlipInv, aside

LEMMA SecondKeeps ==
  ASSUME SlipInv, Second, burst' = 0
  PROVE  SlipInv'
<1>1. /\ pc = "second" /\ IF state = "TWOPACKETS"
                          THEN pkt_end' = end /\ state' = "OK" /\ pc' = "again"
                          ELSE UNCHANGED <<pkt_end, state>> /\ pc' = "give"
      /\ UNCHANGED <<aside, rxbuf, begin, end, needspoll, copied, spoilt, given>>
  BY DEF Second
<1>2. UNCHANGED <<line, frames>> /\ Taken' = Taken /\ ~Closed'
  BY <1>1 DEF aside, Taken, Closed
<1>3. Number' = Number /\ \A k : Part(k)' = Part(k)
  BY <1>2, LineStays
<1>4. TypeOK'
  BY <1>1, InvFacts, SizeAssumption DEF TypeOK, State
<1>5. PlaceInv'
  BY <1>1 DEF PlaceInv
<1>6. CASE state = "TWOPACKETS"
  <2>1. Ready = <<>> /\ begin = pkt_end
    BY <1>1, <1>6, InvFacts, RingFacts DEF PlaceInv
  <2>2. RingOK' /\ Ready' = Behind /\ Behind' = <<>>
    BY <1>1, <1>6, <2>1, InvFacts, RingFirst
  <2>3. Closed /\ Closing = Behind /\ Closing' = <<>>
    BY <1>1, <1>2, <1>6 DEF Closed, Closing
  <2>4. ASSUME NEW n \in 0..Number, Complete(n) PROVE Complete(n)'
    <3>1. Queue(given, Taken, Behind, <<>>, n, spoilt, frames)
      BY <2>1, <2>3, <2>4, QueueMoves DEF Complete
    <3> QED BY <1>1, <1>2, <2>2, <2>3, <3>1, Zenon DEF Complete
  <2>5. Quiet'
    BY <1>1, <1>6, <2>2 DEF Quiet, Of
  <2>6. ASSUME NEW k, NEW s, AtByte(k) \/ AtTail(k), Receives(k, s) PROVE Receives(k, s)'
    <3>1. Part(0) = <<>>
      BY DEF Part
    <3>2. Number \notin spoilt => k = 0 /\ s = "OK"
      BY <2>3, <2>6 DEF Receives
    <3>3. Number \notin spoilt => state' = s /\ Behind' = Part(k)'
      BY <1>1, <1>3, <1>6, <2>2, <3>1, <3>2
    <3>4. pc' # "answer" /\ Of(Behind', Number') /\ Behind' = <<>>
      BY <1>1, <1>6, <2>2 DEF Of
    <3> QED BY <1>1, <1>2, <1>3, <3>3, <3>4 DEF Receives
  <2>7. LineInv'
    BY <1>2, <2>4, <2>5, <2>6, LineKeeps
  <2> QED BY <1>1, <1>4, <1>5, <2>2, <2>7, InvFacts DEF SlipInv, aside
<1>7. CASE state # "TWOPACKETS"
  <2>1. RingOK' /\ Ready' = Ready /\ Behind' = Behind
    BY <1>1, <1>7, InvFacts, RingSame
  <2>2. ~Closed /\ Closing = <<>> /\ Closing' = <<>> /\ state' = state
    BY <1>1, <1>2, <1>7 DEF Closed, Closing
  <2>3. ASSUME NEW n \in 0..Number, Complete(n) PROVE Complete(n)'
    BY <1>1, <1>2, <2>1, <2>2, <2>3, Zenon DEF Complete
  <2>4. Quiet => Quiet'
    BY <2>1, <2>2 DEF Quiet
  <2>5. ASSUME NEW k, NEW s, AtByte(k) \/ AtTail(k), Receives(k, s) PROVE Receives(k, s)'
    BY <1>1, <1>2, <1>3, <1>7, <2>1, <2>2, <2>5 DEF Receives
  <2>6. LineInv'
    BY <1>2, <2>3, <2>4, <2>5, LineKeeps
  <2> QED BY <1>1, <1>4, <1>5, <2>1, <2>6, InvFacts DEF SlipInv, aside
<1> QED BY <1>6, <1>7

LEMMA GiveKeeps ==
  ASSUME SlipInv, Give, burst' = 0
  PROVE  SlipInv'
<1>1. /\ pc = "give" /\ pc' = "idle" /\ copied' = <<>>
      /\ given' = (IF copied = <<>> THEN given ELSE Append(given, copied))
      /\ UNCHANGED <<aside, ring, needspoll, spoilt>>
  BY DEF Give
<1>2. UNCHANGED <<line, frames, rxbuf, begin, end, pkt_end, state, spoilt>>
  BY <1>1 DEF aside, ring
<1>3. RingOK' /\ Ready' = Ready /\ Behind' = Behind
  BY <1>2, InvFacts, RingSame
<1>4. Number' = Number /\ \A k : Part(k)' = Part(k)
  BY <1>2, LineStays
<1>5. Taken = copied /\ Taken' = <<>> /\ (Closed' <=> Closed) /\ Closing' = Closing
  BY <1>1, <1>2, <1>3 DEF Taken, Closed, Closing
<1>6. ASSUME NEW n \in 0..Number, Complete(n) PROVE Complete(n)'
  <2>1. Queue(given, copied, Ready, Closing, n, spoilt, frames)
    BY <1>5, <1>6 DEF Complete
  <2>2. Queue(given', <<>>, Ready, Closing, n, spoilt, frames)
    <3>1. CASE copied = <<>>
      BY <1>1, <2>1, <3>1
    <3>2. CASE copied # <<>>
      BY <1>1, <2>1, <3>2, InvFacts, QueueGives
    <3> QED BY <3>1, <3>2
  <2> QED BY <1>2, <1>3, <1>5, <2>2, Zenon DEF Complete
<1>7. Quiet => Quiet'
  BY <1>2, <1>3 DEF Quiet
<1>8. ASSUME NEW k, NEW s, AtByte(k) \/ AtTail(k), Receives(k, s) PROVE Receives(k, s)'
  BY <1>1, <1>2, <1>3, <1>4, <1>5, <1>8 DEF Receives
<1>9. LineInv'
  BY <1>2, <1>6, <1>7, <1>8, LineKeeps
<1>10. <<>> \in Seq(Byte) /\ Len(<<>>) = 0 /\ 0 <= BufLen
  BY SizeAssumption
<1>11. TypeOK'
  BY <1>1, <1>2, <1>10, InvFacts, SizeAssumption DEF TypeOK
<1>12. given' \in Seq(Seq(Byte))
  BY <1>1, InvFacts DEF TypeOK
<1>13. PlaceInv'
  BY <1>1 DEF PlaceInv
<1> QED BY <1>1, <1>3, <1>9, <1>11, <1>12, <1>13, InvFacts DEF SlipInv, aside

LEMMA ProcessKeeps ==
  ASSUME SlipInv, Process
  PROVE  SlipInv'
BY StartKeeps, PollKeeps, TestClientKeeps, DisconnectKeeps, AnswerKeeps, TestPacketKeeps,
   CopyKeeps, AdvanceKeeps, SecondKeeps, PollAgainKeeps, GiveKeeps DEF Process

--------------------------------------------------------------------------------
(* The steps of the peer.                                                       *)

\* The byte that comes next, what comes after it and what has been received.
ClientCase == Head(line) = Client /\ Tail(line) = <<>> /\ Complete(Number) /\ Quiet
BeginCase ==
  /\ Head(line) = Sends("END", 0) /\ Tail(line) = Rest(0) /\ Number > 0
  /\ Complete(Number - 1) /\ Quiet
EndCase ==
  /\ Head(line) = Sends("END", 0) /\ Tail(line) = <<>> /\ Number > 0
  /\ Complete(Number - 1) /\ Receives(Len(frames[Number]), "OK")
PlainCase(k) ==
  /\ Head(line) = Sends("plain", k + 1) /\ Tail(line) = Rest(k + 1)
  /\ frames[Number][k + 1] = "plain" /\ Receives(k, "OK")
EscCase(k) ==
  /\ Head(line) = Sends("ESC", k + 1) /\ Tail(line) = Cons(TailByte(k + 1), Rest(k + 1))
  /\ frames[Number][k + 1] = "special" /\ Receives(k, "OK")
TailCase(k) ==
  /\ Head(line) = Sends("tail", k + 1) /\ Tail(line) = Rest(k + 1)
  /\ frames[Number][k + 1] = "special" /\ Receives(k, "ESC")
ByteCase ==
  /\ Number > 0 /\ Complete(Number - 1)
  /\ \E k \in 0..(Len(frames[Number]) - 1) : PlainCase(k) \/ EscCase(k) \/ TailCase(k)

LEMMA LineCases ==
  ASSUME SlipInv
  PROVE  \/ line = <<>> /\ Complete(Number) /\ Quiet
         \/ line # <<>> /\ (ClientCase \/ BeginCase \/ EndCase \/ ByteCase)
<1>1. frames \in Seq(Frame) /\ LineInv
  BY InvFacts
<1>2. CASE NoFrame /\ Complete(Number) /\ Quiet
  <2>1. \A x : <<x>> # <<>> /\ Head(<<x>>) = x /\ Tail(<<x>>) = <<>>
    OBVIOUS
  <2> QED BY <1>2, <2>1, Zenon DEF NoFrame, ClientCase
<1>3. CASE AtStart /\ Complete(Number - 1) /\ Quiet
  BY <1>1, <1>3, StartSteps DEF BeginCase, AtStart
<1>4. ASSUME Number > 0, Complete(Number - 1), NEW k \in 0..Len(frames[Number]),
             AtByte(k), Receives(k, "OK")
      PROVE  line # <<>> /\ (EndCase \/ ByteCase)
  <2>1. Len(frames[Number]) \in Nat
    BY <1>1, <1>4, FrameFacts
  <2>2. CASE k = Len(frames[Number])
    BY <1>1, <1>4, <2>2, ByteSteps DEF EndCase
  <2>3. CASE k # Len(frames[Number])
    <3>1. k < Len(frames[Number]) /\ k \in 0..(Len(frames[Number]) - 1)
      BY <2>1, <2>3
    <3>2. line # <<>> /\ (PlainCase(k) \/ EscCase(k))
      BY <1>1, <1>4, <3>1, ByteSteps DEF PlainCase, EscCase
    <3> QED BY <1>4, <3>1, <3>2 DEF ByteCase
  <2> QED BY <2>2, <2>3
<1>5. ASSUME Number > 0, Complete(Number - 1), NEW k \in 0..Len(frames[Number]),
             AtTail(k), Receives(k, "ESC")
      PROVE  line # <<>> /\ ByteCase
  <2>1. line # <<>> /\ TailCase(k)
    BY <1>1, <1>5, TailSteps DEF TailCase
  <2>2. k \in 0..(Len(frames[Number]) - 1)
    BY <1>5 DEF AtTail
  <2> QED BY <1>5, <2>1, <2>2 DEF ByteCase
<1> QED BY <1>1, <1>2, <1>3, <1>4, <1>5, Zenon DEF LineInv

\* The line after a byte.
LEMMA AfterFrame ==
  ASSUME UNCHANGED frames, line' = <<>>, NEW n, n = Number, Complete(n)', Quiet'
  PROVE  LineInv'
BY DEF LineInv, NoFrame, Complete, Number

LEMMA AfterByte ==
  ASSUME SlipInv, UNCHANGED frames, Number > 0, NEW m, m = Number - 1, Complete(m)',
         NEW k \in 0..Len(frames[Number]), line' = Rest(k), Receives(k, "OK")'
  PROVE  LineInv'
<1>1. Number' = Number /\ Rest(k)' = Rest(k)
  BY DEF Number, Rest, RestOf
<1>2. AtByte(k)'
  BY <1>1 DEF AtByte
<1>3. Complete(Number - 1)'
  BY <1>1 DEF Complete
<1>4. Number' > 0 /\ k \in 0..Len(frames'[Number'])
  BY <1>1
<1> QED BY <1>2, <1>3, <1>4, Zenon DEF LineInv

LEMMA AfterEsc ==
  ASSUME SlipInv, UNCHANGED frames, Number > 0, NEW m, m = Number - 1, Complete(m)',
         NEW k \in 0..(Len(frames[Number]) - 1), frames[Number][k + 1] = "special",
         line' = Cons(TailByte(k + 1), Rest(k + 1)), Receives(k, "ESC")'
  PROVE  LineInv'
<1>1. Number' = Number /\ Rest(k + 1)' = Rest(k + 1) /\ TailByte(k + 1)' = TailByte(k + 1)
  BY DEF Number, Rest, RestOf, TailByte
<1>2. AtTail(k)'
  BY <1>1 DEF AtTail
<1>3. Complete(Number - 1)'
  BY <1>1 DEF Complete
<1>4. frames \in Seq(Frame)
  BY InvFacts
<1>5. Len(frames[Number]) \in Nat
  BY <1>4, FrameFacts
<1>6. Number' > 0 /\ k \in 0..Len(frames'[Number'])
  BY <1>1, <1>5
<1> QED BY <1>2, <1>3, <1>6, Zenon DEF LineInv

LEMMA SendFrameKeeps ==
  ASSUME SlipInv, SendFrame
  PROVE  SlipInv'
<1>1. PICK bytes \in Frame : /\ frames' = Append(frames, bytes)
                             /\ line' = slip_write(Len(frames) + 1, bytes)
  BY DEF SendFrame
<1>2. /\ line = <<>> /\ Len(frames) < MaxFrames
      /\ UNCHANGED <<ring, needspoll, pc, copied, burst, spoilt, given, lost, clients>>
  BY DEF SendFrame
<1>3. Complete(Number) /\ Quiet
  BY <1>2, LineCases
<1>4. frames \in Seq(Frame) /\ Number \in Nat /\ Len(frames) = Number
  BY InvFacts DEF Number
<1>5. /\ frames' \in Seq(Frame) /\ Number' = Number + 1 /\ frames'[Number + 1] = bytes
      /\ \A i \in 1..Number : frames'[i] = frames[i]
  BY <1>1, <1>4 DEF Number
<1>6. UNCHANGED <<rxbuf, begin, end, pkt_end, state>>
  BY <1>2 DEF ring
<1>7. RingOK' /\ Ready' = Ready /\ Behind' = Behind
  BY <1>6, InvFacts, RingSame
<1>8. AtStart'
  <2>1. bytes \in Seq({"plain", "special"})
    BY SizeAssumption
  <2>2. PICK f \in Nat : f = Number + 1
    BY <1>4
  <2>3. line' = End(f) \o RestOf(bytes, f, 0)
    BY <1>1, <1>4, <2>1, <2>2, WriteFacts
  <2>4. Rest(0)' = RestOf(bytes, f, 0)
    BY <1>5, <2>2 DEF Rest
  <2>5. Number' > 0 /\ Number' = f
    BY <1>4, <1>5, <2>2
  <2> QED BY <2>3, <2>4, <2>5 DEF AtStart
<1>9. Complete(Number - 1)'
  <2>1. PICK n \in Nat : n = Number
    BY <1>4
  <2>2. Grows(n, spoilt, frames, spoilt', frames')
    BY <1>2, <1>5, <2>1 DEF Grows
  <2>3. Queue(given, Taken, Ready, Closing, n, spoilt, frames)
    BY <1>3, <2>1, Zenon DEF Complete
  <2>4. Taken' = Taken /\ Closing' = Closing
    BY <1>2, <1>6, <1>7 DEF Taken, Closing, Closed
  <2>5. n <= n
    BY <2>1
  <2>6. Complete(n)'
    BY <1>2, <1>7, <2>2, <2>3, <2>4, <2>5, CompleteNext
  <2>7. Number' - 1 = n
    BY <1>5, <2>1
  <2> QED BY <2>6, <2>7, Zenon DEF Complete
<1>10. Quiet'
  BY <1>3, <1>6, <1>7 DEF Quiet
<1>11. LineInv'
  BY <1>8, <1>9, <1>10 DEF LineInv
<1>12. TypeOK'
  BY <1>2, <1>6, InvFacts DEF TypeOK
<1>13. PlaceInv'
  BY <1>2, <1>6, <1>7, InvFacts DEF PlaceInv
<1>14. Len(frames') <= MaxFrames
  BY <1>2, <1>4, <1>5, SizeAssumption DEF Number
<1> QED BY <1>2, <1>5, <1>7, <1>11, <1>12, <1>13, <1>14, InvFacts DEF SlipInv

\* Nothing of the ring or of the process changes.
LEMMA PlaceStays ==
  ASSUME SlipInv, UNCHANGED <<ring, needspoll, pc, copied, burst, given, frames>>
  PROVE  RingOK' /\ Ready' = Ready /\ Behind' = Behind /\ TypeOK' /\ PlaceInv'
         /\ Taken' = Taken /\ Closing' = Closing /\ (Closed' <=> Closed)
<1>1. UNCHANGED <<rxbuf, begin, end, pkt_end, state>>
  BY DEF ring
<1>2. RingOK' /\ Ready' = Ready /\ Behind' = Behind
  BY <1>1, InvFacts, RingSame
<1>3. TypeOK'
  BY <1>1, InvFacts DEF TypeOK
<1>4. PlaceInv'
  BY <1>1, <1>2, InvFacts DEF PlaceInv
<1>5. Taken' = Taken /\ Closing' = Closing /\ (Closed' <=> Closed)
  BY <1>1, <1>2 DEF Taken, Closing, Closed
<1> QED BY <1>2, <1>3, <1>4, <1>5

LEMMA SendClientKeeps ==
  ASSUME SlipInv, SendClient
  PROVE  SlipInv'
<1>1. /\ line = <<>> /\ clients' = clients + 1
      /\ line' = << [c |-> "CLIENT", frame |-> 0, at |-> 0] >>
      /\ UNCHANGED <<ring, needspoll, pc, copied, burst, frames, spoilt, given, lost>>
  BY DEF SendClient
<1>2. Complete(Number) /\ Quiet
  BY <1>1, LineCases
<1>3. RingOK' /\ Ready' = Ready /\ Behind' = Behind /\ TypeOK' /\ PlaceInv'
      /\ Taken' = Taken /\ Closing' = Closing
  BY <1>1, PlaceStays
<1>4. Number' = Number /\ NoFrame'
  BY <1>1 DEF Number, NoFrame, Client
<1>5. Complete(Number)'
  BY <1>1, <1>2, <1>3, <1>4, Zenon DEF Complete
<1>6. Quiet'
  BY <1>1, <1>2, <1>3 DEF Quiet, ring
<1>7. LineInv'
  BY <1>4, <1>5, <1>6 DEF LineInv
<1>8. clients' \in Nat
  BY <1>1 DEF SlipInv
<1> QED BY <1>1, <1>3, <1>7, <1>8 DEF SlipInv

\* What has been received of a frame of which a byte is lost.
LEMMA SpoiltReceives ==
  ASSUME Number' \in spoilt',
         state' \in {"OK", "ESC"} => Of(Behind', Number'),
         state' = "RUBBISH" => Behind' = <<>>
  PROVE  \A k, s : Receives(k, s)'
BY DEF Receives

LEMMA LoseByteKeeps ==
  ASSUME SlipInv, LoseByte
  PROVE  SlipInv'
<1>1. /\ line # <<>> /\ Head(line).c \in {"plain", "ESC", "tail"} /\ lost' = lost + 1
      /\ line' = Tail(line) /\ spoilt' = spoilt \cup {Head(line).frame}
      /\ UNCHANGED <<ring, needspoll, pc, copied, burst, frames, given, clients>>
  BY DEF LoseByte
<1>2. RingOK' /\ Ready' = Ready /\ Behind' = Behind /\ TypeOK' /\ PlaceInv'
      /\ Taken' = Taken /\ Closing' = Closing
  BY <1>1, PlaceStays
<1>3. ByteCase
  <2>1. ClientCase \/ BeginCase \/ EndCase \/ ByteCase
    BY <1>1, LineCases
  <2> QED BY <1>1, <2>1 DEF ClientCase, BeginCase, EndCase, Client, Sends
<1>4. PICK k \in 0..(Len(frames[Number]) - 1) : PlainCase(k) \/ EscCase(k) \/ TailCase(k)
  BY <1>3 DEF ByteCase
<1>5. Number > 0 /\ Number' = Number /\ Number \in spoilt' /\ state' = state
  BY <1>1, <1>3, <1>4 DEF ByteCase, PlainCase, EscCase, TailCase, Sends, Number, ring
<1>6. PICK m : m = Number - 1
  OBVIOUS
<1>7. Complete(m)'
  <2>1. m \in Nat /\ m <= m
    BY <1>5, <1>6, InvFacts
  <2>2. Grows(m, spoilt, frames, spoilt', frames')
    BY <1>1 DEF Grows
  <2>3. Queue(given, Taken, Ready, Closing, m, spoilt, frames)
    BY <1>3, <1>6 DEF Complete, ByteCase
  <2> QED BY <1>1, <1>2, <2>1, <2>2, <2>3, CompleteNext
<1>8. \A j, s : Receives(j, s)'
  <2>1. /\ state \in {"OK", "ESC"} => Of(Behind, Number)
        /\ state = "RUBBISH" => Behind = <<>>
    BY <1>4 DEF PlainCase, EscCase, TailCase, Receives
  <2> QED BY <1>2, <1>5, <2>1, SpoiltReceives
<1>9. k + 1 \in 0..Len(frames[Number])
  BY <1>5, InvFacts, FrameFacts
<1>10. LineInv'
  <2>1. CASE PlainCase(k) \/ TailCase(k)
    <3>1. PICK j : j = k + 1
      OBVIOUS
    <3>2. line' = Rest(j)
      BY <1>1, <2>1, <3>1 DEF PlainCase, TailCase
    <3> QED BY <1>1, <1>5, <1>6, <1>7, <1>8, <1>9, <3>1, <3>2, AfterByte
  <2>2. CASE EscCase(k)
    <3>1. line' = Cons(TailByte(k + 1), Rest(k + 1)) /\ frames[Number][k + 1] = "special"
      BY <1>1, <2>2 DEF EscCase
    <3> QED BY <1>1, <1>5, <1>6, <1>7, <1>8, <3>1, AfterEsc
  <2> QED BY <1>4, <2>1, <2>2
<1>11. lost' \in Nat
  BY <1>1 DEF SlipInv
<1> QED BY <1>1, <1>2, <1>10, <1>11 DEF SlipInv

--------------------------------------------------------------------------------
(* The receive interrupt.                                                       *)

\* What it does with a byte.
Ignores(b) ==
  /\ state \in {"RUBBISH", "TWOPACKETS"}
  /\ state' = (IF state = "RUBBISH" /\ b.c = "END" THEN "OK" ELSE state)
  /\ spoilt' = (IF b.c = "END" THEN spoilt ELSE spoilt \cup {b.frame})
  /\ Ready' = Ready /\ Behind' = Behind
Spoils(b) ==
  /\ state \in {"OK", "ESC"} /\ state' = "RUBBISH" /\ spoilt' = spoilt \cup {b.frame}
  /\ Ready' = Ready /\ Behind' = <<>>
Adds(b) ==
  /\ \/ state = "OK" /\ b.c \notin {"ESC", "END"} /\ Behind' = Append(Behind, b)
     \/ state = "ESC" /\ b.c = "tail" /\ Behind' = Append(Behind, [b EXCEPT !.c = "special"])
  /\ state' = "OK" /\ spoilt' = spoilt
  /\ Ready' = Ready
Escapes(b) ==
  /\ state = "OK" /\ b.c = "ESC" /\ state' = "ESC" /\ spoilt' = spoilt
  /\ Ready' = Ready /\ Behind' = Behind
EndsNothing(b) ==
  /\ state = "OK" /\ b.c = "END" /\ state' = "OK" /\ spoilt' = spoilt
  /\ Behind = <<>> /\ Behind' = <<>> /\ Ready' = Ready
EndsFirst(b) ==
  /\ state = "OK" /\ b.c = "END" /\ state' = "OK" /\ spoilt' = spoilt
  /\ Behind # <<>> /\ Ready = <<>> /\ Ready' = Behind /\ Behind' = <<>>
EndsSecond(b) ==
  /\ state = "OK" /\ b.c = "END" /\ state' = "TWOPACKETS" /\ spoilt' = spoilt
  /\ Behind # <<>> /\ Ready # <<>> /\ Ready' = Ready /\ Behind' = Behind

Input(b) ==
  \/ Ignores(b) \/ Spoils(b) \/ Adds(b) \/ Escapes(b)
  \/ EndsNothing(b) \/ EndsFirst(b) \/ EndsSecond(b)

OnLine == [c : {"plain", "ESC", "tail", "END", "CLIENT"}, frame : 0..MaxFrames, at : Nat]

LEMMA RubbishInput ==
  ASSUME SlipInv, NEW b, state \in {"OK", "ESC"}, Rubbish(b.frame)
  PROVE  Input(b) /\ RingOK' /\ state' \in State /\ needspoll' \in BOOLEAN
<1>1. /\ state' = "RUBBISH" /\ end' = pkt_end /\ spoilt' = spoilt \cup {b.frame}
      /\ UNCHANGED <<rxbuf, begin, pkt_end, needspoll>>
  BY DEF Rubbish
<1>2. RingOK' /\ Ready' = Ready /\ Behind' = <<>>
  BY <1>1, InvFacts, RingDrop
<1>3. Spoils(b)
  BY <1>1, <1>2 DEF Spoils
<1>4. needspoll' \in BOOLEAN
  BY <1>1, InvFacts DEF TypeOK
<1> QED BY <1>1, <1>2, <1>3, <1>4 DEF Input, State

LEMMA AddInput ==
  ASSUME SlipInv, NEW b \in OnLine, NEW c, AddChar(b, c),
         \/ state = "OK" /\ b.c \notin {"ESC", "END"} /\ c = b.c
         \/ state = "ESC" /\ b.c = "tail" /\ c = "special"
  PROVE  Input(b) /\ RingOK' /\ state' \in State /\ needspoll' \in BOOLEAN
<1>1. CASE NextIndex(end) = begin
  BY <1>1, RubbishInput DEF AddChar
<1>2. CASE NextIndex(end) # begin
  <2> DEFINE x == [b EXCEPT !.c = c]
  <2>1. /\ rxbuf' = [rxbuf EXCEPT ![end] = x] /\ end' = NextIndex(end) /\ state' = "OK"
        /\ needspoll' = (needspoll \/ (c = "CLIENT" /\ rxbuf'[begin].c = "CLIENT"))
        /\ UNCHANGED <<begin, pkt_end, spoilt>>
    BY <1>2 DEF AddChar
  <2>2. x \in Byte
    BY DEF OnLine, Byte, Data
  <2>3. state = "OK" => x = b
    BY DEF OnLine
  <2> HIDE DEF x
  <2>4. RingOK' /\ Ready' = Ready /\ Behind' = Append(Behind, x)
    BY <1>2, <2>1, <2>2, InvFacts, RingAdd
  <2>5. Adds(b)
    <3>1. state = "ESC" => x = [b EXCEPT !.c = "special"]
      BY DEF x
    <3> QED BY <2>1, <2>3, <2>4, <3>1, Zenon DEF Adds
  <2>6. needspoll' \in BOOLEAN
    BY <2>1, Zenon
  <2> QED BY <2>1, <2>4, <2>5, <2>6 DEF Input, State
<1> QED BY <1>1, <1>2

LEMMA EndInput ==
  ASSUME SlipInv, NEW b \in OnLine, state = "OK", b.c = "END", PacketEnds
  PROVE  Input(b) /\ RingOK' /\ state' \in State /\ needspoll' \in BOOLEAN
<1>1. /\ IF end = pkt_end
         THEN UNCHANGED <<pkt_end, state, needspoll>>
         ELSE FrameEnds /\ needspoll' = TRUE
      /\ UNCHANGED <<rxbuf, begin, end, spoilt>>
  BY DEF PacketEnds
<1>2. /\ Ready = <<>> <=> begin = pkt_end
      /\ Behind = <<>> <=> end = pkt_end
      /\ RingOK /\ needspoll \in BOOLEAN
  BY InvFacts, RingFacts DEF TypeOK
<1>3. CASE end = pkt_end
  <2>1. RingOK' /\ Ready' = Ready /\ Behind' = Behind
    BY <1>1, <1>2, <1>3, RingSame
  <2>2. EndsNothing(b)
    BY <1>1, <1>2, <1>3, <2>1 DEF EndsNothing
  <2> QED BY <1>1, <1>2, <1>3, <2>1, <2>2 DEF Input, State
<1>4. CASE end # pkt_end /\ begin = pkt_end
  <2>1. pkt_end' = end /\ state' = state /\ needspoll' = TRUE
    BY <1>1, <1>4 DEF FrameEnds
  <2>2. RingOK' /\ Ready' = Behind /\ Behind' = <<>>
    BY <1>1, <1>2, <1>4, <2>1, RingFirst
  <2>3. EndsFirst(b)
    BY <1>1, <1>2, <1>4, <2>1, <2>2 DEF EndsFirst
  <2> QED BY <2>1, <2>2, <2>3 DEF Input, State
<1>5. CASE end # pkt_end /\ begin # pkt_end
  <2>1. pkt_end' = pkt_end /\ state' = "TWOPACKETS" /\ needspoll' = TRUE
    BY <1>1, <1>5 DEF FrameEnds
  <2>2. RingOK' /\ Ready' = Ready /\ Behind' = Behind
    BY <1>1, <1>2, <2>1, RingSame
  <2>3. EndsSecond(b)
    BY <1>1, <1>2, <1>5, <2>1, <2>2 DEF EndsSecond
  <2> QED BY <2>1, <2>2, <2>3 DEF Input, State
<1> QED BY <1>3, <1>4, <1>5

LEMMA InputIs ==
  ASSUME SlipInv, NEW b \in OnLine, slip_input_byte(b)
  PROVE  Input(b) /\ RingOK' /\ state' \in State /\ needspoll' \in BOOLEAN
<1>1. state \in State
  BY InvFacts DEF TypeOK
<1>2. CASE state \in {"RUBBISH", "TWOPACKETS"}
  <2>1. /\ spoilt' = (IF b.c = "END" THEN spoilt ELSE spoilt \cup {b.frame})
        /\ state' = (IF state = "RUBBISH" /\ b.c = "END" THEN "OK" ELSE state)
        /\ UNCHANGED <<rxbuf, begin, end, pkt_end, needspoll>>
    BY <1>2 DEF slip_input_byte, ThrownAway
  <2>2. RingOK' /\ Ready' = Ready /\ Behind' = Behind
    BY <2>1, InvFacts, RingSame
  <2>3. Ignores(b)
    BY <1>2, <2>1, <2>2 DEF Ignores
  <2>4. needspoll' \in BOOLEAN
    BY <2>1, InvFacts DEF TypeOK
  <2> QED BY <1>2, <2>1, <2>2, <2>3, <2>4 DEF Input, State
<1>3. CASE state = "ESC"
  <2>1. IF b.c = "tail" THEN AddChar(b, "special") ELSE Rubbish(b.frame)
    BY <1>3 DEF slip_input_byte
  <2>2. CASE b.c = "tail"
    BY <1>3, <2>1, <2>2, AddInput
  <2>3. CASE b.c # "tail"
    BY <1>3, <2>1, <2>3, RubbishInput
  <2> QED BY <2>2, <2>3
<1>4. CASE state = "OK"
  <2>1. CASE b.c = "ESC"
    <3>1. state' = "ESC" /\ UNCHANGED <<rxbuf, begin, end, pkt_end, needspoll, spoilt>>
      BY <1>4, <2>1 DEF slip_input_byte
    <3>2. RingOK' /\ Ready' = Ready /\ Behind' = Behind
      BY <3>1, InvFacts, RingSame
    <3>3. Escapes(b)
      BY <1>4, <2>1, <3>1, <3>2 DEF Escapes
    <3>4. needspoll' \in BOOLEAN
      BY <3>1, InvFacts DEF TypeOK
    <3> QED BY <3>1, <3>2, <3>3, <3>4 DEF Input, State
  <2>2. CASE b.c = "END"
    <3>1. PacketEnds
      BY <1>4, <2>2 DEF slip_input_byte
    <3> QED BY <1>4, <2>2, <3>1, EndInput
  <2>3. CASE b.c \notin {"ESC", "END"}
    <3>1. AddChar(b, b.c)
      BY <1>4, <2>3 DEF slip_input_byte
    <3> QED BY <1>4, <2>3, <3>1, AddInput
  <2> QED BY <2>1, <2>2, <2>3
<1> QED BY <1>1, <1>2, <1>3, <1>4 DEF State

\* The interrupt only grows what is spoilt, and does nothing to the process.
LEMMA InputPlace ==
  ASSUME SlipInv, ShortBurst, NEW b, Input(b), UNCHANGED <<pc, copied>>,
         Waiting \/ burst < Burst, burst' = (IF Waiting THEN 0 ELSE burst + 1)
  PROVE  PlaceInv'
<1>1. PlaceInv /\ burst \in 0..Burst
  BY InvFacts DEF TypeOK
<1>2. pc' \in {"copy", "advance"} => Ready' = Ready /\ Ready # <<>>
  BY <1>1 DEF PlaceInv, Input, Ignores, Spoils, Adds, Escapes, EndsNothing, EndsFirst, EndsSecond
<1>3. pc' = "second" =>
        \/ Ready' = <<>>
        \/ state' # "TWOPACKETS" /\ burst' >= 1 /\ (burst' = 1 => Behind' = <<>>)
  <2>1. SUFFICES ASSUME pc = "second"
                 PROVE  \/ Ready' = <<>>
                        \/ state' # "TWOPACKETS" /\ burst' >= 1 /\ (burst' = 1 => Behind' = <<>>)
    OBVIOUS
  <2>2. burst' = burst + 1 /\ burst \in {0, 1}
    BY <1>1, <2>1, SizeAssumption DEF Waiting, ShortBurst
  <2>3. CASE Ready = <<>>
    BY <2>2, <2>3 DEF Input, Ignores, Spoils, Adds, Escapes, EndsNothing, EndsFirst, EndsSecond
  <2>4. CASE Ready # <<>>
    <3>1. state # "TWOPACKETS" /\ burst = 1 /\ Behind = <<>>
      BY <1>1, <2>1, <2>2, <2>4 DEF PlaceInv
    <3>2. state' # "TWOPACKETS"
      BY <3>1 DEF Input, Ignores, Spoils, Adds, Escapes, EndsNothing, EndsFirst, EndsSecond
    <3> QED BY <2>2, <3>1, <3>2
  <2> QED BY <2>3, <2>4
<1>4. pc' = "start" => Ready' = <<>> /\ Behind' = <<>> /\ state' = "TWOPACKETS"
  BY <1>1 DEF PlaceInv, Input, Ignores, Spoils, Adds, Escapes, EndsNothing, EndsFirst, EndsSecond
<1>5. pc' = "answer" => state' = "TWOPACKETS"
  BY <1>1 DEF PlaceInv, Input, Ignores, Spoils, Adds, Escapes, EndsNothing, EndsFirst, EndsSecond
<1> QED BY <1>1, <1>2, <1>3, <1>4, <1>5 DEF PlaceInv

\* The packets that are complete stay so, and the one that ends is one more.
Unmoved == UNCHANGED <<pc, copied, frames, given>>

LEMMA InputComplete ==
  ASSUME SlipInv, Unmoved, NEW b, Input(b), ~EndsFirst(b), ~EndsSecond(b),
         NEW n \in Nat, NEW m \in Nat, n <= m, Complete(n)
  PROVE  Complete(m)'
<1>1. Grows(n, spoilt, frames, spoilt', frames')
  BY DEF Grows, Unmoved, Input, Ignores, Spoils, Adds, Escapes, EndsNothing
<1>2. Taken' = Taken /\ Ready' = Ready /\ Closing' = Closing /\ given' = given
  BY DEF Unmoved, Taken, Closing, Closed, Input, Ignores, Spoils, Adds, Escapes, EndsNothing
<1>3. Queue(given, Taken, Ready, Closing, n, spoilt, frames)
  BY DEF Complete
<1> QED BY <1>1, <1>2, <1>3, CompleteNext

LEMMA EndComplete ==
  ASSUME SlipInv, Unmoved, NEW b, EndsFirst(b) \/ EndsSecond(b),
         NEW n \in Nat, NEW m \in Nat, n <= m, Complete(n),
         Packet(Behind, m, spoilt, frames), \A i \in DOMAIN Behind : Behind[i].frame = 0 \/ Behind[i].frame > n
  PROVE  Complete(m)'
<1>1. state = "OK" /\ spoilt' = spoilt /\ UNCHANGED <<pc, frames, given>> /\ Taken' = Taken
  BY DEF EndsFirst, EndsSecond, Unmoved, Taken
<1>2. Closing = <<>> /\ pc # "answer"
  BY <1>1, InvFacts DEF Closing, Closed, PlaceInv
<1>3. Queue(given, Taken, Ready, <<>>, n, spoilt, frames)
  BY <1>2 DEF Complete
<1>4. /\ Queue(given, Taken, Ready, Behind, m, spoilt, frames)
      /\ Ready = <<>> => Queue(given, Taken, Behind, <<>>, m, spoilt, frames)
  BY <1>3, QueueEnds
<1>5. CASE EndsFirst(b)
  <2>1. Ready' = Behind /\ Closing' = <<>> /\ Ready = <<>>
    BY <1>5 DEF EndsFirst, Closing, Closed
  <2> QED BY <1>1, <1>4, <2>1, Zenon DEF Complete
<1>6. CASE EndsSecond(b)
  <2>1. Ready' = Ready /\ Closing' = Behind
    BY <1>1, <1>2, <1>6 DEF EndsSecond, Closing, Closed
  <2> QED BY <1>1, <1>4, <2>1, Zenon DEF Complete
<1> QED BY <1>5, <1>6

LEMMA AppendOf ==
  ASSUME NEW s \in Seq(Byte), NEW x, NEW f, Of(s, f), x.frame = f
  PROVE  Of(Append(s, x), f)
<1> DEFINE t == Append(s, x)
<1>1. \A i \in DOMAIN t : t[i] = x \/ (i \in DOMAIN s /\ t[i] = s[i])
  OBVIOUS
<1> HIDE DEF t
<1>2. Of(t, f)
  BY <1>1 DEF Of
<1> QED BY <1>2 DEF t

LEMMA PartGrows ==
  ASSUME NEW k \in Nat, NEW c, frames[Number][k + 1] = c
  PROVE  Append(Part(k), Sends(c, k + 1)) = Part(k + 1)
<1> DEFINE p(j) == [i \in 1..j |-> [c |-> frames[Number][i], frame |-> Number, at |-> i]]
           T == {Sends(frames[Number][i], i) : i \in Nat}
           x == Sends(c, k + 1)
<1>1. ASSUME NEW j \in Nat
      PROVE  p(j) \in Seq(T) /\ Len(p(j)) = j /\ \A i \in 1..j : p(j)[i] = Sends(frames[Number][i], i)
  BY DEF Sends
<1>2. x = Sends(frames[Number][k + 1], k + 1) /\ x \in T
  OBVIOUS
<1> DEFINE a == p(k)
           b == p(k + 1)
<1>3. /\ a \in Seq(T) /\ Len(a) = k /\ \A i \in 1..k : a[i] = Sends(frames[Number][i], i)
      /\ b \in Seq(T) /\ Len(b) = k + 1
      /\ \A i \in 1..(k + 1) : b[i] = Sends(frames[Number][i], i)
  BY <1>1
<1> HIDE DEF T, x, a, b
<1>4. Append(a, x) \in Seq(T) /\ Len(Append(a, x)) = k + 1
  BY <1>2, <1>3
<1>5. \A i \in 1..(k + 1) : Append(a, x)[i] = b[i]
  BY <1>2, <1>3
<1>6. Append(a, x) = b
  BY <1>3, <1>4, <1>5, SeqEqual
<1> QED BY <1>6, Zenon DEF Part, a, b, x

\* Bytes of requests, or of one frame, that was not spoilt, are a packet.
LEMMA BehindPacket ==
  ASSUME SlipInv
  PROVE  /\ Of(Behind, 0) => \A n \in Nat : Packet(Behind, n, spoilt, frames)
         /\ Number > 0 /\ Of(Behind, Number)
              /\ (Number \notin spoilt => Behind = Part(Len(frames[Number])))
              => Packet(Behind, Number, spoilt, frames)
<1>1. Behind \in Seq(Byte) /\ Number \in Nat /\ frames \in Seq(Frame)
  BY InvFacts
<1>2. Behind # <<>> => 1 \in DOMAIN Behind
  BY <1>1
<1>3. ASSUME Of(Behind, 0), NEW n \in Nat PROVE Packet(Behind, n, spoilt, frames)
  <2>1. OneFrame(Behind)
    BY <1>3 DEF Of, OneFrame
  <2>2. UpTo(Behind, n)
    BY <1>3 DEF Of, UpTo
  <2>3. Intact(Behind, spoilt, frames)
    BY <1>2, <1>3 DEF Of, Intact
  <2> QED BY <1>1, <2>1, <2>2, <2>3 DEF Packet
<1>4. ASSUME Number > 0, Of(Behind, Number),
             Number \notin spoilt => Behind = Part(Len(frames[Number]))
      PROVE  Packet(Behind, Number, spoilt, frames)
  <2>1. OneFrame(Behind)
    BY <1>4 DEF Of, OneFrame
  <2>2. UpTo(Behind, Number)
    BY <1>1, <1>4 DEF Of, UpTo
  <2>3. Part(Len(frames[Number])) = SentOf(frames, Number)
    <3>1. DOMAIN frames[Number] = 1..Len(frames[Number])
      BY <1>1, <1>4, FrameFacts
    <3> QED BY <3>1 DEF Part, SentOf
  <2>4. Intact(Behind, spoilt, frames)
    BY <1>2, <1>4, <2>3 DEF Of, Intact
  <2> QED BY <1>1, <2>1, <2>2, <2>4 DEF Packet
<1> QED BY <1>3, <1>4

LEMMA ClientInput ==
  ASSUME SlipInv, Unmoved, ClientCase, line' = Tail(line), NEW b, b = Head(line), Input(b)
  PROVE  LineInv'
<1>1. b.c = "CLIENT" /\ b.frame = 0 /\ line' = <<>> /\ Complete(Number) /\ Quiet
  BY DEF ClientCase, Client
<1>2. PICK n \in Nat : n = Number
  BY InvFacts
<1>3. Complete(n)'
  <2>1. ~EndsFirst(b) /\ ~EndsSecond(b)
    BY <1>1 DEF EndsFirst, EndsSecond
  <2> QED BY <1>1, <1>2, <2>1, InputComplete
<1>4. Quiet'
  <2>1. CASE Adds(b)
    <3>1. state = "OK" /\ Behind' = Append(Behind, b) /\ state' = "OK"
      BY <1>1, <2>1 DEF Adds
    <3>2. Of(Behind, 0)
      BY <1>1, <3>1 DEF Quiet
    <3>3. Of(Behind', 0)
      BY <1>1, <3>1, <3>2, InvFacts, AppendOf
    <3> QED BY <3>1, <3>3 DEF Quiet
  <2>2. CASE ~Adds(b)
    BY <1>1, <2>2 DEF Quiet, Input, Ignores, Spoils, Escapes, EndsNothing, EndsFirst, EndsSecond
  <2> QED BY <2>1, <2>2
<1> QED BY <1>1, <1>2, <1>3, <1>4, AfterFrame DEF Unmoved

LEMMA NothingReceived ==
  ASSUME (state' = "OK" /\ Behind' = <<>>) \/ state' = "TWOPACKETS"
  PROVE  Receives(0, "OK")'
<1>1. Part(0)' = <<>> /\ \A f : Of(<<>>, f)
  BY DEF Part, Of
<1>2. CASE state' = "OK" /\ Behind' = <<>>
  BY <1>1, <1>2 DEF Receives, Closed
<1>3. CASE state' = "TWOPACKETS"
  BY <1>3 DEF Receives, Closed
<1> QED BY <1>2, <1>3

LEMMA BeginInput ==
  ASSUME SlipInv, Unmoved, BeginCase, line' = Tail(line), NEW b, b = Head(line), Input(b)
  PROVE  LineInv'
<1>1. /\ b.c = "END" /\ b.frame = Number /\ line' = Rest(0) /\ Number > 0
      /\ Complete(Number - 1) /\ Quiet
  BY DEF BeginCase, Sends
<1>2. PICK m \in Nat : m = Number - 1
  BY <1>1, InvFacts
<1>3. Complete(m)'
  <2>1. CASE EndsFirst(b) \/ EndsSecond(b)
    <3>1. Of(Behind, 0)
      BY <1>1, <2>1 DEF Quiet, EndsFirst, EndsSecond
    <3>2. Packet(Behind, m, spoilt, frames)
      BY <3>1, BehindPacket
    <3>3. \A i \in DOMAIN Behind : Behind[i].frame = 0 \/ Behind[i].frame > m
      BY <3>1 DEF Of
    <3> QED BY <1>1, <1>2, <2>1, <3>2, <3>3, EndComplete
  <2>2. CASE ~EndsFirst(b) /\ ~EndsSecond(b)
    BY <1>1, <1>2, <2>2, InputComplete
  <2> QED BY <2>1, <2>2
<1>4. Receives(0, "OK")'
  <2>1. CASE Spoils(b)
    <3>1. Number' \in spoilt' /\ state' = "RUBBISH" /\ Behind' = <<>>
      BY <1>1, <2>1 DEF Spoils, Unmoved, Number
    <3> QED BY <3>1, SpoiltReceives
  <2>2. CASE ~Spoils(b)
    <3>1. (state' = "OK" /\ Behind' = <<>>) \/ state' = "TWOPACKETS"
      BY <1>1, <2>2 DEF Quiet, Input, Ignores, Adds, Escapes, EndsNothing, EndsFirst, EndsSecond
    <3> QED BY <3>1, NothingReceived
  <2> QED BY <2>1, <2>2
<1>5. 0 \in 0..Len(frames[Number])
  BY <1>1, InvFacts, FrameFacts
<1> QED BY <1>1, <1>2, <1>3, <1>4, <1>5, AfterByte DEF Unmoved

LEMMA EndCaseInput ==
  ASSUME SlipInv, Unmoved, EndCase, line' = Tail(line), NEW b, b = Head(line), Input(b)
  PROVE  LineInv'
<1> DEFINE l == Len(frames[Number])
<1>1. /\ b.c = "END" /\ b.frame = Number /\ line' = <<>> /\ Number > 0
      /\ Complete(Number - 1) /\ Receives(l, "OK")
  BY DEF EndCase, Sends
<1>2. PICK n \in Nat : n = Number
  BY InvFacts
<1>3. PICK m \in Nat : m = n - 1
  BY <1>1, <1>2
<1>4. m <= n /\ \A x \in Nat : x = n => x > m
  BY <1>3
<1>5. Complete(m)
  BY <1>1, <1>2, <1>3
<1>6. Complete(n)'
  <2>1. CASE EndsFirst(b) \/ EndsSecond(b)
    <3>1. state = "OK" /\ pc # "answer"
      BY <2>1, InvFacts DEF EndsFirst, EndsSecond, PlaceInv
    <3>2. Of(Behind, Number) /\ (Number \notin spoilt => Behind = Part(l))
      BY <1>1, <3>1 DEF Receives, Closed
    <3>3. Packet(Behind, n, spoilt, frames)
      BY <1>1, <1>2, <3>2, BehindPacket
    <3>4. \A i \in DOMAIN Behind : Behind[i].frame = 0 \/ Behind[i].frame > m
      BY <1>2, <1>4, <3>2 DEF Of
    <3> QED BY <1>4, <1>5, <2>1, <3>3, <3>4, EndComplete
  <2>2. CASE ~EndsFirst(b) /\ ~EndsSecond(b)
    BY <1>4, <1>5, <2>2, InputComplete
  <2> QED BY <2>1, <2>2
<1>7. Quiet'
  <2>1. \A f : Of(<<>>, f)
    BY DEF Of
  <2> QED BY <1>1, <2>1 DEF Quiet, Receives, Input, Ignores, Spoils, Adds, Escapes,
                           EndsNothing, EndsFirst, EndsSecond
<1> QED BY <1>1, <1>2, <1>6, <1>7, AfterFrame DEF Unmoved

\* A byte that is not looked at, or thrown away with the others, spoils its frame.
LEMMA SpoilingInput ==
  ASSUME SlipInv, Unmoved, NEW b, b.frame = Number, b.c # "END", Ignores(b) \/ Spoils(b),
         state = "RUBBISH" => Behind = <<>>
  PROVE  \A k, s : Receives(k, s)'
<1>1. Number' \in spoilt' /\ state' \in {"RUBBISH", "TWOPACKETS"}
      /\ (state' = "RUBBISH" => Behind' = <<>>)
  BY DEF Ignores, Spoils, Unmoved, Number
<1> QED BY <1>1, SpoiltReceives

LEMMA ByteInput ==
  ASSUME SlipInv, Unmoved, ByteCase, line' = Tail(line), NEW b, b = Head(line), Input(b)
  PROVE  LineInv'
<1>1. PICK k \in 0..(Len(frames[Number]) - 1) : PlainCase(k) \/ EscCase(k) \/ TailCase(k)
  BY DEF ByteCase
<1>2. Number > 0 /\ Complete(Number - 1) /\ b.frame = Number /\ b.c \in {"plain", "ESC", "tail"}
  BY <1>1 DEF ByteCase, PlainCase, EscCase, TailCase, Sends
<1>3. PICK m \in Nat : m = Number - 1
  BY <1>2, InvFacts
<1>4. Complete(m)'
  <2>1. ~EndsFirst(b) /\ ~EndsSecond(b) /\ m <= m
    BY <1>2 DEF EndsFirst, EndsSecond
  <2> QED BY <1>2, <1>3, <2>1, InputComplete
<1>5. PICK j : j = k + 1
  OBVIOUS
<1>6. k \in Nat /\ j \in 0..Len(frames[Number])
  BY <1>2, <1>5, InvFacts, FrameFacts, SMTT(30)
<1>7. Number' = Number /\ \A i : Part(i)' = Part(i)
  BY DEF Unmoved, Number, Part
<1>8. /\ state \in {"OK", "ESC"} => Of(Behind, Number)
      /\ state = "RUBBISH" => Behind = <<>>
  BY <1>1 DEF PlainCase, EscCase, TailCase, Receives
<1>9. pc = "answer" => state = "TWOPACKETS"
  BY InvFacts DEF PlaceInv
<1>10. UNCHANGED <<frames, pc>>
  BY DEF Unmoved
<1>11. CASE Ignores(b) \/ Spoils(b)
  <2>1. \A i, s : Receives(i, s)'
    BY <1>2, <1>8, <1>11, SpoilingInput
  <2>2. CASE PlainCase(k) \/ TailCase(k)
    <3>1. line' = Rest(j)
      BY <1>5, <2>2 DEF PlainCase, TailCase
    <3> QED BY <1>2, <1>3, <1>4, <1>6, <1>10, <2>1, <3>1, AfterByte
  <2>3. CASE EscCase(k)
    <3>1. line' = Cons(TailByte(k + 1), Rest(k + 1)) /\ frames[Number][k + 1] = "special"
      BY <2>3 DEF EscCase
    <3> QED BY <1>2, <1>3, <1>4, <1>10, <2>1, <3>1, AfterEsc
  <2> QED BY <1>1, <2>2, <2>3
<1>12. CASE PlainCase(k) /\ ~(Ignores(b) \/ Spoils(b))
  <2>1. b = Sends("plain", k + 1) /\ frames[Number][k + 1] = "plain" /\ Receives(k, "OK")
        /\ line' = Rest(j)
    BY <1>5, <1>12 DEF PlainCase
  <2>2. state = "OK" /\ Behind' = Append(Behind, b) /\ state' = "OK" /\ spoilt' = spoilt
    BY <1>12, <2>1 DEF Sends, Input, Adds, Escapes, EndsNothing, EndsFirst, EndsSecond
  <2>3. Of(Behind', Number)
    BY <1>2, <1>8, <2>2, InvFacts, AppendOf
  <2>4. Number \notin spoilt => Behind' = Part(j)
    <3>1. Number \notin spoilt => Behind = Part(k)
      BY <1>9, <2>1, <2>2 DEF Receives, Closed
    <3>2. Append(Part(k), b) = Part(k + 1)
      BY <1>6, <2>1, PartGrows
    <3> QED BY <1>5, <2>2, <3>1, <3>2, Zenon
  <2>5. Receives(j, "OK")'
    BY <1>7, <1>9, <1>10, <2>2, <2>3, <2>4 DEF Receives, Closed
  <2> QED BY <1>2, <1>3, <1>4, <1>6, <1>10, <2>1, <2>5, AfterByte
<1>13. CASE EscCase(k) /\ ~(Ignores(b) \/ Spoils(b))
  <2>1. /\ b = Sends("ESC", k + 1) /\ frames[Number][k + 1] = "special" /\ Receives(k, "OK")
        /\ line' = Cons(TailByte(k + 1), Rest(k + 1))
    BY <1>13 DEF EscCase
  <2>2. state = "OK" /\ Behind' = Behind /\ state' = "ESC" /\ spoilt' = spoilt
    BY <1>13, <2>1 DEF Sends, Input, Adds, Escapes, EndsNothing, EndsFirst, EndsSecond
  <2>3. Number \notin spoilt => Behind = Part(k)
    BY <1>9, <2>1, <2>2 DEF Receives, Closed
  <2>4. Receives(k, "ESC")'
    BY <1>7, <1>8, <1>9, <1>10, <2>2, <2>3 DEF Receives, Closed
  <2> QED BY <1>2, <1>3, <1>4, <1>10, <2>1, <2>4, AfterEsc
<1>14. CASE TailCase(k) /\ ~(Ignores(b) \/ Spoils(b))
  <2>1. b = Sends("tail", k + 1) /\ frames[Number][k + 1] = "special" /\ Receives(k, "ESC")
        /\ line' = Rest(j)
    BY <1>5, <1>14 DEF TailCase
  <2>2. Adds(b)
    BY <1>14, <2>1 DEF Sends, Input, Escapes, EndsNothing, EndsFirst, EndsSecond
  <2>3. state' = "OK" /\ spoilt' = spoilt
    BY <2>2 DEF Adds
  <2>4. CASE state = "OK"
    <3>1. Behind' = Append(Behind, b)
      BY <2>2, <2>4 DEF Adds
    <3>2. Of(Behind', Number)
      BY <1>2, <1>8, <2>4, <3>1, InvFacts, AppendOf
    <3>3. Number \in spoilt
      BY <1>9, <2>1, <2>4 DEF Receives, Closed
    <3>4. Receives(j, "OK")'
      BY <1>7, <2>3, <3>2, <3>3, SpoiltReceives
    <3> QED BY <1>2, <1>3, <1>4, <1>6, <1>10, <2>1, <3>4, AfterByte
  <2>5. CASE state = "ESC"
    <3>1. [b EXCEPT !.c = "special"] = Sends("special", k + 1)
      BY <2>1 DEF Sends
    <3>2. Behind' = Append(Behind, Sends("special", k + 1))
      BY <2>2, <2>5, <3>1 DEF Adds
    <3>3. Of(Behind', Number)
      <4>1. Sends("special", k + 1).frame = Number
        BY DEF Sends
      <4> QED BY <1>8, <2>5, <3>2, <4>1, InvFacts, AppendOf
    <3>4. Number \notin spoilt => Behind' = Part(j)
      <4>1. Number \notin spoilt => Behind = Part(k)
        BY <1>9, <2>1, <2>5 DEF Receives, Closed
      <4>2. Append(Part(k), Sends("special", k + 1)) = Part(k + 1)
        BY <1>6, <2>1, PartGrows
      <4> QED BY <1>5, <3>2, <4>1, <4>2, Zenon
    <3>5. Receives(j, "OK")'
      <4>1. pc # "answer"
        BY <1>9, <2>5
      <4> QED BY <1>7, <1>10, <2>3, <3>3, <3>4, <4>1 DEF Receives, Closed
    <3> QED BY <1>2, <1>3, <1>4, <1>6, <1>10, <2>1, <3>5, AfterByte
  <2> QED BY <2>2, <2>4, <2>5 DEF Adds
<1> QED BY <1>1, <1>11, <1>12, <1>13, <1>14

LEMMA InterruptKeeps ==
  ASSUME SlipInv, ShortBurst, Interrupt
  PROVE  SlipInv'
<1>1. PICK b : b = Head(line)
  OBVIOUS
<1>2. /\ line # <<>> /\ (Waiting \/ burst < Burst) /\ line' = Tail(line)
      /\ burst' = (IF Waiting THEN 0 ELSE burst + 1) /\ slip_input_byte(b)
      /\ UNCHANGED <<pc, copied, frames, given, lost, clients>>
  BY <1>1 DEF Interrupt
<1>3. ClientCase \/ BeginCase \/ EndCase \/ ByteCase
  BY <1>2, LineCases
<1>4. b \in OnLine
  <2>1. CASE ClientCase
    BY <1>1, <2>1, SizeAssumption DEF ClientCase, Client, OnLine
  <2>2. CASE BeginCase \/ EndCase
    BY <1>1, <2>2, InvFacts DEF BeginCase, EndCase, Sends, OnLine
  <2>3. CASE ByteCase
    <3>1. PICK k \in 0..(Len(frames[Number]) - 1) : PlainCase(k) \/ EscCase(k) \/ TailCase(k)
      BY <2>3 DEF ByteCase
    <3>2. k + 1 \in Nat
      OBVIOUS
    <3> QED BY <1>1, <3>1, <3>2, InvFacts DEF PlainCase, EscCase, TailCase, Sends, OnLine
  <2> QED BY <1>3, <2>1, <2>2, <2>3
<1>5. Input(b) /\ RingOK' /\ state' \in State /\ needspoll' \in BOOLEAN
  BY <1>2, <1>4, InputIs
<1>6. Unmoved
  BY <1>2 DEF Unmoved
<1>7. LineInv'
  BY <1>1, <1>2, <1>3, <1>5, <1>6, ClientInput, BeginInput, EndCaseInput, ByteInput
<1>8. PlaceInv'
  BY <1>2, <1>5, InputPlace
<1>9. TypeOK'
  <2>1. burst' \in 0..Burst
    BY <1>2, InvFacts, SizeAssumption DEF TypeOK
  <2> QED BY <1>2, <1>5, <2>1, InvFacts DEF TypeOK, RingOK
<1> QED BY <1>2, <1>5, <1>7, <1>8, <1>9 DEF SlipInv

--------------------------------------------------------------------------------
(* The theorems.                                                                *)

LEMMA InitHolds == Init => SlipInv
<1> SUFFICES ASSUME Init PROVE SlipInv
  OBVIOUS
<1>1. 0 \in Index /\ Nothing \in Byte /\ 0 <= BufLen /\ 0 \in 0..Burst
  BY SizeAssumption DEF Index, Nothing, Byte, Data
<1>2. rxbuf \in [Index -> Byte]
  BY <1>1 DEF Init
<1>3. Dist(0, 0) = 0 /\ Span(rxbuf, 0, 0) = <<>>
  BY <1>1, <1>2, Circle, SpanTyped
<1>4. RingOK /\ Ready = <<>> /\ Behind = <<>>
  BY <1>1, <1>2, <1>3 DEF Init, RingOK, Ready, Behind
<1>5. /\ <<>> \in Seq(Byte) /\ Len(<<>>) = 0 /\ <<>> \in Seq(Seq(Byte)) /\ <<>> \in Seq(Frame)
      /\ DOMAIN <<>> = {}
  OBVIOUS
<1>6. TypeOK
  BY <1>1, <1>2, <1>5 DEF Init, TypeOK, State
<1>7. Complete(Number)
  <2>1. given = <<>> /\ Taken = <<>> /\ Closing = <<>>
    BY <1>4 DEF Init, Taken, Closing
  <2>2. /\ \A n : Packet(<<>>, n, spoilt, frames)
        /\ Before(<<>>, <<>>)
    BY EmptyPacket
  <2> QED BY <1>4, <1>5, <2>1, <2>2 DEF Complete, Queue
<1>8. LineInv
  BY <1>7 DEF Init, LineInv, NoFrame, Quiet
<1>9. PlaceInv
  BY <1>4 DEF Init, PlaceInv
<1> QED BY <1>4, <1>5, <1>6, <1>8, <1>9, SizeAssumption DEF SlipInv, Init

LEMMA NextHolds ==
  ASSUME ShortBurst
  PROVE  SlipInv /\ [Next]_vars => SlipInv'
<1> SUFFICES ASSUME SlipInv, [Next]_vars PROVE SlipInv'
  OBVIOUS
<1>1. CASE Next
  BY <1>1, SendFrameKeeps, SendClientKeeps, LoseByteKeeps, InterruptKeeps, ProcessKeeps DEF Next
<1>2. CASE UNCHANGED vars
  <2>1. UNCHANGED <<ring, needspoll, pc, copied, line, burst, frames, spoilt, given, lost, clients>>
    BY <1>2 DEF vars
  <2>2. RingOK' /\ Ready' = Ready /\ Behind' = Behind /\ TypeOK' /\ PlaceInv'
        /\ Taken' = Taken /\ Closing' = Closing /\ (Closed' <=> Closed)
    BY <2>1, PlaceStays
  <2>3. Number' = Number /\ \A k : Part(k)' = Part(k)
    BY <2>1, LineStays
  <2>4. ASSUME NEW n \in 0..Number, Complete(n) PROVE Complete(n)'
    BY <2>1, <2>2, <2>4, Zenon DEF Complete
  <2>5. Quiet => Quiet'
    BY <2>1, <2>2 DEF Quiet, ring
  <2>6. ASSUME NEW k, NEW s, AtByte(k) \/ AtTail(k), Receives(k, s) PROVE Receives(k, s)'
    BY <2>1, <2>2, <2>3, <2>6 DEF Receives, ring
  <2>7. LineInv'
    BY <2>1, <2>4, <2>5, <2>6, LineKeeps
  <2> QED BY <2>1, <2>2, <2>7 DEF SlipInv
<1> QED BY <1>1, <1>2

LEMMA InvariantHolds ==
  ASSUME ShortBurst
  PROVE  Spec => []SlipInv
<1>1. SlipInv /\ [Next]_vars => SlipInv'
  BY NextHolds
<1> QED BY <1>1, InitHolds, PTL DEF Spec

\* slip.c keeps the indices of rxbuf in the buffer, and copies no more into uip_buf than it
\* takes.
THEOREM SlipTypes ==
  ASSUME ShortBurst
  PROVE  Spec => []TypeOK
<1>1. SlipInv => TypeOK
  BY DEF SlipInv
<1> QED BY <1>1, InvariantHolds, PTL

\* A packet that slip_process passes to uIP has bytes of one frame only, and it is the frame
\* as it was sent if nothing of it was lost or thrown away.
THEOREM PacketsIntact ==
  ASSUME ShortBurst
  PROVE  Spec => []PacketsAreFrames
<1>1. ASSUME SlipInv PROVE PacketsAreFrames
  <2>1. PICK n : Queue(given, Taken, Ready, Closing, n, spoilt, frames)
    BY <1>1, InvFacts DEF LineInv, Complete
  <2>2. ASSUME NEW k \in DOMAIN given
        PROVE  /\ \A i \in DOMAIN given[k] : given[k][i].frame = FrameOf(given[k])
               /\ FrameOf(given[k]) \notin spoilt \cup {0} => given[k] = Sent(FrameOf(given[k]))
    <3>1. given[k] # <<>> /\ Packet(given[k], n, spoilt, frames)
      BY <2>1 DEF Queue
    <3>2. PICK s : s = given[k]
      OBVIOUS
    <3>3. s # <<>> /\ s \in Seq(Byte) /\ OneFrame(s) /\ Intact(s, spoilt, frames)
      BY <3>1, <3>2 DEF Packet
    <3>4. 1 \in DOMAIN s /\ Head(s) = s[1]
      BY <3>3
    <3>5. \A f : Sent(f) = SentOf(frames, f)
      BY DEF Sent, SentOf
    <3> QED BY <3>2, <3>3, <3>4, <3>5 DEF OneFrame, Intact, FrameOf
  <2> QED BY <2>2 DEF PacketsAreFrames
<1> QED BY <1>1, InvariantHolds, PTL

\* slip_process gives the frames to uIP in the order in which they were sent, none twice.
THEOREM PacketsInOrder ==
  ASSUME ShortBurst
  PROVE  Spec => []EachOnceInOrder
<1>1. ASSUME SlipInv PROVE EachOnceInOrder
  <2>1. PICK n : Queue(given, Taken, Ready, Closing, n, spoilt, frames)
    BY <1>1, InvFacts DEF LineInv, Complete
  <2>2. ASSUME NEW j \in DOMAIN given, NEW k \in DOMAIN given, j < k,
               FrameOf(given[j]) # 0, FrameOf(given[k]) # 0
        PROVE  FrameOf(given[j]) < FrameOf(given[k])
    <3>1. PICK s, t : s = given[j] /\ t = given[k]
      OBVIOUS
    <3>2. /\ s # <<>> /\ s \in Seq(Byte) /\ t # <<>> /\ t \in Seq(Byte) /\ Before(s, t)
      BY <2>1, <2>2, <3>1 DEF Queue, Packet
    <3>3. 1 \in DOMAIN s /\ Head(s) = s[1] /\ 1 \in DOMAIN t /\ Head(t) = t[1]
      BY <3>2
    <3> QED BY <2>2, <3>1, <3>2, <3>3 DEF Before, FrameOf
  <2> QED BY <2>2 DEF EachOnceInOrder
<1> QED BY <1>1, InvariantHolds, PTL

================================================================================
