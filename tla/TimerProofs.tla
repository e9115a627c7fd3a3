------------------------------ MODULE TimerProofs ------------------------------
(***************************************************************************)
(* Theorems about event timers and callback timers: the list of timers     *)
(* stays a list of timers of running processes, no callback timer is left  *)
(* on its list with nothing to wake it, no timer expires before its time   *)
(* and one that is due is noticed, across the wrap of the clock.           *)
(***************************************************************************)
EXTENDS CallbackTimer, SequenceTheorems, WellFoundedInduction, TLAPS

\* A set of numbers has a least one.
LEMMA LeastNumber ==
  ASSUME NEW T \in SUBSET Nat, T # {}
  PROVE  \E x \in T : \A y \in T : x <= y
<1> DEFINE R == {r \in Nat \X Nat : r[1] < r[2]}
<1>1. IsWellFoundedOn(R, Nat)
  BY NatLessThanWellFounded, Zenon DEF OpToRel
<1>2. \A x, y \in Nat : <<x, y>> \notin R => y <= x
  OBVIOUS
<1> HIDE DEF R
<1>3. PICK x \in T : \A y \in T : ~(<<y, x>> \in R)
  BY <1>1, WFMin
<1> QED BY <1>2, <1>3

--------------------------------------------------------------------------------
(* Sequences without repetition.                                                *)

Distinct(s) == \A i, j \in DOMAIN s : s[i] = s[j] => i = j
Elements(s) == {s[i] : i \in DOMAIN s}

\* One element more, at the end, that is not in the sequence.
LEMMA Appended ==
  ASSUME NEW S, NEW s \in Seq(S), NEW x \in S
  PROVE  /\ Append(s, x) \in Seq(S)
         /\ Elements(Append(s, x)) = Elements(s) \cup {x}
         /\ Distinct(s) /\ x \notin Elements(s) => Distinct(Append(s, x))
<1>1. /\ Append(s, x) \in Seq(S) /\ Len(s) \in Nat
      /\ DOMAIN s = 1..Len(s) /\ DOMAIN Append(s, x) = 1..(Len(s) + 1)
      /\ \A i \in 1..Len(s) : Append(s, x)[i] = s[i]
      /\ Append(s, x)[Len(s) + 1] = x
  OBVIOUS
<1> DEFINE r == Append(s, x)
           n == Len(s)
<1> HIDE DEF r, n
<1>2. /\ n \in Nat /\ DOMAIN s = 1..n /\ DOMAIN r = 1..(n + 1)
      /\ \A i \in 1..n : r[i] = s[i]
      /\ r[n + 1] = x
  BY <1>1 DEF r, n
<1>3. Elements(r) = Elements(s) \cup {x}
  BY <1>2 DEF Elements
<1>4. ASSUME Distinct(s), x \notin Elements(s) PROVE Distinct(r)
  BY <1>2, <1>4 DEF Distinct, Elements
<1> QED
  BY <1>1, <1>3, <1>4 DEF r

\* The same, at the head.
LEMMA Prepended ==
  ASSUME NEW S, NEW s \in Seq(S), NEW x \in S
  PROVE  /\ <<x>> \o s \in Seq(S)
         /\ Elements(<<x>> \o s) = Elements(s) \cup {x}
         /\ Distinct(s) /\ x \notin Elements(s) => Distinct(<<x>> \o s)
<1> DEFINE r == <<x>> \o s
           n == Len(s)
<1>1. r \in Seq(S) /\ n \in Nat /\ DOMAIN s = 1..n /\ Len(r) = n + 1
  OBVIOUS
<1>2. \A i \in 1..(n + 1) : r[i] = IF i = 1 THEN x ELSE s[i - 1]
  OBVIOUS
<1>3. DOMAIN r = 1..(n + 1)
  BY <1>1
<1> HIDE DEF r, n
<1>4. \A i \in 1..n : i + 1 \in 1..(n + 1) /\ r[i + 1] = s[i]
  BY <1>1, <1>2
<1>5. 1 \in 1..(n + 1) /\ r[1] = x
  BY <1>1, <1>2
<1>8. \A i \in 2..(n + 1) : i - 1 \in DOMAIN s /\ r[i] = s[i - 1]
  <2>1. ASSUME NEW i \in 2..(n + 1) PROVE i - 1 \in 1..n /\ i \in 1..(n + 1) /\ i # 1
    BY <1>1
  <2> QED BY <1>1, <1>2, <2>1
<1>6. Elements(r) = Elements(s) \cup {x}
  <2>1. \A i \in 1..(n + 1) : r[i] \in Elements(s) \cup {x}
    <3>1. ASSUME NEW i \in 1..(n + 1) PROVE i = 1 \/ i \in 2..(n + 1)
      BY <1>1
    <3> QED BY <1>5, <1>8, <3>1 DEF Elements
  <2>2. \A i \in 1..n : s[i] \in Elements(r)
    <3>1. ASSUME NEW i \in 1..n PROVE s[i] \in Elements(r)
      <4>1. i + 1 \in DOMAIN r /\ r[i + 1] = s[i]
        BY <1>3, <1>4
      <4> QED BY <4>1 DEF Elements
    <3> QED BY <3>1
  <2>3. x \in Elements(r)
    BY <1>3, <1>5 DEF Elements
  <2>4. Elements(r) \subseteq Elements(s) \cup {x}
    BY <1>3, <2>1 DEF Elements
  <2>5. Elements(s) \subseteq Elements(r)
    BY <1>1, <2>2 DEF Elements
  <2> QED BY <2>3, <2>4, <2>5
<1>7. ASSUME Distinct(s), x \notin Elements(s) PROVE Distinct(r)
  <2>1. \A i \in 2..(n + 1) : i - 1 \in DOMAIN s /\ r[i] = s[i - 1] /\ r[i] # x
    BY <1>7, <1>8 DEF Elements
  <2>2. ASSUME NEW i \in 1..(n + 1), NEW j \in 1..(n + 1), r[i] = r[j] PROVE i = j
    <3>1. CASE i = 1 \/ j = 1
      BY <1>1, <1>5, <2>1, <2>2, <3>1
    <3>2. CASE i \in 2..(n + 1) /\ j \in 2..(n + 1)
      <4>1. i - 1 = j - 1
        BY <1>7, <2>1, <2>2, <3>2 DEF Distinct
      <4> QED BY <1>1, <3>2, <4>1
    <3> QED BY <1>1, <3>1, <3>2
  <2> QED BY <1>3, <2>2 DEF Distinct
<1> QED
  BY <1>1, <1>6, <1>7 DEF r

\* One element less.
LEMMA RemovedOne ==
  ASSUME NEW S, NEW s \in Seq(S), NEW k \in 1..Len(s), Distinct(s)
  PROVE  /\ RemoveAt(s, k) \in Seq(S)
         /\ Elements(RemoveAt(s, k)) = Elements(s) \ {s[k]}
         /\ Distinct(RemoveAt(s, k))
<1> DEFINE a == SubSeq(s, 1, k - 1)
           b == SubSeq(s, k + 1, Len(s))
           r == RemoveAt(s, k)
           n == Len(s)
<1>1. n \in Nat /\ DOMAIN s = 1..n /\ k \in 1..n /\ \A j \in 1..n : s[j] \in S
  BY LenProperties, ElementOfSeq
<1>2. a \in Seq(S) /\ Len(a) = k - 1 /\ \A j \in 1..(k - 1) : a[j] = s[j]
  <2>1. \A j \in 1..(k - 1) : s[j] \in S
    BY <1>1
  <2>2. /\ a \in Seq(S)
        /\ Len(a) = IF 1 <= k - 1 THEN k - 1 - 1 + 1 ELSE 0
        /\ \A j \in 1..(k - 1 - 1 + 1) : a[j] = s[1 + j - 1]
    BY <1>1, <2>1, SubSeqProperties
  <2> QED BY <1>1, <2>2
<1>3. b \in Seq(S) /\ Len(b) = n - k /\ \A j \in 1..(n - k) : b[j] = s[k + j]
  <2>1. \A j \in (k + 1)..n : s[j] \in S
    BY <1>1
  <2>2. /\ b \in Seq(S)
        /\ Len(b) = IF k + 1 <= n THEN n - (k + 1) + 1 ELSE 0
        /\ \A j \in 1..(n - (k + 1) + 1) : b[j] = s[k + 1 + j - 1]
    BY <1>1, <2>1, SubSeqProperties
  <2> HIDE DEF b, n
  <2>3. Len(b) = n - k /\ n - (k + 1) + 1 = n - k
    BY <1>1, <2>2
  <2>4. \A j \in 1..(n - k) : k + 1 + j - 1 = k + j
    BY <1>1
  <2> QED BY <2>2, <2>3, <2>4
<1>4. r = a \o b
  BY DEF RemoveAt
<1>5. /\ a \o b \in Seq(S) /\ Len(a \o b) = Len(a) + Len(b)
      /\ \A j \in 1..(Len(a) + Len(b)) :
           (a \o b)[j] = IF j <= Len(a) THEN a[j] ELSE b[j - Len(a)]
  BY <1>2, <1>3, ConcatProperties
<1> HIDE DEF a, b, r, n
<1>6. r \in Seq(S) /\ Len(r) = n - 1
  BY <1>1, <1>2, <1>3, <1>4, <1>5
<1>7. DOMAIN r = 1..(n - 1)
  BY <1>6
<1>8. \A j \in 1..(k - 1) : j \in 1..n /\ r[j] = s[j]
  BY <1>1, <1>2, <1>3, <1>4, <1>5
<1>9. \A j \in k..(n - 1) : j + 1 \in 1..n /\ r[j] = s[j + 1]
  <2>1. ASSUME NEW j \in k..(n - 1) PROVE r[j] = s[j + 1]
    <3> DEFINE x == j - (k - 1)
    <3>1. /\ j \in 1..(Len(a) + Len(b)) /\ ~(j <= Len(a)) /\ j - Len(a) = x
          /\ x \in 1..(n - k) /\ k + x = j + 1
      BY <1>1, <1>2, <1>3
    <3> HIDE DEF x
    <3>2. r[j] = b[x]
      BY <1>4, <1>5, <3>1
    <3>3. b[x] = s[k + x]
      BY <1>3, <3>1
    <3> QED BY <3>1, <3>2, <3>3
  <2> QED BY <1>1, <2>1
<1>10. Elements(r) = Elements(s) \ {s[k]}
  <2>1. Elements(r) \subseteq Elements(s) \ {s[k]}
    <3>1. ASSUME NEW j \in 1..(n - 1) PROVE r[j] \in Elements(s) /\ r[j] # s[k]
      <4>1. CASE j \in 1..(k - 1)
        BY <1>1, <1>8, <4>1 DEF Elements, Distinct
      <4>2. CASE j \in k..(n - 1)
        <5>1. j + 1 \in DOMAIN s /\ r[j] = s[j + 1] /\ j + 1 # k
          BY <1>1, <1>9, <4>2
        <5> QED BY <1>1, <5>1 DEF Elements, Distinct
      <4> QED BY <1>1, <4>1, <4>2
    <3> QED BY <1>7, <3>1 DEF Elements
  <2>2. ASSUME NEW j \in 1..n, j # k PROVE s[j] \in Elements(r)
    <3>1. CASE j < k
      <4>1. j \in DOMAIN r /\ r[j] = s[j]
        BY <1>1, <1>7, <1>8, <3>1
      <4> QED BY <4>1 DEF Elements
    <3>2. CASE j > k
      <4>1. j - 1 \in DOMAIN r /\ r[j - 1] = s[(j - 1) + 1] /\ (j - 1) + 1 = j
        BY <1>1, <1>7, <1>9, <3>2
      <4> QED BY <4>1 DEF Elements
    <3> QED BY <1>1, <2>2, <3>1, <3>2
  <2> QED BY <1>1, <2>1, <2>2 DEF Elements
<1>11. Distinct(r)
  <2> SUFFICES ASSUME NEW i \in 1..(n - 1), NEW j \in 1..(n - 1), r[i] = r[j] PROVE i = j
    BY <1>7 DEF Distinct
  <2> DEFINE from(x) == IF x < k THEN x ELSE x + 1
  <2>1. /\ from(i) \in 1..n /\ r[i] = s[from(i)]
        /\ from(j) \in 1..n /\ r[j] = s[from(j)]
    BY <1>1, <1>8, <1>9
  <2>2. from(i) = from(j)
    BY <1>1, <2>1 DEF Distinct
  <2> QED BY <1>1, <2>2
<1> QED
  BY <1>6, <1>10, <1>11 DEF r

\* The function kept of Only() is what its equations say: every beginning of it exists, for the
\* first that did not would be the one before it with one element more.
Kept(s, keep, f, i) ==
  IF i = 0 THEN <<>>
  ELSE IF s[i] \in keep THEN Append(f[i - 1], s[i]) ELSE f[i - 1]
KeptUpTo(s, keep, f, n) == \A i \in 0..n : f[i] = Kept(s, keep, f, i)

LEMMA KeptExists ==
  ASSUME NEW S, NEW s \in Seq(S), NEW keep, NEW n \in Nat, n <= Len(s)
  PROVE  \E f \in [0..n -> Seq(S)] : KeptUpTo(s, keep, f, n)
<1> DEFINE Is(f, m) == KeptUpTo(s, keep, f, m)
           There(m) == \E f \in [0..m -> Seq(S)] : Is(f, m)
           Missing == {m \in 0..n : ~There(m)}
<1>1. SUFFICES ASSUME Missing # {} PROVE FALSE
  <2> HIDE DEF There
  <2>1. ASSUME Missing = {} PROVE There(n)
    BY <2>1
  <2> QED BY <2>1 DEF There
<1>2. Missing \subseteq Nat
  OBVIOUS
<1>3. PICK m \in Missing : \A k \in Missing : m <= k
  <2> HIDE DEF Missing
  <2> QED BY <1>1, <1>2, LeastNumber
<1>4. CASE m = 0
  <2> DEFINE f == [i \in 0..0 |-> <<>>]
  <2>1. f \in [0..0 -> Seq(S)] /\ Is(f, 0)
    BY DEF KeptUpTo, Kept
  <2> QED BY <1>3, <1>4, <2>1
<1>5. CASE m # 0
  <2>1. m \in Nat /\ m - 1 \in 0..n /\ m - 1 \notin Missing
    <3> HIDE DEF There
    <3>1. m \in 0..n
      OBVIOUS
    <3>2. m - 1 \in 0..n /\ ~(m <= m - 1)
      BY <1>5, <3>1
    <3> QED BY <1>3, <3>1, <3>2
  <2>2. PICK g \in [0..(m - 1) -> Seq(S)] : Is(g, m - 1)
    BY <2>1
  <2>3. s[m] \in S
    <3>1. m \in 1..Len(s)
      BY <2>1
    <3> QED BY <3>1, ElementOfSeq
  <2> DEFINE last == IF s[m] \in keep THEN Append(g[m - 1], s[m]) ELSE g[m - 1]
             f == [i \in 0..m |-> IF i = m THEN last ELSE g[i]]
  <2>4. last \in Seq(S)
    BY <2>1, <2>2, <2>3
  <2>5. f \in [0..m -> Seq(S)]
    BY <2>1, <2>2, <2>4
  <2>6. Is(f, m)
    <3> SUFFICES ASSUME NEW i \in 0..m PROVE f[i] = Kept(s, keep, f, i)
      BY DEF KeptUpTo
    <3>1. CASE i = m
      <4>1. f[i] = last /\ f[i - 1] = g[m - 1]
        BY <1>5, <2>1, <3>1
      <4> QED BY <1>5, <3>1, <4>1 DEF Kept
    <3>2. CASE i # m
      <4>1. i \in 0..(m - 1) /\ f[i] = g[i] /\ (i # 0 => f[i - 1] = g[i - 1])
        BY <2>1, <3>2
      <4>2. g[i] = Kept(s, keep, g, i)
        BY <2>2, <4>1 DEF KeptUpTo
      <4> QED BY <4>1, <4>2 DEF Kept
    <3> QED BY <3>1, <3>2
  <2> QED BY <1>3, <2>5, <2>6
<1> QED BY <1>4, <1>5

\* Only() keeps what is in keep, and nothing comes twice that did not.
LEMMA OnlyKept ==
  ASSUME NEW S, NEW s \in Seq(S), NEW keep
  PROVE  /\ Only(s, keep) \in Seq(S)
         /\ Elements(Only(s, keep)) = Elements(s) \cap keep
         /\ Distinct(s) => Distinct(Only(s, keep))
<1> DEFINE n == Len(s)
           Next1(f, i) == Kept(s, keep, f, i)
           kept == CHOOSE f : f = [i \in 0..n |-> Next1(f, i)]
<1>1. n \in Nat /\ DOMAIN s = 1..n /\ \A i \in 1..n : s[i] \in S
  OBVIOUS
<1>2. \E f \in [0..n -> Seq(S)] : \A i \in 0..n : f[i] = Next1(f, i)
  <2>1. n <= Len(s)
    BY <1>1
  <2>2. \E f \in [0..n -> Seq(S)] : KeptUpTo(s, keep, f, n)
    BY <1>1, <2>1, KeptExists
  <2> QED BY <2>2 DEF KeptUpTo
<1>3. \E f : f = [i \in 0..n |-> Next1(f, i)]
  <2>1. PICK f \in [0..n -> Seq(S)] : \A i \in 0..n : f[i] = Next1(f, i)
    BY <1>2
  <2> HIDE DEF Next1, n
  <2>2. f = [i \in 0..n |-> Next1(f, i)]
    BY <2>1
  <2> QED BY <2>2
<1>4. kept = [i \in 0..n |-> Next1(kept, i)]
  <2> HIDE DEF Next1, n
  <2> QED BY <1>3
<1>5. Only(s, keep) = kept[n]
  BY DEF Only, Kept
<1> HIDE DEF kept, n
<1>6. \A i \in 0..n : kept[i] = Next1(kept, i)
  <2> HIDE DEF Next1
  <2> QED BY <1>4
<1> DEFINE Before1(i) == {s[j] : j \in 1..i}
           Right(i) == /\ kept[i] \in Seq(S)
                       /\ Elements(kept[i]) = Before1(i) \cap keep
                       /\ Distinct(s) => Distinct(kept[i])
           Wrong == {i \in 0..n : ~Right(i)}
<1>7. Wrong = {}
  <2> SUFFICES ASSUME Wrong # {} PROVE FALSE
    OBVIOUS
  <2>1. PICK i \in Wrong : \A k \in Wrong : i <= k
    <3>1. Wrong \subseteq Nat
      BY <1>1
    <3> HIDE DEF Wrong
    <3> QED BY <3>1, LeastNumber
  <2>2. CASE i = 0
    <3>1. kept[0] = <<>>
      <4>1. 0 \in 0..n
        BY <1>1
      <4>2. kept[0] = Kept(s, keep, kept, 0)
        BY <1>6, <4>1
      <4> QED BY <4>2 DEF Kept
    <3>2. <<>> \in Seq(S) /\ Elements(<<>>) = {} /\ Distinct(<<>>)
      BY DEF Elements, Distinct
    <3>3. Before1(0) = {}
      OBVIOUS
    <3> QED BY <2>1, <2>2, <3>1, <3>2, <3>3
  <2>3. CASE i # 0
    <3>1. i \in 1..n /\ i - 1 \in 0..n /\ i - 1 \notin Wrong
      <4> HIDE DEF Right
      <4>1. i \in 0..n
        OBVIOUS
      <4>2. i \in 1..n /\ i - 1 \in 0..n /\ ~(i <= i - 1)
        BY <1>1, <2>3, <4>1
      <4> QED BY <2>1, <4>1, <4>2
    <3>2. Right(i - 1)
      <4> HIDE DEF Right
      <4> QED BY <3>1
    <3>3. Before1(i) = Before1(i - 1) \cup {s[i]}
      BY <1>1, <3>1
    <3>4. s[i] \in S /\ kept[i] = Next1(kept, i)
      BY <1>1, <1>6, <3>1
    <3>5. CASE s[i] \in keep
      <4>1. kept[i] = Append(kept[i - 1], s[i])
        BY <2>3, <3>4, <3>5 DEF Kept
      <4>2. /\ kept[i] \in Seq(S)
            /\ Elements(kept[i]) = Elements(kept[i - 1]) \cup {s[i]}
            /\ Distinct(kept[i - 1]) /\ s[i] \notin Elements(kept[i - 1]) => Distinct(kept[i])
        <5>1. kept[i - 1] \in Seq(S) /\ s[i] \in S
          BY <3>2, <3>4
        <5> HIDE DEF Right
        <5> QED BY <4>1, <5>1, Appended
      <4>3. Distinct(s) => s[i] \notin Before1(i - 1)
        BY <1>1, <3>1 DEF Distinct
      <4>4. Right(i)
        <5> HIDE DEF Before1
        <5>1. Elements(kept[i]) = Before1(i) \cap keep
          BY <3>2, <3>3, <3>5, <4>2
        <5>2. Distinct(s) => Distinct(kept[i])
          BY <3>2, <4>2, <4>3
        <5> QED BY <4>2, <5>1, <5>2
      <4> QED BY <2>1, <4>4
    <3>6. CASE s[i] \notin keep
      <4>1. kept[i] = kept[i - 1]
        BY <2>3, <3>4, <3>6 DEF Kept
      <4> QED BY <2>1, <3>2, <3>3, <3>6, <4>1
    <3> QED BY <3>5, <3>6
  <2> QED BY <2>2, <2>3
<1>8. Right(n)
  <2> HIDE DEF Right
  <2> QED BY <1>1, <1>7
<1>9. Before1(n) = Elements(s)
  BY <1>1 DEF Elements
<1> QED
  BY <1>5, <1>8, <1>9

--------------------------------------------------------------------------------
(* What each operation does to the list of timers.                              *)

ListOK ==
  /\ timerlist \in Seq(Timer) /\ Distinct(timerlist)
  /\ owner \in [Timer -> Proc \cup {NONE}]
  /\ running \subseteq Proc
  /\ \A t \in Elements(timerlist) : owner[t] \in running
  /\ at \in Nat \ {0}

LEMMA ListedIsElements == Listed = Elements(timerlist)
BY DEF Listed, Elements

\* The timer that is set is on the list afterwards, once.
LEMMA AddFacts ==
  ASSUME ListOK, NEW p \in running, NEW t \in Timer, add_timer(p, t)
  PROVE  /\ timerlist' \in Seq(Timer) /\ Distinct(timerlist')
         /\ Elements(timerlist') = Elements(timerlist) \cup {t}
         /\ owner' = IF t \in Elements(timerlist) THEN owner ELSE [owner EXCEPT ![t] = p]
         /\ UNCHANGED <<running, queue, at>>
<1>1. UNCHANGED <<running, queue, at>>
  BY DEF add_timer, kernel
<1>2. AlreadyListed(t) <=> t \in Elements(timerlist)
  BY ListedIsElements, ProcessAssumption DEF AlreadyListed, ListOK
<1>3. CASE t \in Elements(timerlist)
  BY <1>1, <1>2, <1>3 DEF add_timer, ListOK
<1>4. CASE t \notin Elements(timerlist)
  <2>1. timerlist' = <<t>> \o timerlist /\ owner' = [owner EXCEPT ![t] = p]
    BY <1>2, <1>4 DEF add_timer
  <2>2. timerlist \in Seq(Timer) /\ Distinct(timerlist)
    BY DEF ListOK
  <2>3. /\ <<t>> \o timerlist \in Seq(Timer) /\ Distinct(<<t>> \o timerlist)
        /\ Elements(<<t>> \o timerlist) = Elements(timerlist) \cup {t}
    BY <1>4, <2>2, Prepended
  <2> QED BY <1>1, <1>4, <2>1, <2>3
<1> QED BY <1>3, <1>4

LEMMA StopFacts ==
  ASSUME ListOK, NEW p \in Proc, NEW t \in Timer, etimer_stop(p, t)
  PROVE  /\ timerlist' \in Seq(Timer) /\ Distinct(timerlist')
         /\ Elements(timerlist') = Elements(timerlist) \ {t}
         /\ owner' = [owner EXCEPT ![t] = NONE]
         /\ UNCHANGED <<running, queue, at>>
<1>1. /\ timerlist' = Only(timerlist, Timer \ {t})
      /\ owner' = [owner EXCEPT ![t] = NONE]
      /\ UNCHANGED <<running, queue, at>>
  BY DEF etimer_stop, kernel
<1>2. timerlist \in Seq(Timer) /\ Distinct(timerlist)
  BY DEF ListOK
<1>3. /\ timerlist' \in Seq(Timer) /\ Distinct(timerlist')
      /\ Elements(timerlist') = Elements(timerlist) \cap (Timer \ {t})
  BY <1>1, <1>2, OnlyKept
<1>4. Elements(timerlist) \subseteq Timer
  BY <1>2, ElementOfSeq DEF Elements
<1> QED BY <1>1, <1>3, <1>4

LEMMA ExitFacts ==
  ASSUME ListOK, NEW p \in Proc, process_exit(p)
  PROVE  /\ timerlist' \in Seq(Timer) /\ Distinct(timerlist')
         /\ Elements(timerlist') = {t \in Elements(timerlist) : owner[t] # p}
         /\ running' = running \ {p}
         /\ Kernel!Retire(p)
         /\ UNCHANGED <<owner, at>>
<1>1. /\ timerlist' = Only(timerlist, {t \in Timer : owner[t] # p})
      /\ running' = running \ {p} /\ Kernel!Retire(p) /\ UNCHANGED <<owner, at>>
  BY DEF process_exit, Removed
<1>2. timerlist \in Seq(Timer) /\ Distinct(timerlist)
  BY DEF ListOK
<1>3. /\ timerlist' \in Seq(Timer) /\ Distinct(timerlist')
      /\ Elements(timerlist') = Elements(timerlist) \cap {t \in Timer : owner[t] # p}
  BY <1>1, <1>2, OnlyKept
<1>4. Elements(timerlist) \subseteq Timer
  BY <1>2, ElementOfSeq DEF Elements
<1> QED BY <1>1, <1>3, <1>4

\* The loop of etimer_process goes on, or it posts the event of a timer and takes the timer off.
LEMMA ScanFacts ==
  ASSUME ListOK, ScanTimer
  PROVE  /\ running' = running
         /\ \/ at' = at + 1 /\ UNCHANGED <<timerlist, owner, queue>>
            \/ /\ at' = at
               /\ \E t \in Elements(timerlist) :
                    /\ timerlist' \in Seq(Timer) /\ Distinct(timerlist')
                    /\ Elements(timerlist') = Elements(timerlist) \ {t}
                    /\ owner' = [owner EXCEPT ![t] = NONE]
                    /\ queue' = Append(queue, [ev |-> t, p |-> owner[t]])
<1> DEFINE t == timerlist[at]
<1>1. at \in 1..Len(timerlist) /\ running' = running
  <2>1. Len(timerlist) \in Nat /\ at \in Nat \ {0}
    BY LenProperties DEF ListOK
  <2> QED BY <2>1 DEF ScanTimer
<1>2. t \in Elements(timerlist)
  <2>1. DOMAIN timerlist = 1..Len(timerlist)
    BY LenProperties DEF ListOK
  <2> QED BY <1>1, <2>1 DEF Elements
<1>3. \/ at' = at + 1 /\ UNCHANGED <<timerlist, owner, queue>>
      \/ /\ UNCHANGED at
         /\ Kernel!Post(t, owner[t])
         /\ owner' = [owner EXCEPT ![t] = NONE]
         /\ timerlist' = RemoveAt(timerlist, at)
  BY DEF ScanTimer
<1>4. ASSUME Kernel!Post(t, owner[t])
      PROVE  queue' = Append(queue, [ev |-> t, p |-> owner[t]])
  BY <1>4 DEF Kernel!Post
<1>5. /\ RemoveAt(timerlist, at) \in Seq(Timer) /\ Distinct(RemoveAt(timerlist, at))
      /\ Elements(RemoveAt(timerlist, at)) = Elements(timerlist) \ {t}
  BY <1>1, RemovedOne DEF ListOK
<1> HIDE DEF t
<1> QED BY <1>1, <1>2, <1>3, <1>4, <1>5

--------------------------------------------------------------------------------
(* The list of timers.                                                          *)

LEMMA OwnersListed ==
  ASSUME ListOK
  PROVE  /\ Elements(timerlist) \subseteq Timer
         /\ \A t \in Timer, x \in Proc \cup {NONE} :
              /\ [owner EXCEPT ![t] = x] \in [Timer -> Proc \cup {NONE}]
              /\ [owner EXCEPT ![t] = x][t] = x
              /\ \A u \in Timer \ {t} : [owner EXCEPT ![t] = x][u] = owner[u]
<1>1. Elements(timerlist) \subseteq Timer
  BY ElementOfSeq DEF ListOK, Elements
<1> QED BY <1>1 DEF ListOK

LEMMA UseKeepsList ==
  ASSUME ListOK, NEW p \in Proc, NEW t \in Timer, Use(p, t)
  PROVE  ListOK'
<1>1. CASE etimer_stop(p, t)
  BY <1>1, StopFacts, OwnersListed DEF ListOK
<1>2. CASE \E d \in Adjustment : etimer_adjust(p, t, d)
  BY <1>2 DEF etimer_adjust, kernel, ListOK
<1>3. CASE p \in running /\ add_timer(p, t)
  <2>1. /\ timerlist' \in Seq(Timer) /\ Distinct(timerlist')
        /\ Elements(timerlist') = Elements(timerlist) \cup {t}
        /\ owner' = IF t \in Elements(timerlist) THEN owner ELSE [owner EXCEPT ![t] = p]
        /\ UNCHANGED <<running, at>>
    BY <1>3, AddFacts
  <2>2. owner' \in [Timer -> Proc \cup {NONE}]
    BY <2>1, OwnersListed DEF ListOK
  <2>3. \A u \in Elements(timerlist') : owner'[u] \in running
    BY <1>3, <2>1, OwnersListed DEF ListOK
  <2> QED BY <2>1, <2>2, <2>3 DEF ListOK
<1> QED BY <1>1, <1>2, <1>3 DEF Use, etimer_set, etimer_reset, etimer_restart, Calls

LEMMA StepKeepsList ==
  ASSUME ListOK, [Next]_vars
  PROVE  ListOK'
<1>1. CASE ScanTimer
  <2>1. CASE at' = at + 1 /\ UNCHANGED <<timerlist, owner, running>>
    BY <2>1 DEF ListOK
  <2>2. ASSUME NEW t \in Elements(timerlist),
               timerlist' \in Seq(Timer) /\ Distinct(timerlist'),
               Elements(timerlist') = Elements(timerlist) \ {t},
               owner' = [owner EXCEPT ![t] = NONE],
               UNCHANGED <<running, at>>
        PROVE  ListOK'
    BY <2>2, OwnersListed DEF ListOK
  <2> QED BY <1>1, <2>1, <2>2, ScanFacts
<1>2. CASE Update \/ PollEtimer \/ ScanEnd
  BY <1>2 DEF Update, PollEtimer, ScanEnd, timers, kernel, ListOK
<1>3. CASE Tick \/ do_event
  BY <1>3 DEF Tick, do_event, timers, kernel, ListOK
<1>4. CASE \E p \in Proc, t \in Timer : Use(p, t)
  BY <1>4, UseKeepsList
<1>5. CASE \E p \in Proc : process_exit(p)
  BY <1>5, ExitFacts DEF ListOK
<1>6. CASE \E p \in Proc : process_start(p)
  BY <1>6 DEF process_start, timers, ListOK
<1>7. CASE \E ev \in OtherEvent, p \in running : process_post(ev, p)
  BY <1>7 DEF process_post, timers, ListOK
<1>8. CASE UNCHANGED vars
  BY <1>8 DEF vars, timers, kernel, ListOK
<1> QED
  BY <1>1, <1>2, <1>3, <1>4, <1>5, <1>6, <1>7, <1>8 DEF Next, Etimer, Program

LEMMA ListStarts == Init => ListOK
<1> SUFFICES ASSUME Init PROVE ListOK
  OBVIOUS
<1>1. timerlist = <<>> /\ owner = [t \in Timer |-> NONE] /\ running = Proc /\ at = 1
  BY DEF Init
<1>2. <<>> \in Seq(Timer) /\ Distinct(<<>>) /\ Elements(<<>>) = {}
  BY DEF Distinct, Elements
<1> QED BY <1>1, <1>2 DEF ListOK

\* etimer.c: whatever programs set, reset, adjust and stop, in the order they like, the list
\* holds no timer twice and none of a process that exited.
THEOREM TimersAlwaysBelong == Spec => []TimersBelongToProcesses
<1>1. ListOK => TimersBelongToProcesses
  BY ListedIsElements DEF ListOK, TimersBelongToProcesses, Distinct
<1> QED BY <1>1, ListStarts, StepKeepsList, PTL DEF Spec

--------------------------------------------------------------------------------
(* The event queue, as far as callback timers depend on it.                     *)

Item == [ev : Timer \cup OtherEvent, p : Proc \cup {ZOMBIE}]

LEMMA AfterTake ==
  ASSUME queue \in Seq(Item), Kernel!Take
  PROVE  queue' \in Seq(Item) /\ Posted \subseteq Posted' \cup {Head(queue).ev}
<1> DEFINE n == Len(queue)
<1>1. /\ queue' = Tail(queue) /\ queue # <<>>
  BY DEF Kernel!Take
<1>2. /\ n \in Nat \ {0} /\ DOMAIN queue = 1..n /\ Head(queue) = queue[1]
      /\ queue' \in Seq(Item) /\ DOMAIN queue' = 1..(n - 1)
      /\ \A i \in 1..(n - 1) : queue'[i] = queue[i + 1]
  BY <1>1
<1> HIDE DEF n
<1>3. ASSUME NEW i \in 1..n, i # 1 PROVE queue[i].ev \in Posted'
  <2>1. i - 1 \in DOMAIN queue' /\ queue'[i - 1] = queue[i]
    BY <1>2, <1>3
  <2> QED BY <2>1 DEF Posted
<1> QED BY <1>2, <1>3 DEF Posted

LEMMA AfterPost ==
  ASSUME queue \in Seq(Item), NEW x \in Item, queue' = Append(queue, x)
  PROVE  queue' \in Seq(Item) /\ Posted' = Posted \cup {x.ev}
<1>1. queue' \in Seq(Item) /\ Elements(queue') = Elements(queue) \cup {x}
  BY Appended
<1>2. Posted = {y.ev : y \in Elements(queue)} /\ Posted' = {y.ev : y \in Elements(queue')}
  BY DEF Posted, Elements
<1> QED BY <1>1, <1>2

\* A retired event keeps its name.
LEMMA AfterRetire ==
  ASSUME queue \in Seq(Item), NEW p \in Proc, Kernel!Retire(p)
  PROVE  queue' \in Seq(Item) /\ Posted' = Posted
<1> DEFINE n == Len(queue)
<1>1. n \in Nat /\ DOMAIN queue = 1..n /\ \A i \in 1..n : queue[i] \in Item
  OBVIOUS
<1>2. queue' = [i \in 1..n |-> IF queue[i].p = p THEN [queue[i] EXCEPT !.p = ZOMBIE] ELSE queue[i]]
  BY <1>1 DEF Kernel!Retire
<1> HIDE DEF n
<1>3. \A i \in 1..n : queue'[i] \in Item /\ queue'[i].ev = queue[i].ev
  BY <1>1, <1>2 DEF Item
<1>4. queue' \in Seq(Item) /\ DOMAIN queue' = 1..n
  BY <1>1, <1>2, <1>3
<1> QED BY <1>1, <1>3, <1>4 DEF Posted

--------------------------------------------------------------------------------
(* Callback timers.                                                             *)

\* A callback timer belongs to ctimer_process as long as it runs, so that no exit of another
\* process takes it off.
CallbacksOK ==
  /\ ctimer_list \in Seq(Ctimer)
  /\ queue \in Seq(Item)
  /\ \A c \in Ctimer \cap Elements(timerlist) : owner[c] = ctimer_process
  /\ initialized => Waiting \subseteq Elements(timerlist) \cup Posted

LEMMA ListChanges ==
  ASSUME CallbacksOK, NEW c
  PROVE  /\ list_remove(c) \in Seq(Ctimer) /\ Elements(list_remove(c)) = Waiting \ {c}
         /\ Waiting \subseteq Ctimer
         /\ c \in Ctimer => /\ list_add(c) \in Seq(Ctimer)
                           /\ Elements(list_add(c)) = Waiting \cup {c}
<1>1. Waiting = Elements(ctimer_list)
  BY DEF Waiting, Elements
<1>2. ctimer_list \in Seq(Ctimer)
  BY DEF CallbacksOK
<1>3. Waiting \subseteq Ctimer
  BY <1>1, <1>2, ElementOfSeq DEF Elements
<1>4. list_remove(c) = Only(ctimer_list, Ctimer \ {c})
  BY DEF list_remove
<1>5. list_remove(c) \in Seq(Ctimer) /\ Elements(list_remove(c)) = Waiting \cap (Ctimer \ {c})
  BY <1>1, <1>2, <1>4, OnlyKept
<1>6. c \in Ctimer => /\ list_add(c) \in Seq(Ctimer)
                     /\ Elements(list_add(c)) = Elements(list_remove(c)) \cup {c}
  BY <1>5, Appended DEF list_add
<1> QED BY <1>3, <1>5, <1>6

LEMMA WaitingNext == Waiting' = Elements(ctimer_list')
BY DEF Waiting, Elements

\* Nothing that callback timers depend on changes.
Untouched == UNCHANGED <<timerlist, owner, queue>>

LEMMA UntouchedIsOK ==
  ASSUME CallbacksOK, Untouched, UNCHANGED ctimer
  PROVE  CallbacksOK'
<1>1. Posted' = Posted /\ Waiting' = Waiting
  BY DEF Untouched, ctimer, Posted, Waiting
<1> QED BY <1>1 DEF CallbacksOK, Untouched, ctimer

LEMMA ScanKeepsCallbacks ==
  ASSUME ListOK, CallbacksOK, ScanTimer, UNCHANGED ctimer
  PROVE  CallbacksOK'
<1>1. CASE Untouched
  BY <1>1, UntouchedIsOK
<1>2. ASSUME NEW t \in Elements(timerlist),
             Elements(timerlist') = Elements(timerlist) \ {t},
             owner' = [owner EXCEPT ![t] = NONE],
             queue' = Append(queue, [ev |-> t, p |-> owner[t]])
      PROVE  CallbacksOK'
  <2>1. t \in Timer /\ owner[t] \in Proc
    BY OwnersListed DEF ListOK
  <2>2. [ev |-> t, p |-> owner[t]] \in Item /\ [ev |-> t, p |-> owner[t]].ev = t
    BY <2>1 DEF Item
  <2>3. queue' \in Seq(Item) /\ Posted' = Posted \cup {t}
    BY <1>2, <2>2, AfterPost DEF CallbacksOK
  <2>4. Waiting' = Waiting /\ ctimer_list' = ctimer_list /\ initialized' = initialized
    BY DEF ctimer, Waiting
  <2>5. \A c \in Ctimer \cap Elements(timerlist') : owner'[c] = ctimer_process
    BY <1>2, <2>1, OwnersListed, CtimerAssumption DEF CallbacksOK
  <2>6. initialized' => Waiting' \subseteq Elements(timerlist') \cup Posted'
    BY <1>2, <2>3, <2>4 DEF CallbacksOK
  <2> QED BY <2>3, <2>4, <2>5, <2>6 DEF CallbacksOK
<1> QED BY <1>1, <1>2, ScanFacts DEF Untouched

\* Other processes use timers of their own.
LEMMA OtherUseKeepsCallbacks ==
  ASSUME ListOK, CallbacksOK, UNCHANGED ctimer,
         NEW p \in Proc, NEW t \in Timer \ Ctimer, Use(p, t)
  PROVE  CallbacksOK'
<1>1. Waiting' = Waiting /\ Waiting \subseteq Ctimer
      /\ ctimer_list' = ctimer_list /\ initialized' = initialized
  BY ListChanges DEF ctimer, Waiting
<1>2. CASE \E d \in Adjustment : etimer_adjust(p, t, d)
  BY <1>2, UntouchedIsOK DEF etimer_adjust, kernel, Untouched
<1>3. ASSUME Elements(timerlist) \ {t} \subseteq Elements(timerlist'),
             Elements(timerlist') \subseteq Elements(timerlist) \cup {t},
             owner' = owner \/ \E x \in Proc \cup {NONE} : owner' = [owner EXCEPT ![t] = x],
             queue' = queue
      PROVE  CallbacksOK'
  <2>1. Posted' = Posted
    BY <1>3 DEF Posted
  <2>2. \A c \in Ctimer \cap Elements(timerlist') : owner'[c] = ctimer_process
    BY <1>3, OwnersListed, CtimerAssumption DEF CallbacksOK
  <2> QED BY <1>1, <1>3, <2>1, <2>2 DEF CallbacksOK
<1>4. CASE etimer_stop(p, t)
  BY <1>3, <1>4, StopFacts
<1>5. CASE p \in running /\ add_timer(p, t)
  BY <1>3, <1>5, AddFacts
<1> QED BY <1>2, <1>4, <1>5 DEF Use, etimer_set, etimer_reset, etimer_restart, Calls

LEMMA OtherProgramKeepsCallbacks ==
  ASSUME ListOK, CallbacksOK, OtherProgram, UNCHANGED ctimer
  PROVE  CallbacksOK'
<1>1. PICK p \in Proc \ {ctimer_process} :
        (\E t \in Timer \ Ctimer : Use(p, t)) \/ process_exit(p) \/ process_start(p)
  BY DEF OtherProgram
<1>2. CASE \E t \in Timer \ Ctimer : Use(p, t)
  BY <1>2, OtherUseKeepsCallbacks
<1>3. CASE process_start(p)
  BY <1>3, UntouchedIsOK DEF process_start, timers, Untouched
<1>4. CASE process_exit(p)
  <2>1. /\ Elements(timerlist') = {t \in Elements(timerlist) : owner[t] # p}
        /\ owner' = owner /\ Kernel!Retire(p)
    BY <1>4, ExitFacts
  <2>2. queue' \in Seq(Item) /\ Posted' = Posted
    BY <2>1, AfterRetire DEF CallbacksOK
  <2>3. Waiting' = Waiting /\ Waiting \subseteq Ctimer
        /\ ctimer_list' = ctimer_list /\ initialized' = initialized
    BY ListChanges DEF ctimer, Waiting
  <2>4. \A c \in Ctimer \cap Elements(timerlist) : c \in Elements(timerlist')
    BY <1>1, <2>1 DEF CallbacksOK
  <2> QED BY <2>1, <2>2, <2>3, <2>4 DEF CallbacksOK
<1> QED BY <1>1, <1>2, <1>3, <1>4

\* The function of a timer is called when its event is taken.
LEMMA ExpireKeepsCallbacks ==
  ASSUME CallbacksOK, Expire
  PROVE  CallbacksOK'
<1>1. /\ Kernel!Take /\ UNCHANGED <<timerlist, owner, initialized>>
      /\ ctimer_list' = list_remove(Head(queue).ev)
  BY DEF Expire, do_event, timers
<1>2. queue' \in Seq(Item) /\ Posted \subseteq Posted' \cup {Head(queue).ev}
  BY <1>1, AfterTake DEF CallbacksOK
<1>3. ctimer_list' \in Seq(Ctimer) /\ Waiting' = Waiting \ {Head(queue).ev}
  BY <1>1, ListChanges, WaitingNext
<1> QED BY <1>1, <1>2, <1>3 DEF CallbacksOK

\* A timer that is set or reset is running as well as waiting.
LEMMA SetKeepsCallbacks ==
  ASSUME ListOK, CallbacksOK, NEW c \in Ctimer,
         ctimer_process \in running, add_timer(ctimer_process, c),
         ctimer_list' = list_add(c), UNCHANGED initialized
  PROVE  CallbacksOK'
<1>1. c \in Timer
  BY CtimerAssumption
<1>2. /\ Elements(timerlist') = Elements(timerlist) \cup {c}
      /\ owner' = IF c \in Elements(timerlist) THEN owner ELSE [owner EXCEPT ![c] = ctimer_process]
      /\ queue' = queue
  BY <1>1, AddFacts
<1>3. ctimer_list' \in Seq(Ctimer) /\ Waiting' = Waiting \cup {c}
  BY ListChanges, WaitingNext
<1>4. Posted' = Posted
  BY <1>2 DEF Posted
<1>5. \A d \in Ctimer \cap Elements(timerlist') : owner'[d] = ctimer_process
  BY <1>1, <1>2, OwnersListed, CtimerAssumption DEF CallbacksOK
<1> QED BY <1>2, <1>3, <1>4, <1>5 DEF CallbacksOK

\* Before ctimer_init() no event timer is touched.
LEMMA EarlyKeepsCallbacks ==
  ASSUME CallbacksOK, Untouched, ~initialized, ~initialized', ctimer_list' \in Seq(Ctimer)
  PROVE  CallbacksOK'
BY DEF CallbacksOK, Untouched

LEMMA ProgramKeepsCallbacks ==
  ASSUME ListOK, CallbacksOK, CtimerProgram
  PROVE  CallbacksOK'
<1>1. CASE ctimer_init
  <2>1. Untouched /\ ctimer_list' = <<>>
    BY <1>1 DEF ctimer_init, vars, timers, kernel, Untouched
  <2>2. Waiting' = {} /\ ctimer_list' \in Seq(Ctimer)
    BY <2>1 DEF Waiting
  <2> QED BY <2>1, <2>2 DEF CallbacksOK, Untouched
<1>2. ASSUME NEW c \in Ctimer, NEW i \in Interval, ctimer_set(c, i) PROVE CallbacksOK'
  <2>1. CASE initialized /\ etimer_set(ctimer_process, c, i)
    BY <1>2, <2>1, SetKeepsCallbacks DEF ctimer_set, etimer_set, Calls
  <2>2. CASE ~initialized
    BY <1>2, <2>2, EarlyKeepsCallbacks, ListChanges DEF ctimer_set, kernel, Untouched
  <2> QED BY <1>2, <2>1, <2>2 DEF ctimer_set
<1>3. ASSUME NEW c \in Ctimer, ctimer_reset(c) PROVE CallbacksOK'
  <2>1. CASE initialized /\ etimer_reset(ctimer_process, c)
    BY <1>3, <2>1, SetKeepsCallbacks DEF ctimer_reset, etimer_reset, Calls
  <2>2. CASE ~initialized
    BY <1>3, <2>2, EarlyKeepsCallbacks, ListChanges DEF ctimer_reset, vars, timers, kernel, Untouched
  <2> QED BY <1>3, <2>1, <2>2 DEF ctimer_reset
<1>4. ASSUME NEW c \in Ctimer, ctimer_stop(c) PROVE CallbacksOK'
  <2>1. ctimer_list' = list_remove(c) /\ initialized' = initialized
    BY <1>4 DEF ctimer_stop, StopRemoves
  <2>2. ctimer_list' \in Seq(Ctimer) /\ Waiting' = Waiting \ {c}
    BY <2>1, ListChanges, WaitingNext
  <2>3. CASE initialized /\ etimer_stop(ctimer_process, c)
    <3>1. /\ Elements(timerlist') = Elements(timerlist) \ {c}
          /\ owner' = [owner EXCEPT ![c] = NONE] /\ queue' = queue
      BY <2>3, StopFacts, CtimerAssumption
    <3>2. Posted' = Posted
      BY <3>1 DEF Posted
    <3>3. \A d \in Ctimer \cap Elements(timerlist') : owner'[d] = ctimer_process
      BY <3>1, OwnersListed, CtimerAssumption DEF CallbacksOK
    <3> QED BY <2>1, <2>2, <3>1, <3>2, <3>3 DEF CallbacksOK
  <2>4. CASE ~initialized
    BY <1>4, <2>1, <2>2, <2>4, EarlyKeepsCallbacks DEF ctimer_stop, vars, timers, kernel, Untouched
  <2> QED BY <1>4, <2>3, <2>4 DEF ctimer_stop
<1> QED BY <1>1, <1>2, <1>3, <1>4 DEF CtimerProgram

\* A step of the callback timers is one of etimer.c, or leaves the list of timers alone.
LEMMA CtimerStepKeepsList ==
  ASSUME ListOK, [CtimerNext]_<<vars, ctimer>>
  PROVE  ListOK'
<1>1. CASE Tick \/ Etimer \/ UNCHANGED vars
  BY <1>1, StepKeepsList DEF Next
<1>2. CASE OtherProgram
  <2>1. Program
    BY <1>2 DEF OtherProgram, Program
  <2> QED BY <2>1, StepKeepsList DEF Next
<1>3. CASE Expire
  BY <1>3, StepKeepsList DEF Expire, Next
<1>4. ASSUME NEW c \in Ctimer, NEW i \in Interval, ctimer_set(c, i) PROVE ListOK'
  <2>1. CASE etimer_set(ctimer_process, c, i)
    BY <2>1, UseKeepsList, CtimerAssumption DEF Use
  <2>2. CASE UNCHANGED <<timerlist, owner, at, kernel>>
    BY <2>2 DEF kernel, ListOK
  <2> QED BY <1>4, <2>1, <2>2 DEF ctimer_set
<1>5. ASSUME NEW c \in Ctimer, ctimer_reset(c) \/ ctimer_stop(c) PROVE ListOK'
  <2>1. CASE etimer_reset(ctimer_process, c) \/ etimer_stop(ctimer_process, c)
    BY <2>1, UseKeepsList, CtimerAssumption DEF Use
  <2> QED BY <1>1, <1>5, <2>1 DEF ctimer_reset, ctimer_stop
<1>6. CASE ctimer_init
  BY <1>1, <1>6 DEF ctimer_init
<1> QED
  BY <1>1, <1>2, <1>3, <1>4, <1>5, <1>6 DEF CtimerNext, CtimerProgram

LEMMA CtimerStepKeepsCallbacks ==
  ASSUME ListOK, CallbacksOK, [CtimerNext]_<<vars, ctimer>>
  PROVE  CallbacksOK'
<1>1. CASE ScanTimer /\ UNCHANGED ctimer
  BY <1>1, ScanKeepsCallbacks
<1>2. CASE (Tick \/ Update \/ PollEtimer \/ ScanEnd) /\ UNCHANGED ctimer
  <2>1. Untouched
    BY <1>2 DEF Tick, Update, PollEtimer, ScanEnd, timers, kernel, Untouched
  <2> QED BY <1>2, <2>1, UntouchedIsOK
<1>3. CASE OtherProgram /\ UNCHANGED ctimer
  BY <1>3, OtherProgramKeepsCallbacks
<1>4. CASE Expire
  BY <1>4, ExpireKeepsCallbacks
<1>5. CASE CtimerProgram
  BY <1>5, ProgramKeepsCallbacks
<1>6. CASE UNCHANGED <<vars, ctimer>>
  BY <1>6, UntouchedIsOK DEF vars, timers, kernel, Untouched
<1> QED
  BY <1>1, <1>2, <1>3, <1>4, <1>5, <1>6 DEF CtimerNext, Etimer

LEMMA CallbacksStart == CtimerInit => CallbacksOK
<1> SUFFICES ASSUME CtimerInit PROVE CallbacksOK
  OBVIOUS
<1>1. timerlist = <<>> /\ queue = <<>> /\ ctimer_list = <<>> /\ ~initialized
  BY DEF CtimerInit, Init
<1>2. Elements(<<>>) = {} /\ <<>> \in Seq(Ctimer) /\ <<>> \in Seq(Item)
  BY DEF Elements
<1> QED BY <1>1, <1>2 DEF CallbacksOK

\* ctimer.c: no order of sets, resets, stops, expirations and exits of other processes leaves a
\* callback timer on its list with neither its etimer running nor its TIMER event queued.
THEOREM NoCallbackIsLost == CtimerSpec => []NoCallbackLost
<1>1. CtimerInit => ListOK
  BY ListStarts DEF CtimerInit
<1>2. CallbacksOK => NoCallbackLost
  BY ListedIsElements DEF CallbacksOK, NoCallbackLost
<1> QED
  BY <1>1, <1>2, CallbacksStart, CtimerStepKeepsList, CtimerStepKeepsCallbacks, PTL DEF CtimerSpec

--------------------------------------------------------------------------------
(* Numbers on a clock that wraps.                                              *)

\* a and b are the same for the wrapping clock.
Congruent(a, b) == \E k \in Int : a = b + k * Wrap

LEMMA WrapFacts == Wrap \in Nat /\ Wrap >= 2 /\ (Wrap - 1) \div 2 \in Nat
<1>1. Wrap \in Nat /\ Wrap >= 2
  BY ClockAssumption
<1> QED BY <1>1

LEMMA CongruentAdd ==
  ASSUME NEW a \in Int, NEW b \in Int, NEW c \in Int, NEW d \in Int,
         Congruent(a, b), Congruent(c, d)
  PROVE  Congruent(a + c, b + d)
<1>1. PICK k \in Int : a = b + k * Wrap
  BY DEF Congruent
<1>2. PICK l \in Int : c = d + l * Wrap
  BY DEF Congruent
<1>3. k + l \in Int /\ a + c = b + d + (k + l) * Wrap
  BY <1>1, <1>2, WrapFacts
<1> QED BY <1>3 DEF Congruent

LEMMA CongruentNeg ==
  ASSUME NEW a \in Int, NEW b \in Int, Congruent(a, b)
  PROVE  Congruent(b, a) /\ Congruent(-a, -b)
<1>1. PICK k \in Int : a = b + k * Wrap
  BY DEF Congruent
<1>2. -k \in Int /\ b = a + (-k) * Wrap /\ -a = -b + (-k) * Wrap
  BY <1>1, WrapFacts
<1> QED BY <1>2 DEF Congruent

LEMMA CongruentTrans ==
  ASSUME NEW a \in Int, NEW b \in Int, NEW c \in Int, Congruent(a, b), Congruent(b, c)
  PROVE  Congruent(a, c)
<1>1. PICK k \in Int : a = b + k * Wrap
  BY DEF Congruent
<1>2. PICK l \in Int : b = c + l * Wrap
  BY DEF Congruent
<1>3. k + l \in Int /\ a = c + (k + l) * Wrap
  BY <1>1, <1>2, WrapFacts
<1> QED BY <1>3 DEF Congruent

LEMMA CongruentSame ==
  ASSUME NEW a \in Int
  PROVE  Congruent(a, a) /\ Congruent(a + Wrap, a)
<1>1. 0 \in Int /\ a = a + 0 * Wrap /\ 1 \in Int /\ a + Wrap = a + 1 * Wrap
  BY WrapFacts
<1> QED BY <1>1 DEF Congruent

LEMMA CongruentClock ==
  ASSUME NEW a \in Clock, NEW b \in Clock, Congruent(a, b)
  PROVE  a = b
<1>1. PICK k \in Int : a = b + k * Wrap
  BY DEF Congruent
<1>2. a \in Int /\ b \in Int /\ 0 <= a /\ a < Wrap /\ 0 <= b /\ b < Wrap
  BY WrapFacts DEF Clock
<1>3. k < 1 /\ k > -1
  <2>1. k >= 1 => k * Wrap >= Wrap
    BY WrapFacts
  <2>2. k <= -1 => k * Wrap <= -Wrap
    BY WrapFacts
  <2>3. k * Wrap < Wrap /\ k * Wrap > -Wrap
    <3>1. k * Wrap = a - b
      BY <1>1, <1>2, WrapFacts
    <3> QED BY <1>2, <3>1, WrapFacts
  <2> QED BY <2>1, <2>2, <2>3, WrapFacts
<1> QED BY <1>1, <1>2, <1>3, WrapFacts

LEMMA Remainder ==
  ASSUME NEW a \in Int
  PROVE  /\ a % Wrap \in Clock /\ Congruent(a % Wrap, a)
         /\ \A d \in Clock : Congruent(a, d) => a % Wrap = d
<1>1. a % Wrap \in Clock
  BY WrapFacts DEF Clock
<1>2. Congruent(a % Wrap, a)
  <2>1. a = Wrap * (a \div Wrap) + (a % Wrap) /\ a \div Wrap \in Int
    BY WrapFacts
  <2>2. Congruent(a, a % Wrap)
    <3> DEFINE q == a \div Wrap
               r == a % Wrap
    <3>1. a = Wrap * q + r /\ q \in Int /\ r \in Int
      BY <1>1, <2>1 DEF Clock
    <3> HIDE DEF q, r
    <3>2. a = r + q * Wrap
      BY <3>1, WrapFacts
    <3> QED BY <3>1, <3>2 DEF Congruent, r
  <2> QED BY <1>1, <2>2, CongruentNeg DEF Clock
<1>3. ASSUME NEW d \in Clock, Congruent(a, d) PROVE a % Wrap = d
  <2>1. Congruent(a % Wrap, d)
    BY <1>1, <1>2, <1>3, CongruentTrans, WrapFacts DEF Clock
  <2> QED BY <1>1, <2>1, CongruentClock
<1> QED BY <1>1, <1>2, <1>3

LEMMA CongruentPlus ==
  ASSUME NEW a \in Int, NEW b \in Int, NEW c \in Int, Congruent(a, b)
  PROVE  Congruent(a + c, b + c)
<1>1. Congruent(c, c)
  BY CongruentSame
<1> QED BY <1>1, CongruentAdd

--------------------------------------------------------------------------------
(* Timers and the clock.                                                        *)

\* Intervals lie below half the range of the clock.
HalfRange ==
  /\ Interval \subseteq 0..MaxLeft
  /\ MaxLeft + (Wrap - 1) \div 2 <= Wrap

\* The clock says of a timer what really has passed, if its start was read right.
InStep(t) == Congruent(count + left[t], start[t] + interval[t])

Timely ==
  /\ count \in Clock /\ start \in [Timer -> Clock] /\ interval \in [Timer -> 0..MaxLeft]
  /\ left \in [Timer -> -MaxLate..MaxLeft]
  /\ astray \subseteq Timer
  /\ TornReads \/ (interrupted = FALSE /\ astray = {})
  /\ \A t \in Timer \ astray : t \in Elements(timerlist) \/ WasSet(t) => InStep(t)

LEMMA TimesTyped ==
  ASSUME Timely, NEW t \in Timer
  PROVE  /\ count \in Int /\ start[t] \in Int /\ interval[t] \in Int /\ left[t] \in Int
         /\ start[t] \in Clock /\ interval[t] \in 0..MaxLeft /\ left[t] \in -MaxLate..MaxLeft
         /\ \A x \in Clock : x \in Int
<1>1. Wrap \in Nat /\ MaxLeft \in Nat /\ MaxLate \in Nat
  BY ClockAssumption
<1> QED BY <1>1 DEF Timely, Clock

LEMMA ReadsWhole ==
  ASSUME Timely, ~TornReads
  PROVE  Reads = {count} /\ astray = {}
BY DEF Timely, Reads

\* How far the clock is from the time of a timer, either way.
LEMMA Distances ==
  ASSUME Timely, NEW t \in Timer, InStep(t)
  PROVE  /\ Expiration(t) \in Clock /\ Congruent(count + left[t], Expiration(t))
         /\ \A d \in Clock : Congruent(-left[t], d) => (count + Wrap - Expiration(t)) % Wrap = d
         /\ \A d \in Clock : Congruent(left[t], d) => (Expiration(t) + Wrap - count) % Wrap = d
<1> DEFINE e == Expiration(t)
           l == left[t]
           due == start[t] + interval[t]
<1>1. count \in Int /\ l \in Int /\ due \in Int /\ Wrap \in Int
  BY TimesTyped, WrapFacts
<1>2. e \in Clock /\ Congruent(e, due)
  BY <1>1, Remainder DEF Expiration
<1>3. e \in Int /\ Congruent(count + l, due)
  BY <1>2, TimesTyped DEF InStep
<1> HIDE DEF e, l, due
<1>4. Congruent(count + l, e)
  BY <1>1, <1>2, <1>3, CongruentNeg, CongruentTrans
<1>5. Congruent(count + Wrap - e, -l)
  <2>1. Congruent(-e, -(count + l))
    BY <1>1, <1>3, <1>4, CongruentNeg
  <2>2. Congruent((count + Wrap) + (-e), count + (-(count + l)))
    BY <1>1, <1>3, <2>1, CongruentSame, CongruentAdd
  <2>3. (count + Wrap) + (-e) = count + Wrap - e /\ count + (-(count + l)) = -l
    BY <1>1, <1>3
  <2> QED BY <2>2, <2>3
<1>6. Congruent(e + Wrap - count, l)
  <2>1. Congruent(e + Wrap, count + l)
    <3>1. Congruent(e + Wrap, e) /\ Congruent(e, count + l) /\ e + Wrap \in Int /\ count + l \in Int
      BY <1>1, <1>3, <1>4, CongruentNeg, CongruentSame
    <3> QED BY <1>3, <3>1, CongruentTrans
  <2>2. Congruent((e + Wrap) + (-count), (count + l) + (-count))
    <3>1. e + Wrap \in Int /\ count + l \in Int /\ -count \in Int
      BY <1>1, <1>3
    <3> QED BY <2>1, <3>1, CongruentPlus
  <2>3. (e + Wrap) + (-count) = e + Wrap - count /\ (count + l) + (-count) = l
    BY <1>1, <1>3
  <2> QED BY <2>2, <2>3
<1>7. ASSUME NEW d \in Clock, Congruent(-l, d) PROVE (count + Wrap - e) % Wrap = d
  <2>1. Congruent(count + Wrap - e, d) /\ d \in Int /\ count + Wrap - e \in Int
    BY <1>1, <1>3, <1>5, <1>7, CongruentTrans, WrapFacts DEF Clock
  <2> QED BY <2>1, Remainder
<1>8. ASSUME NEW d \in Clock, Congruent(l, d) PROVE (e + Wrap - count) % Wrap = d
  <2>1. Congruent(e + Wrap - count, d) /\ d \in Int /\ e + Wrap - count \in Int
    BY <1>1, <1>3, <1>6, <1>8, CongruentTrans, WrapFacts DEF Clock
  <2> QED BY <2>1, Remainder
<1> QED
  BY <1>2, <1>4, <1>7, <1>8 DEF e, l

\* A timer that is taken for expired is.
LEMMA ExpiredIsDue ==
  ASSUME HalfRange, Timely, NEW t \in Timer, InStep(t), timer_expired(t, count)
  PROVE  left[t] <= 0
<1> DEFINE l == left[t]
           d == Wrap - l
           half == (Wrap - 1) \div 2
<1>1. /\ Wrap \in Nat /\ Wrap >= 2 /\ half \in Nat /\ MaxLeft \in Nat /\ l \in Int /\ l <= MaxLeft
      /\ MaxLeft + half <= Wrap
  BY WrapFacts, ClockAssumption, TimesTyped DEF HalfRange
<1>2. (count + Wrap - Expiration(t)) % Wrap < half
  BY DEF timer_expired, CLOCK_LT
<1>3. SUFFICES ASSUME l > 0 PROVE FALSE
  BY <1>1
<1> HIDE DEF l, half
<1>4. d \in Clock /\ d >= half
  BY <1>1, <1>3 DEF Clock
<1>5. Congruent(-l, d)
  <2>1. -l \in Int /\ d = -l + Wrap /\ d \in Int
    BY <1>1
  <2> HIDE DEF d
  <2>2. Congruent(d, -l)
    BY <2>1, CongruentSame
  <2> QED BY <2>1, <2>2, CongruentNeg
<1>6. (count + Wrap - Expiration(t)) % Wrap = d
  BY <1>4, <1>5, Distances DEF l
<1> HIDE DEF d
<1>7. d \in Int
  BY <1>4, WrapFacts DEF Clock
<1> QED BY <1>1, <1>2, <1>4, <1>6, <1>7

\* A call sets a timer, or moves it.
LEMMA SetTimes ==
  ASSUME Timely, NEW t \in Timer, NEW s \in Clock, NEW i \in 0..MaxLeft,
         NEW l \in -MaxLate..MaxLeft,
         t \notin astray' => Congruent(count + l, s + i),
         astray' \subseteq Timer, \A u \in Timer \ {t} : u \in astray <=> u \in astray',
         TornReads \/ astray' = {},
         start' = [start EXCEPT ![t] = s], left' = [left EXCEPT ![t] = l],
         interval' = [interval EXCEPT ![t] = i],
         count' = count, interrupted' = FALSE,
         Elements(timerlist') \subseteq Elements(timerlist) \cup {t}
  PROVE  Timely'
<1>1. /\ start' \in [Timer -> Clock] /\ interval' \in [Timer -> 0..MaxLeft]
      /\ left' \in [Timer -> -MaxLate..MaxLeft]
  BY DEF Timely
<1>2. start'[t] = s /\ left'[t] = l /\ interval'[t] = i
  BY DEF Timely
<1>3. \A u \in Timer \ {t} : start'[u] = start[u] /\ left'[u] = left[u] /\ interval'[u] = interval[u]
  BY DEF Timely
<1>4. t \notin astray' => InStep(t)'
  BY <1>2 DEF InStep
<1>5. ASSUME NEW u \in Timer \ {t}, u \notin astray', (u \in Elements(timerlist) \/ WasSet(u))'
      PROVE  InStep(u)'
  <2>1. u \notin astray /\ (u \in Elements(timerlist) \/ WasSet(u))
    BY <1>3, <1>5 DEF WasSet
  <2>2. InStep(u)
    BY <2>1 DEF Timely
  <2> QED BY <1>3, <2>2 DEF InStep
<1> QED BY <1>1, <1>4, <1>5 DEF Timely

LEMMA TimesKept ==
  ASSUME Timely, UNCHANGED <<count, start, interval, clock>>, interrupted' = FALSE,
         Elements(timerlist') \subseteq Elements(timerlist)
  PROVE  Timely'
BY DEF Timely, InStep, WasSet, clock

LEMMA AddTime ==
  ASSUME ListOK, NEW p \in running, NEW t \in Timer, add_timer(p, t)
  PROVE  /\ Elements(timerlist') = Elements(timerlist) \cup {t} /\ count' = count /\ interrupted' = FALSE
         /\ polled' = TRUE /\ pc' = "update" /\ next_expiration' = next_expiration
BY AddFacts DEF add_timer

LEMMA StartTime ==
  ASSUME Timely, NEW t \in Timer, StartNow(t)
  PROVE  \E now \in Clock :
           /\ start' = [start EXCEPT ![t] = now]
           /\ t \notin astray' => now = count
           /\ astray' \subseteq Timer /\ \A u \in Timer \ {t} : u \in astray <=> u \in astray'
           /\ TornReads \/ astray' = {}
<1>1. PICK now \in Reads :
        /\ start' = [start EXCEPT ![t] = now]
        /\ astray' = IF now = count THEN astray \ {t} ELSE astray \cup {t}
  BY DEF StartNow
<1>2. now \in Clock
  <2>1. Byte \in Nat /\ Byte <= Wrap /\ Wrap \in Nat /\ Wrap >= 2 /\ count \in Clock /\ count \in Int
    BY ClockAssumption, WrapFacts DEF Timely, Clock
  <2>2. \A x \in Int : x % Wrap \in Clock
    BY Remainder
  <2>3. count + Byte - 1 \in Int /\ count + Wrap - Byte \in Int
    BY <2>1
  <2> QED BY <1>1, <2>1, <2>2, <2>3 DEF Reads
<1>3. TornReads \/ (now = count /\ astray = {})
  BY <1>1, ReadsWhole
<1>4. astray \subseteq Timer
  BY DEF Timely
<1> QED BY <1>1, <1>2, <1>3, <1>4

LEMMA UseKeepsTime ==
  ASSUME HalfRange, ListOK, Timely, NEW p \in Proc, NEW t \in Timer, Use(p, t)
  PROVE  Timely'
<1>1. /\ count \in Int /\ start[t] \in Int /\ interval[t] \in Int /\ left[t] \in Int
      /\ count \in Clock /\ start[t] \in Clock
      /\ interval[t] \in 0..MaxLeft /\ left[t] \in -MaxLate..MaxLeft
      /\ MaxLeft \in Nat /\ MaxLate \in Nat /\ Wrap \in Nat
      /\ astray \subseteq Timer /\ (TornReads \/ astray = {})
  BY TimesTyped, ClockAssumption DEF Timely
<1>2. interval = [interval EXCEPT ![t] = interval[t]]
  BY DEF Timely
<1>3. ASSUME NEW i \in Interval, etimer_set(p, t, i) PROVE Timely'
  <2>1. /\ p \in running /\ interval' = [interval EXCEPT ![t] = i] /\ left' = [left EXCEPT ![t] = i]
        /\ StartNow(t) /\ add_timer(p, t)
    BY <1>3 DEF etimer_set, Calls
  <2>2. i \in 0..MaxLeft
    BY DEF HalfRange
  <2>3. i \in -MaxLate..MaxLeft /\ count + i \in Int
    BY <1>1, <2>2
  <2>4. PICK now \in Clock :
          /\ start' = [start EXCEPT ![t] = now]
          /\ t \notin astray' => now = count
          /\ astray' \subseteq Timer /\ \A u \in Timer \ {t} : u \in astray <=> u \in astray'
          /\ TornReads \/ astray' = {}
    BY <2>1, StartTime
  <2>5. t \notin astray' => Congruent(count + i, now + i)
    BY <2>3, <2>4, CongruentSame
  <2> QED BY <1>1, <2>1, <2>2, <2>3, <2>4, <2>5, AddTime, SetTimes
<1>4. CASE etimer_restart(p, t)
  <2>1. /\ p \in running /\ interval' = interval /\ left' = [left EXCEPT ![t] = interval[t]]
        /\ StartNow(t) /\ add_timer(p, t)
    BY <1>4 DEF etimer_restart, Calls
  <2>2. interval[t] \in -MaxLate..MaxLeft /\ count + interval[t] \in Int
    BY <1>1
  <2>3. PICK now \in Clock :
          /\ start' = [start EXCEPT ![t] = now]
          /\ t \notin astray' => now = count
          /\ astray' \subseteq Timer /\ \A u \in Timer \ {t} : u \in astray <=> u \in astray'
          /\ TornReads \/ astray' = {}
    BY <2>1, StartTime
  <2>4. t \notin astray' => Congruent(count + interval[t], now + interval[t])
    BY <2>2, <2>3, CongruentSame
  <2> QED BY <1>1, <1>2, <2>1, <2>2, <2>3, <2>4, AddTime, SetTimes
<1>5. CASE etimer_reset(p, t)
  <2> DEFINE due == start[t] + interval[t]
             s == due % Wrap
             l == left[t] + interval[t]
  <2>1. /\ p \in running /\ interval' = interval /\ left' = [left EXCEPT ![t] = l]
        /\ start' = [start EXCEPT ![t] = s] /\ add_timer(p, t)
        /\ WasSet(t) /\ l <= MaxLeft /\ astray' = astray
    BY <1>1, <1>5 DEF etimer_reset, Calls, Timely
  <2>2. t \notin astray => Congruent(count + left[t], due)
    BY <2>1 DEF Timely, InStep
  <2>3. due \in Int /\ l \in -MaxLate..MaxLeft
    BY <1>1, <2>1
  <2>4. s \in Clock /\ s \in Int /\ Congruent(s, due)
    BY <2>3, Remainder, TimesTyped
  <2>5. t \notin astray => Congruent(count + left[t], s)
    BY <1>1, <2>2, <2>3, <2>4, CongruentNeg, CongruentTrans
  <2> HIDE DEF s, due
  <2>6. t \notin astray => Congruent((count + left[t]) + interval[t], s + interval[t])
    <3>1. count + left[t] \in Int
      BY <1>1
    <3> QED BY <1>1, <2>4, <2>5, <3>1, CongruentPlus
  <2>7. (count + left[t]) + interval[t] = count + l
    BY <1>1
  <2> HIDE DEF l
  <2> QED BY <1>1, <1>2, <2>1, <2>3, <2>4, <2>6, <2>7, AddTime, SetTimes
<1>6. ASSUME NEW d \in Adjustment, etimer_adjust(p, t, d) PROVE Timely'
  <2> DEFINE s == (start[t] + Wrap + d) % Wrap
             l == left[t] + d
  <2>1. /\ interval' = interval /\ left' = [left EXCEPT ![t] = l]
        /\ start' = [start EXCEPT ![t] = s] /\ UNCHANGED <<count, timerlist, astray>> /\ interrupted' = FALSE
        /\ WasSet(t) /\ l <= MaxLeft /\ l > -MaxLate
    BY <1>1, <1>6 DEF etimer_adjust, Timely
  <2>2. d \in Int
    BY ClockAssumption
  <2>3. l \in -MaxLate..MaxLeft /\ start[t] + Wrap + d \in Int
    BY <1>1, <2>1, <2>2
  <2>4. s \in Clock /\ s \in Int /\ Congruent(s, start[t] + Wrap + d)
    BY <2>3, Remainder, TimesTyped
  <2> HIDE DEF s
  <2>5. Congruent(s, start[t] + d)
    <3>1. Congruent((start[t] + d) + Wrap, start[t] + d) /\ (start[t] + d) + Wrap = start[t] + Wrap + d
      BY <1>1, <2>2, CongruentSame
    <3> QED BY <1>1, <2>2, <2>3, <2>4, <3>1, CongruentTrans
  <2>6. Congruent(s + interval[t], (start[t] + interval[t]) + d)
    <3>1. Congruent(s + interval[t], (start[t] + d) + interval[t])
      <4>1. start[t] + d \in Int
        BY <1>1, <2>2
      <4> QED BY <1>1, <2>4, <2>5, <4>1, CongruentPlus
    <3>2. (start[t] + d) + interval[t] = (start[t] + interval[t]) + d
      BY <1>1, <2>2
    <3> QED BY <3>1, <3>2
  <2>7. t \notin astray => Congruent((count + left[t]) + d, (start[t] + interval[t]) + d)
    <3>1. t \notin astray => Congruent(count + left[t], start[t] + interval[t])
      BY <2>1 DEF Timely, InStep
    <3>2. count + left[t] \in Int /\ start[t] + interval[t] \in Int
      BY <1>1
    <3> QED BY <2>2, <3>1, <3>2, CongruentPlus
  <2>8. t \notin astray => Congruent((count + left[t]) + d, s + interval[t])
    BY <1>1, <2>2, <2>4, <2>6, <2>7, CongruentNeg, CongruentTrans
  <2>9. (count + left[t]) + d = count + l
    BY <1>1, <2>2
  <2> HIDE DEF l
  <2> QED BY <1>1, <1>2, <2>1, <2>3, <2>4, <2>8, <2>9, SetTimes
<1>7. CASE etimer_stop(p, t)
  BY <1>7, StopFacts, TimesKept DEF etimer_stop
<1> QED BY <1>3, <1>4, <1>5, <1>6, <1>7 DEF Use

LEMMA TickKeepsTime ==
  ASSUME HalfRange, ListOK, Timely, Tick
  PROVE  Timely'
<1>1. /\ count' = (count + 1) % Wrap /\ timerlist' = timerlist /\ start' = start /\ interval' = interval
      /\ (TornReads \/ interrupted' = FALSE) /\ astray' = astray
      /\ left' = [t \in Timer |-> IF left[t] > -MaxLate THEN left[t] - 1 ELSE left[t]]
      /\ \A t \in Elements(timerlist) \ astray : left[t] > -MaxLate
  BY ListedIsElements DEF Tick, timers
<1>2. MaxLate \in Nat /\ MaxLeft \in Nat /\ count \in Int /\ count + 1 \in Int
  BY ClockAssumption, WrapFacts DEF Timely, Clock
<1>3. count' \in Clock /\ count' \in Int /\ Congruent(count', count + 1)
  <2> DEFINE c == count + 1
  <2>1. c \in Int /\ c % Wrap \in Clock /\ Congruent(c % Wrap, c)
    BY <1>2, Remainder
  <2>2. \A x \in Clock : x \in Int
    BY WrapFacts DEF Clock
  <2>3. c % Wrap \in Clock /\ c % Wrap \in Int /\ Congruent(c % Wrap, c)
    BY <2>1, <2>2
  <2> QED BY <1>1, <2>3
<1>4. left' \in [Timer -> -MaxLate..MaxLeft]
  BY <1>1, <1>2 DEF Timely
<1>5. ASSUME NEW t \in Timer \ astray, (t \in Elements(timerlist) \/ WasSet(t))' PROVE InStep(t)'
  <2>1. left[t] \in Int /\ start[t] \in Int /\ interval[t] \in Int /\ left[t] \in -MaxLate..MaxLeft
    BY TimesTyped
  <2>2. left[t] > -MaxLate /\ left'[t] = left[t] - 1
    BY <1>1, <1>2, <1>5, <2>1 DEF WasSet
  <2>3. InStep(t)
    BY <1>1, <1>5, <2>2 DEF Timely, WasSet
  <2>4. Congruent(count' + (left[t] - 1), (count + 1) + (left[t] - 1))
    <3>1. left[t] - 1 \in Int
      BY <2>1
    <3> QED BY <1>2, <1>3, <3>1, CongruentPlus
  <2>5. (count + 1) + (left[t] - 1) = count + left[t]
    BY <1>2, <2>1
  <2>6. Congruent(count' + (left[t] - 1), start[t] + interval[t])
    BY <1>2, <1>3, <2>1, <2>3, <2>4, <2>5, CongruentTrans DEF InStep
  <2> QED BY <1>1, <2>2, <2>6 DEF InStep
<1> QED BY <1>1, <1>3, <1>4, <1>5 DEF Timely

LEMMA ScanElements ==
  ASSUME ListOK, ScanTimer
  PROVE  Elements(timerlist') \subseteq Elements(timerlist)
<1>1. CASE UNCHANGED timerlist
  BY <1>1
<1> QED BY <1>1, ScanFacts

LEMMA StepKeepsTime ==
  ASSUME HalfRange, ListOK, Timely, [Next]_vars
  PROVE  Timely'
<1>1. CASE Tick
  BY <1>1, TickKeepsTime
<1>2. CASE Update \/ PollEtimer \/ ScanEnd \/ do_event \/ \E p \in Proc : process_start(p)
  BY <1>2, TimesKept DEF Update, PollEtimer, ScanEnd, do_event, process_start, timers
<1>3. CASE ScanTimer
  BY <1>3, ScanElements, TimesKept DEF ScanTimer
<1>4. CASE \E p \in Proc, t \in Timer : Use(p, t)
  BY <1>4, UseKeepsTime
<1>5. ASSUME NEW p \in Proc, process_exit(p) PROVE Timely'
  BY <1>5, ExitFacts, TimesKept DEF process_exit
<1>6. CASE \E ev \in OtherEvent, p \in running : process_post(ev, p)
  BY <1>6, TimesKept DEF process_post, timers
<1>7. CASE UNCHANGED vars
  BY <1>7 DEF vars, timers, clock, Timely, InStep, WasSet
<1> QED
  BY <1>1, <1>2, <1>3, <1>4, <1>5, <1>6, <1>7 DEF Next, Etimer, Program

LEMMA TimeStarts == Init => Timely
<1> SUFFICES ASSUME Init PROVE Timely
  OBVIOUS
<1>1. Wrap \in Nat /\ Wrap >= 2 /\ MaxLeft \in Nat /\ MaxLate \in Nat
  BY ClockAssumption, WrapFacts
<1>2. 0 \in Clock /\ 0 \in 0..MaxLeft /\ -MaxLate \in -MaxLate..MaxLeft
  BY <1>1 DEF Clock
<1>3. Elements(timerlist) = {} /\ \A t \in Timer : ~WasSet(t)
  BY <1>1 DEF Init, Elements, WasSet
<1> QED BY <1>2, <1>3 DEF Init, Timely

\* The queue holds events that it knows.
LEMMA StepKeepsQueue ==
  ASSUME ListOK, queue \in Seq(Item), [Next]_vars
  PROVE  queue' \in Seq(Item)
<1>1. CASE ScanTimer
  <2>1. ASSUME NEW t \in Elements(timerlist), queue' = Append(queue, [ev |-> t, p |-> owner[t]])
        PROVE  queue' \in Seq(Item)
    <3>1. [ev |-> t, p |-> owner[t]] \in Item
      BY OwnersListed DEF ListOK, Item
    <3> QED BY <2>1, <3>1, AfterPost
  <2> QED BY <1>1, <2>1, ScanFacts
<1>2. CASE Tick \/ Update \/ PollEtimer \/ ScanEnd \/ UNCHANGED vars
  BY <1>2 DEF Tick, Update, PollEtimer, ScanEnd, vars, kernel
<1>3. CASE do_event
  BY <1>3, AfterTake DEF do_event
<1>4. ASSUME NEW p \in Proc, NEW t \in Timer, Use(p, t) PROVE queue' \in Seq(Item)
  BY <1>4 DEF Use, etimer_set, etimer_reset, etimer_restart, etimer_adjust, etimer_stop, add_timer, kernel
<1>5. ASSUME NEW p \in Proc, process_exit(p) \/ process_start(p) PROVE queue' \in Seq(Item)
  BY <1>5, AfterRetire DEF process_exit, process_start
<1>6. ASSUME NEW ev \in OtherEvent, NEW p \in running, process_post(ev, p) PROVE queue' \in Seq(Item)
  <2>1. queue' = Append(queue, [ev |-> ev, p |-> p])
    BY <1>6 DEF process_post, Kernel!Post
  <2>2. [ev |-> ev, p |-> p] \in Item
    BY DEF ListOK, Item
  <2> QED BY <2>1, <2>2, AfterPost
<1> QED
  BY <1>1, <1>2, <1>3, <1>4, <1>5, <1>6 DEF Next, Etimer, Program

\* The last event of a queue that became longer is the one that was posted.
LEMMA PostedIsLast ==
  ASSUME queue \in Seq(Item), NEW x \in Item, queue' = Append(queue, x)
  PROVE  Last(queue') = x
BY DEF Last

LEMMA Shorter ==
  ASSUME queue \in Seq(Item)
  PROVE  /\ queue' = queue => Len(queue') <= Len(queue)
         /\ Kernel!Take => Len(queue') <= Len(queue)
         /\ \A p \in Proc : Kernel!Retire(p) => Len(queue') <= Len(queue)
<1>1. Len(queue) \in Nat
  OBVIOUS
<1>2. ASSUME Kernel!Take PROVE Len(queue') <= Len(queue)
  BY <1>2 DEF Kernel!Take
<1>3. ASSUME NEW p \in Proc, Kernel!Retire(p) PROVE Len(queue') <= Len(queue)
  <2>1. DOMAIN queue' = DOMAIN queue /\ queue' \in Seq(Item)
    BY <1>3, AfterRetire DEF Kernel!Retire
  <2> QED BY <1>1, <2>1, LenProperties
<1> QED BY <1>1, <1>2, <1>3

OnTime ==
  \A t \in Timer :
    Len(queue') > Len(queue) /\ Last(queue').ev = t => left[t] <= 0 \/ Torn(t)

LEMMA StepOnTime ==
  ASSUME HalfRange, ListOK, Timely, queue \in Seq(Item), Next
  PROVE  OnTime
<1>1. Len(queue) \in Nat
  OBVIOUS
<1>2. ASSUME queue' \in Seq(Item), Len(queue') <= Len(queue) PROVE OnTime
  <2>1. Len(queue') \in Nat
    BY <1>2
  <2> QED BY <1>1, <1>2, <2>1 DEF OnTime
<1>3. queue' \in Seq(Item)
  BY StepKeepsQueue
<1>4. CASE ScanTimer
  <2> DEFINE t == timerlist[at]
             x == [ev |-> t, p |-> owner[t]]
  <2>1. t \in Elements(timerlist)
    <3>1. Len(timerlist) \in Nat /\ at \in Nat \ {0} /\ DOMAIN timerlist = 1..Len(timerlist)
      BY LenProperties DEF ListOK
    <3>2. at \in DOMAIN timerlist
      BY <1>4, <3>1 DEF ScanTimer
    <3> QED BY <3>2 DEF Elements
  <2>2. t \in Timer /\ (t \notin astray => InStep(t))
    BY <2>1, OwnersListed DEF Timely
  <2>3. queue' = queue
        \/ ((Reads = {count} => timer_expired(t, count)) /\ queue' = Append(queue, x))
    BY <1>4, <2>2 DEF ScanTimer, Kernel!Post
  <2>4. x \in Item /\ x.ev = t
    BY <2>1, <2>2, OwnersListed DEF ListOK, Item
  <2> HIDE DEF t, x
  <2>5. CASE (Reads = {count} => timer_expired(t, count)) /\ queue' = Append(queue, x)
    <3>1. left[t] <= 0 \/ Torn(t)
      BY <2>2, <2>5, ExpiredIsDue DEF Torn
    <3>2. Last(queue') = x
      BY <2>4, <2>5, PostedIsLast
    <3> QED BY <2>4, <3>1, <3>2 DEF OnTime
  <2> QED BY <1>2, <1>3, <2>3, <2>5, Shorter
<1>5. ASSUME NEW ev \in OtherEvent, NEW p \in running, process_post(ev, p) PROVE OnTime
  <2> DEFINE x == [ev |-> ev, p |-> p]
  <2>1. queue' = Append(queue, x)
    BY <1>5 DEF process_post, Kernel!Post
  <2>2. x \in Item /\ x.ev \notin Timer
    BY EventAssumption DEF ListOK, Item
  <2> HIDE DEF x
  <2>3. Last(queue') = x
    BY <2>1, <2>2, PostedIsLast
  <2> QED BY <2>2, <2>3 DEF OnTime
<1>6. CASE Tick \/ Update \/ PollEtimer \/ ScanEnd \/ do_event
  <2>1. queue' = queue \/ Kernel!Take
    BY <1>6 DEF Tick, Update, PollEtimer, ScanEnd, do_event, kernel
  <2> QED BY <1>2, <1>3, <2>1, Shorter
<1>7. ASSUME NEW p \in Proc, NEW t \in Timer, Use(p, t) PROVE OnTime
  <2>1. queue' = queue
    BY <1>7 DEF Use, etimer_set, etimer_reset, etimer_restart, etimer_adjust, etimer_stop, add_timer, kernel
  <2> QED BY <1>2, <1>3, <2>1, Shorter
<1>8. ASSUME NEW p \in Proc, process_exit(p) \/ process_start(p) PROVE OnTime
  <2>1. queue' = queue \/ Kernel!Retire(p)
    BY <1>8 DEF process_exit, process_start
  <2> QED BY <1>2, <1>3, <2>1, Shorter
<1> QED
  BY <1>4, <1>5, <1>6, <1>7, <1>8 DEF Next, Etimer, Program

\* etimer.c, timer.c: no TIMER event is posted before the interval of its timer has really
\* passed, across the wrap of the clock and whatever is set, reset, restarted and adjusted,
\* if intervals stay below half the range of the clock, unless the interrupt wrapped the low
\* byte inside the reading that set the timer or the one that finds it expired.
THEOREM NoTimerIsEarly == ASSUME HalfRange PROVE Spec => NeverEarly
<1> DEFINE Inv == ListOK /\ Timely /\ queue \in Seq(Item)
<1>1. Init => Inv
  BY ListStarts, TimeStarts DEF Init
<1>2. Inv /\ [Next]_vars
        => /\ Inv'
           /\ [\A t \in Timer :
                 Len(queue') > Len(queue) /\ Last(queue').ev = t => left[t] <= 0 \/ Torn(t)]_vars
  BY StepOnTime, StepKeepsList, StepKeepsTime, StepKeepsQueue DEF OnTime
<1> HIDE DEF Inv
<1> QED
  BY <1>1, <1>2, PTL DEF Spec, NeverEarly

--------------------------------------------------------------------------------
(* When to poll.                                                                *)

\* What the comparison of cpu/msp430/clock.c takes for granted: all that is set, and all that
\* is late, stays below half the range of the clock, which is read in one piece.
\* etimer_adjust() does not ask for a poll.
Comparable ==
  /\ ~TornReads /\ "adjust" \notin Operation
  /\ Interval \subseteq 0..MaxLeft
  /\ MaxLeft + (Wrap - 1) \div 2 + 1 < Wrap
  /\ MaxLate < (Wrap - 1) \div 2

\* A timer that is due has a poll or the loop before it.
LateCovered ==
  \A i \in DOMAIN timerlist :
    left[timerlist[i]] <= 0 => polled \/ pc = "again" \/ (pc = "scan" /\ at <= i)

\* next_expiration, seen from now, lies m ahead: not after any timer that is not due, nor
\* so long before one that the comparison goes wrong.
NextIs(m) ==
  /\ Congruent(count + m, next_expiration)
  /\ \A t \in Elements(timerlist) : left[t] > 0 => m <= left[t] /\ left[t] <= m + MaxLeft

NoticeInv ==
  /\ polled \in BOOLEAN /\ pc \in {"idle", "update", "scan", "again"}
  /\ next_expiration \in Clock
  /\ LateCovered
  /\ (polled /\ pc = "update") \/ \E m \in Int : NextIs(m)

LEMMA ComparableSizes ==
  ASSUME Comparable
  PROVE  /\ HalfRange
         /\ \E half \in Nat :
              /\ half = (Wrap - 1) \div 2 /\ Wrap \in Nat /\ MaxLeft \in Nat /\ MaxLate \in Nat
              /\ MaxLeft + half + 1 < Wrap /\ MaxLate < half
<1> DEFINE half == (Wrap - 1) \div 2
<1>1. half \in Nat /\ Wrap \in Nat /\ MaxLeft \in Nat /\ MaxLate \in Nat
  BY WrapFacts, ClockAssumption
<1>2. MaxLeft + half + 1 < Wrap /\ MaxLate < half
  BY DEF Comparable
<1> HIDE DEF half
<1>3. MaxLeft + half <= Wrap
  BY <1>1, <1>2
<1> QED BY <1>1, <1>2, <1>3 DEF HalfRange, Comparable, half

\* A timer that is due is taken for expired.
LEMMA LateIsExpired ==
  ASSUME Comparable, Timely, NEW t \in Timer, InStep(t), left[t] <= 0
  PROVE  timer_expired(t, count)
<1>1. PICK half \in Nat :
        /\ half = (Wrap - 1) \div 2 /\ Wrap \in Nat /\ MaxLeft \in Nat /\ MaxLate \in Nat
        /\ MaxLeft + half + 1 < Wrap /\ MaxLate < half
  BY ComparableSizes
<1>2. left[t] \in Int /\ left[t] >= -MaxLate
  BY <1>1, TimesTyped
<1>3. -left[t] \in Clock /\ -left[t] \in Int /\ -left[t] < half
  BY <1>1, <1>2 DEF Clock
<1>4. (count + Wrap - Expiration(t)) % Wrap = -left[t]
  BY <1>3, CongruentSame, Distances
<1> QED BY <1>1, <1>3, <1>4 DEF timer_expired, CLOCK_LT

\* How far update_time() finds a timer to be from now.
Away(t) == (Expiration(t) + Wrap - count) % Wrap

LEMMA AwayFacts ==
  ASSUME Comparable, Timely, ListOK, NEW t \in Elements(timerlist)
  PROVE  /\ Away(t) \in Nat /\ left[t] \in Int /\ left[t] <= MaxLeft
         /\ left[t] >= 0 => Away(t) = left[t]
         /\ left[t] < 0 => Away(t) > MaxLeft
         /\ Expiration(t) \in Clock /\ Congruent(count + left[t], Expiration(t))
<1>1. PICK half \in Nat :
        /\ half = (Wrap - 1) \div 2 /\ Wrap \in Nat /\ MaxLeft \in Nat /\ MaxLate \in Nat
        /\ MaxLeft + half + 1 < Wrap /\ MaxLate < half
  BY ComparableSizes
<1>2. t \in Timer /\ InStep(t)
  BY OwnersListed, ReadsWhole DEF Timely, Comparable
<1>3. left[t] \in Int /\ left[t] >= -MaxLate /\ left[t] <= MaxLeft
  BY <1>1, <1>2, TimesTyped
<1>4. CASE left[t] >= 0
  <2>1. left[t] \in Clock
    BY <1>1, <1>3, <1>4 DEF Clock
  <2>2. Away(t) = left[t]
    BY <1>2, <1>3, <2>1, CongruentSame, Distances DEF Away
  <2> QED BY <1>2, <1>3, <1>4, <2>2, Distances
<1>5. CASE left[t] < 0
  <2> DEFINE d == left[t] + Wrap
  <2>1. d \in Clock /\ d \in Int /\ d > MaxLeft
    BY <1>1, <1>3, <1>5 DEF Clock
  <2>2. Congruent(d, left[t])
    BY <1>3, CongruentSame
  <2> HIDE DEF d
  <2>3. Congruent(left[t], d)
    BY <1>3, <2>1, <2>2, CongruentNeg
  <2>4. Away(t) = d
    BY <1>2, <2>1, <2>3, Distances DEF Away
  <2> QED BY <1>1, <1>2, <1>3, <1>5, <2>1, <2>4, Distances DEF Clock
<1> QED BY <1>3, <1>4, <1>5

\* update_time() finds a time that is not after any timer that is not due.
LEMMA UpdateFacts ==
  ASSUME Comparable, Timely, ListOK
  PROVE  /\ update_time(count) \in Clock
         /\ \E m \in Int :
              /\ Congruent(count + m, update_time(count))
              /\ \A t \in Elements(timerlist) : left[t] > 0 => m <= left[t] /\ left[t] <= m + MaxLeft
<1>1. Listed = Elements(timerlist) /\ count \in Int /\ MaxLeft \in Nat /\ 0 \in Clock
  BY ListedIsElements, ClockAssumption, WrapFacts DEF Timely, Clock
<1>2. CASE timerlist = <<>>
  <2>1. update_time(count) = 0 /\ Elements(timerlist) = {}
    BY <1>2 DEF update_time, Elements
  <2>2. -count \in Int /\ count + (-count) = 0
    BY <1>1
  <2>3. Congruent(count + (-count), 0)
    BY <2>2, CongruentSame
  <2> QED BY <1>1, <2>1, <2>2, <2>3
<1>3. CASE timerlist # <<>>
  <2> DEFINE Nearest(t) == t \in Listed /\ \A u \in Listed : Away(t) <= Away(u)
             D == {Away(t) : t \in Listed}
  <2>1. \E t : Nearest(t)
    <3>1. D \subseteq Nat /\ D # {}
      <4>1. 1 \in DOMAIN timerlist
        BY <1>3 DEF ListOK
      <4>2. timerlist[1] \in Listed
        BY <4>1 DEF Listed
      <4> QED BY <1>1, <4>2, AwayFacts
    <3> HIDE DEF D
    <3>2. PICK d \in D : \A e \in D : d <= e
      BY <3>1, LeastNumber
    <3> QED BY <3>2 DEF D
  <2> DEFINE t == CHOOSE x \in Listed : \A u \in Listed : Away(x) <= Away(u)
  <2>2. update_time(count) = Expiration(t)
    BY <1>3 DEF update_time, Away
  <2>3. Nearest(t)
    BY <2>1
  <2> HIDE DEF t
  <2>4. t \in Elements(timerlist) /\ \A u \in Elements(timerlist) : Away(t) <= Away(u)
    BY <1>1, <2>3
  <2>5. /\ left[t] \in Int /\ update_time(count) \in Clock
        /\ Congruent(count + left[t], update_time(count))
    BY <2>2, <2>4, AwayFacts
  <2>6. ASSUME NEW u \in Elements(timerlist), left[u] > 0
        PROVE  left[t] <= left[u] /\ left[u] <= left[t] + MaxLeft
    <3>1. Away(t) <= left[u] /\ left[u] <= MaxLeft /\ left[u] \in Int
      <4>1. left[u] \in Int /\ left[u] >= 0
        BY <2>6, AwayFacts
      <4> QED BY <2>4, <4>1, AwayFacts
    <3>2. left[t] >= 0 /\ Away(t) = left[t]
      BY <1>1, <2>4, <2>5, <3>1, AwayFacts
    <3> QED BY <1>1, <2>5, <3>1, <3>2
  <2> QED BY <2>5, <2>6
<1> QED BY <1>2, <1>3

\* The tick at which a timer is due polls.
LEMMA TickPolls ==
  ASSUME Comparable, Timely, ListOK, next_expiration \in Clock, NEW m \in Int, NextIs(m),
         NEW t \in Elements(timerlist), left[t] = 1
  PROVE  PollDue((count + 1) % Wrap)
<1>1. PICK half \in Nat :
        /\ half = (Wrap - 1) \div 2 /\ Wrap \in Nat /\ MaxLeft \in Nat /\ MaxLate \in Nat
        /\ MaxLeft + half + 1 < Wrap /\ MaxLate < half
  BY ComparableSizes
<1>2. m <= 1 /\ 1 <= m + MaxLeft
  BY DEF NextIs
<1>3. timerlist # <<>>
  BY DEF Elements
<1> DEFINE c == (count + 1) % Wrap
           e == next_expiration
           d == Wrap + m - 2
<1>4. d \in Clock /\ d \in Int /\ d > half
  BY <1>1, <1>2 DEF Clock
<1>5. count \in Int /\ count + 1 \in Int /\ count + m \in Int /\ e \in Int
  BY WrapFacts DEF Timely, Clock
<1>6. c \in Int /\ Congruent(c, count + 1)
  BY <1>5, Remainder, WrapFacts DEF Clock
<1> HIDE DEF c, d
<1>7. Congruent(e, count + m)
  BY <1>5, CongruentNeg DEF NextIs
<1> HIDE DEF e
<1>8. Congruent(-c, -(count + 1)) /\ -c \in Int /\ -(count + 1) \in Int
  BY <1>5, <1>6, CongruentNeg
<1>9. Congruent(e + (-c), (count + m) + (-(count + 1)))
  BY <1>5, <1>7, <1>8, CongruentAdd
<1>10. Congruent((e + (-c)) + (Wrap - 1), ((count + m) + (-(count + 1))) + (Wrap - 1))
  <2>1. e + (-c) \in Int /\ (count + m) + (-(count + 1)) \in Int /\ Wrap - 1 \in Int
    BY <1>1, <1>5, <1>8
  <2> QED BY <1>9, <2>1, CongruentPlus
<1>11. (e + (-c)) + (Wrap - 1) = e + Wrap - c - 1 /\ ((count + m) + (-(count + 1))) + (Wrap - 1) = d
  BY <1>1, <1>5, <1>6 DEF d
<1>12. (e + Wrap - c - 1) % Wrap = d
  <2>1. e + Wrap - c - 1 \in Int
    BY <1>1, <1>5, <1>6
  <2> QED BY <1>4, <1>10, <1>11, <2>1, Remainder
<1> QED BY <1>1, <1>3, <1>4, <1>12 DEF PollDue, c, e

\* Where nothing is in progress, a poll is asked for if a timer is due.
LEMMA WhenIdle ==
  ASSUME NoticeInv, pc = "idle"
  PROVE  /\ \E m \in Int : NextIs(m)
         /\ ~polled => \A t \in Elements(timerlist) : ~(left[t] <= 0)
BY DEF NoticeInv, LateCovered, Elements

LEMMA NextStays ==
  ASSUME NEW m \in Int, NextIs(m), UNCHANGED <<count, left, next_expiration>>,
         Elements(timerlist') \subseteq Elements(timerlist)
  PROVE  NextIs(m)'
BY DEF NextIs

LEMMA IdleKeepsNotice ==
  ASSUME NoticeInv, pc = "idle", pc' \in {"idle", "update"},
         UNCHANGED <<count, left, next_expiration, polled>>,
         Elements(timerlist') \subseteq Elements(timerlist)
  PROVE  NoticeInv'
<1>1. \E m \in Int : NextIs(m)'
  BY WhenIdle, NextStays
<1>2. LateCovered'
  <2>1. ~polled => \A i \in DOMAIN timerlist' : ~(left'[timerlist'[i]] <= 0)
    BY WhenIdle DEF Elements
  <2> QED BY <2>1 DEF LateCovered
<1> QED BY <1>1, <1>2 DEF NoticeInv

LEMMA UseKeepsNotice ==
  ASSUME Comparable, ListOK, NoticeInv, NEW p \in Proc, NEW t \in Timer, Use(p, t)
  PROVE  NoticeInv'
<1>1. CASE etimer_stop(p, t)
  <2>1. /\ pc = "idle" /\ pc' \in {"idle", "update"}
        /\ UNCHANGED <<count, left, next_expiration, polled>>
    BY <1>1 DEF etimer_stop, Calls, clock
  <2>2. Elements(timerlist') \subseteq Elements(timerlist)
    BY <1>1, StopFacts
  <2> QED BY <2>1, <2>2, IdleKeepsNotice
<1>2. CASE p \in running /\ add_timer(p, t)
  <2>1. polled' = TRUE /\ pc' = "update" /\ next_expiration' = next_expiration
    BY <1>2, AddTime
  <2> QED BY <2>1 DEF NoticeInv, LateCovered
<1>3. ~(\E d \in Adjustment : etimer_adjust(p, t, d))
  BY DEF etimer_adjust, Calls, Comparable
<1> QED BY <1>1, <1>2, <1>3 DEF Use, etimer_set, etimer_reset, etimer_restart, Calls

LEMMA TickKeepsNotice ==
  ASSUME Comparable, ListOK, Timely, NoticeInv, Tick
  PROVE  NoticeInv'
<1>1. /\ count' = (count + 1) % Wrap /\ polled' = (polled \/ PollDue(count'))
      /\ left' = [t \in Timer |-> IF left[t] > -MaxLate THEN left[t] - 1 ELSE left[t]]
      /\ \A t \in Elements(timerlist) : left[t] > -MaxLate
      /\ UNCHANGED <<timerlist, next_expiration, pc, at>>
  BY ListedIsElements, ReadsWhole DEF Tick, timers, Comparable
<1>2. \A t \in Elements(timerlist) : left[t] \in Int /\ left'[t] = left[t] - 1
  BY <1>1, OwnersListed, TimesTyped
<1>3. count \in Int /\ count' \in Int /\ Congruent(count', count + 1)
  <2> DEFINE c == count + 1
  <2>1. count \in Int /\ c \in Int
    BY WrapFacts DEF Timely, Clock
  <2>2. c % Wrap \in Clock /\ Congruent(c % Wrap, c)
    BY <2>1, Remainder
  <2>3. \A x \in Clock : x \in Int
    BY WrapFacts DEF Clock
  <2> QED BY <1>1, <2>1, <2>2, <2>3
<1>4. polled' \in BOOLEAN
  BY <1>1 DEF NoticeInv, PollDue
<1>5. ASSUME NEW m \in Int, NextIs(m) PROVE NextIs(m - 1)'
  <2>1. Congruent(count' + (m - 1), next_expiration)
    <3>1. m - 1 \in Int /\ count + 1 \in Int /\ count' + (m - 1) \in Int /\ next_expiration \in Int
          /\ (count + 1) + (m - 1) = count + m /\ count + m \in Int
      BY <1>3, WrapFacts DEF NoticeInv, Clock
    <3>2. Congruent(count' + (m - 1), (count + 1) + (m - 1))
      BY <1>3, <3>1, CongruentPlus
    <3>3. Congruent(count + m, next_expiration)
      BY <1>5 DEF NextIs
    <3> QED BY <3>1, <3>2, <3>3, CongruentTrans
  <2>2. ASSUME NEW t \in Elements(timerlist), left'[t] > 0
        PROVE  m - 1 <= left'[t] /\ left'[t] <= (m - 1) + MaxLeft
    <3>1. left[t] \in Int /\ left'[t] = left[t] - 1 /\ MaxLeft \in Nat
      BY <1>2, ClockAssumption
    <3>2. left[t] > 0
      BY <2>2, <3>1
    <3>3. m <= left[t] /\ left[t] <= m + MaxLeft
      BY <1>5, <3>2 DEF NextIs
    <3> QED BY <3>1, <3>3
  <2> QED BY <1>1, <2>1, <2>2 DEF NextIs
<1>6. LateCovered'
  <2> SUFFICES ASSUME NEW i \in DOMAIN timerlist, left'[timerlist[i]] <= 0, ~polled'
               PROVE  pc = "again" \/ (pc = "scan" /\ at <= i)
    BY <1>1 DEF LateCovered
  <2> DEFINE t == timerlist[i]
  <2>1. t \in Elements(timerlist)
    BY DEF Elements
  <2>2. ~polled
    BY <1>1
  <2>3. left[t] # 1
    <3> SUFFICES ASSUME left[t] = 1 PROVE FALSE
      OBVIOUS
    <3>1. PICK m \in Int : NextIs(m)
      BY <2>2 DEF NoticeInv
    <3>2. PollDue(count')
      BY <1>1, <2>1, <3>1, TickPolls DEF NoticeInv
    <3> QED BY <1>1, <3>2
  <2>4. left[t] <= 0
    <3>1. left[t] \in Int /\ left[t] - 1 <= 0
      BY <1>2, <2>1
    <3> QED BY <2>3, <3>1
  <2> QED BY <2>2, <2>4 DEF NoticeInv, LateCovered
<1>7. (polled' /\ pc' = "update") \/ \E m \in Int : NextIs(m)'
  <2>1. CASE polled /\ pc = "update"
    BY <1>1, <2>1
  <2>2. ASSUME NEW m \in Int, NextIs(m) PROVE \E k \in Int : NextIs(k)'
    <3>1. m - 1 \in Int /\ NextIs(m - 1)'
      BY <1>5, <2>2
    <3> QED BY <3>1
  <2> QED BY <2>1, <2>2 DEF NoticeInv
<1> QED BY <1>1, <1>4, <1>6, <1>7 DEF NoticeInv

LEMMA UpdateKeepsNotice ==
  ASSUME Comparable, ListOK, Timely, NoticeInv, Update
  PROVE  NoticeInv'
<1>1. /\ pc \in {"update", "again"} /\ pc' = IF pc = "again" THEN "scan" ELSE "idle"
      /\ next_expiration' = update_time(count) /\ at' = 1
      /\ UNCHANGED <<count, timerlist, left, polled>>
  BY ReadsWhole DEF Update, timers, clock, Comparable
<1>2. next_expiration' \in Clock /\ \E m \in Int : NextIs(m)'
  <2>1. PICK m \in Int :
          /\ Congruent(count + m, update_time(count))
          /\ \A t \in Elements(timerlist) : left[t] > 0 => m <= left[t] /\ left[t] <= m + MaxLeft
    BY UpdateFacts
  <2>2. NextIs(m)'
    BY <1>1, <2>1 DEF NextIs
  <2> QED BY <1>1, <2>2, UpdateFacts
<1>3. LateCovered'
  <2>1. CASE pc = "again"
    <3>1. \A i \in DOMAIN timerlist : 1 <= i
      BY DEF ListOK
    <3> QED BY <1>1, <2>1, <3>1 DEF LateCovered
  <2>2. CASE pc = "update"
    BY <1>1, <2>2 DEF NoticeInv, LateCovered
  <2> QED BY <1>1, <2>1, <2>2
<1> QED BY <1>1, <1>2, <1>3 DEF NoticeInv

LEMMA ScanKeepsNotice ==
  ASSUME Comparable, ListOK, Timely, NoticeInv, ScanTimer
  PROVE  NoticeInv'
<1> DEFINE t == timerlist[at]
<1>1. /\ pc = "scan" /\ at \in DOMAIN timerlist
      /\ UNCHANGED <<count, left, next_expiration>>
      /\ \A i \in DOMAIN timerlist : i \in Nat
  <2>1. Len(timerlist) \in Nat /\ DOMAIN timerlist = 1..Len(timerlist) /\ at \in Nat \ {0}
    BY LenProperties DEF ListOK
  <2> QED BY <2>1 DEF ScanTimer, clock
<1>2. t \in Timer /\ InStep(t) /\ Reads = {count}
  <2>0. Reads = {count} /\ astray = {}
    BY ReadsWhole DEF Comparable
  <2>1. t \in Elements(timerlist)
    BY <1>1 DEF Elements
  <2> HIDE DEF t
  <2>2. t \in Timer
    BY <2>1, OwnersListed
  <2> QED BY <2>0, <2>1, <2>2 DEF Timely
<1>3. \/ ~timer_expired(t, count) /\ at' = at + 1 /\ UNCHANGED <<timerlist, polled, pc>>
      \/ polled' = TRUE /\ at' = at + 1 /\ UNCHANGED <<timerlist, pc>>
      \/ pc' = "again" /\ UNCHANGED <<polled, at>>
  BY <1>2 DEF ScanTimer
<1> HIDE DEF t
<1>4. \E m \in Int : NextIs(m)'
  <2>1. \E m \in Int : NextIs(m)
    BY <1>1 DEF NoticeInv
  <2> QED BY <1>1, <2>1, NextStays, ScanElements
<1>5. polled' \in BOOLEAN /\ pc' \in {"idle", "update", "scan", "again"}
  BY <1>3 DEF NoticeInv
<1>6. LateCovered'
  <2>1. CASE polled' = TRUE \/ pc' = "again"
    BY <2>1 DEF LateCovered
  <2>2. CASE ~timer_expired(t, count) /\ at' = at + 1 /\ UNCHANGED <<timerlist, polled, pc>>
    <3> SUFFICES ASSUME NEW i \in DOMAIN timerlist, left[timerlist[i]] <= 0, ~polled
                 PROVE  at + 1 <= i
      BY <1>1, <2>2 DEF LateCovered
    <3>1. at <= i
      BY <1>1 DEF NoticeInv, LateCovered
    <3>2. i # at
      BY <1>2, <2>2, LateIsExpired DEF t
    <3> QED BY <1>1, <3>1, <3>2
  <2> QED BY <1>3, <2>1, <2>2
<1> QED BY <1>1, <1>4, <1>5, <1>6 DEF NoticeInv

LEMMA StepKeepsNotice ==
  ASSUME Comparable, ListOK, Timely, NoticeInv, [Next]_vars
  PROVE  NoticeInv'
<1>1. CASE Tick \/ Update \/ ScanTimer
  BY <1>1, TickKeepsNotice, UpdateKeepsNotice, ScanKeepsNotice
<1>2. CASE PollEtimer
  <2>1. /\ pc = "idle" /\ pc' = "scan" /\ at' = 1 /\ polled' = FALSE
        /\ UNCHANGED <<count, timerlist, left, next_expiration>>
    BY <1>2 DEF PollEtimer, timers, clock
  <2>2. \E m \in Int : NextIs(m)'
    BY <2>1, WhenIdle, NextStays
  <2>3. \A i \in DOMAIN timerlist : 1 <= i
    BY DEF ListOK
  <2> QED BY <2>1, <2>2, <2>3 DEF NoticeInv, LateCovered
<1>3. CASE ScanEnd
  <2>1. /\ pc = "scan" /\ pc' = "idle" /\ at > Len(timerlist)
        /\ UNCHANGED <<count, timerlist, left, next_expiration, polled>>
    BY <1>3 DEF ScanEnd, timers, clock
  <2>2. \A i \in DOMAIN timerlist : ~(at <= i)
    <3>1. Len(timerlist) \in Nat /\ DOMAIN timerlist = 1..Len(timerlist) /\ at \in Nat
      BY LenProperties DEF ListOK
    <3> QED BY <2>1, <3>1
  <2>3. \E m \in Int : NextIs(m)'
    BY <2>1, NextStays DEF NoticeInv
  <2>4. LateCovered'
    BY <2>1, <2>2 DEF NoticeInv, LateCovered
  <2> QED BY <2>1, <2>3, <2>4 DEF NoticeInv
<1>4. CASE do_event \/ (\E p \in Proc : process_start(p))
          \/ \E ev \in OtherEvent, p \in running : process_post(ev, p)
  BY <1>4, IdleKeepsNotice DEF do_event, process_start, process_post, timers, clock
<1>5. CASE \E p \in Proc, t \in Timer : Use(p, t)
  BY <1>5, UseKeepsNotice
<1>6. ASSUME NEW p \in Proc, process_exit(p) PROVE NoticeInv'
  <2>1. pc = "idle" /\ UNCHANGED <<pc, count, left, next_expiration, polled>>
    BY <1>6 DEF process_exit, Calls, clock
  <2>2. Elements(timerlist') \subseteq Elements(timerlist)
    BY <1>6, ExitFacts
  <2> QED BY <2>1, <2>2, IdleKeepsNotice
<1>7. CASE UNCHANGED vars
  BY <1>7 DEF vars, timers, clock, NoticeInv, LateCovered, NextIs
<1> QED
  BY <1>1, <1>2, <1>3, <1>4, <1>5, <1>6, <1>7 DEF Next, Etimer, Program

LEMMA NoticeStarts == Init => NoticeInv
<1> SUFFICES ASSUME Init PROVE NoticeInv
  OBVIOUS
<1>1. Elements(timerlist) = {} /\ 0 \in Clock /\ 0 \in Int /\ 0 + 0 = 0
  BY WrapFacts DEF Init, Elements, Clock
<1>2. NextIs(0)
  BY <1>1, CongruentSame DEF Init, NextIs
<1>3. LateCovered
  BY DEF Init, LateCovered
<1> QED BY <1>1, <1>2, <1>3 DEF Init, NoticeInv

\* Before ctimer_init() no event timer has been set; ctimer_set() notes the interval only.
Quiet == ~initialized => timerlist = <<>> /\ \A t \in Timer : left[t] = -MaxLate

EarlySet ==
  /\ ~initialized /\ interrupted' = FALSE
  /\ \E c \in Ctimer, i \in Interval : interval' = [interval EXCEPT ![c] = i]
  /\ UNCHANGED <<count, timerlist, start, next_expiration, polled, pc, at, clock>>

LEMMA CtimerStepIsNext ==
  ASSUME [CtimerNext]_<<vars, ctimer>>
  PROVE  [Next]_vars \/ EarlySet
<1>1. CASE Tick \/ Etimer \/ UNCHANGED vars
  BY <1>1 DEF Next
<1>2. CASE OtherProgram
  <2>1. Program
    BY <1>2 DEF OtherProgram, Program
  <2> QED BY <2>1 DEF Next
<1>3. CASE Expire
  BY <1>3 DEF Expire, Next
<1>4. ASSUME NEW c \in Ctimer, Use(ctimer_process, c) PROVE Next
  <2>1. Program
    BY <1>4, CtimerAssumption DEF Program
  <2> QED BY <2>1 DEF Next
<1>5. ASSUME NEW c \in Ctimer, NEW i \in Interval, ctimer_set(c, i) PROVE Next \/ EarlySet
  <2>1. CASE etimer_set(ctimer_process, c, i)
    BY <1>4, <2>1 DEF Use
  <2>2. CASE ~initialized
    BY <1>5, <2>1, <2>2 DEF ctimer_set, EarlySet
  <2> QED BY <1>5, <2>1, <2>2 DEF ctimer_set
<1>6. ASSUME NEW c \in Ctimer, ctimer_reset(c) \/ ctimer_stop(c) PROVE [Next]_vars
  <2>1. CASE etimer_reset(ctimer_process, c) \/ etimer_stop(ctimer_process, c)
    BY <1>4, <2>1 DEF Use
  <2> QED BY <1>6, <2>1 DEF ctimer_reset, ctimer_stop
<1>7. CASE ctimer_init
  BY <1>7 DEF ctimer_init
<1> QED
  BY <1>1, <1>2, <1>3, <1>5, <1>6, <1>7 DEF CtimerNext, CtimerProgram

LEMMA CtimerStepKeepsQuiet ==
  ASSUME ListOK, Quiet, [CtimerNext]_<<vars, ctimer>>
  PROVE  Quiet'
<1>1. SUFFICES ASSUME ~initialized' PROVE timerlist' = <<>> /\ \A t \in Timer : left'[t] = -MaxLate
  BY DEF Quiet
<1>2. ~initialized
  BY <1>1 DEF CtimerNext, CtimerProgram, OtherProgram, Expire, ctimer_init, ctimer_set, ctimer_reset,
              ctimer_stop, ctimer
<1>3. timerlist = <<>> /\ \A t \in Timer : left[t] = -MaxLate
  BY <1>2 DEF Quiet
<1>4. CASE UNCHANGED <<timerlist, left>>
  BY <1>3, <1>4
<1>5. CASE Tick
  <2>1. timerlist' = timerlist
        /\ left' = [t \in Timer |-> IF left[t] > -MaxLate THEN left[t] - 1 ELSE left[t]]
    BY <1>5 DEF Tick, timers
  <2>2. ~(-MaxLate > -MaxLate)
    BY ClockAssumption
  <2> QED BY <1>3, <2>1, <2>2
<1>6. ~ScanTimer
  <2>1. Len(timerlist) = 0 /\ at \in Nat \ {0}
    BY <1>3 DEF ListOK
  <2> QED BY <2>1 DEF ScanTimer
<1>7. CASE Update \/ PollEtimer \/ ScanEnd \/ Expire
  BY <1>4, <1>7 DEF Update, PollEtimer, ScanEnd, Expire, do_event, timers, clock
<1>8. ~OtherProgram
  BY <1>2 DEF OtherProgram
<1>9. CASE CtimerProgram
  BY <1>2, <1>4, <1>9 DEF CtimerProgram, ctimer_init, ctimer_set, ctimer_reset, ctimer_stop, vars, timers, clock
<1>10. CASE UNCHANGED <<vars, ctimer>>
  BY <1>4, <1>10 DEF vars, timers, clock
<1> QED
  BY <1>5, <1>6, <1>7, <1>8, <1>9, <1>10 DEF CtimerNext, Etimer

LEMMA EarlySetKeeps ==
  ASSUME Comparable, Timely, NoticeInv, Quiet, EarlySet
  PROVE  Timely' /\ NoticeInv'
<1>1. /\ interrupted' = FALSE /\ timerlist = <<>> /\ \A t \in Timer : ~(left[t] > -MaxLate)
      /\ UNCHANGED <<count, timerlist, start, next_expiration, polled, pc, at, left, astray>>
  <2>1. ~(-MaxLate > -MaxLate)
    BY ClockAssumption
  <2> QED BY <2>1 DEF EarlySet, Quiet, clock
<1>2. interval' \in [Timer -> 0..MaxLeft]
  <2>1. PICK c \in Ctimer, i \in Interval : interval' = [interval EXCEPT ![c] = i]
    BY DEF EarlySet
  <2>2. i \in 0..MaxLeft
    BY DEF Comparable
  <2> QED BY <2>1, <2>2 DEF Timely
<1>3. Elements(timerlist') = {}
  BY <1>1 DEF Elements
<1>4. Timely'
  BY <1>1, <1>2, <1>3 DEF Timely, WasSet
<1>5. NoticeInv'
  BY <1>1 DEF NoticeInv, LateCovered, NextIs
<1> QED BY <1>4, <1>5

\* etimer.c with the interrupt handler of the MSP430, which polls when next_expiration is
\* reached: a timer that is due always has a poll, the loop or the next tick before it, also
\* after processes exited and while the queue is full, for any number of timers, if intervals
\* and delays stay below half the range of the clock and etimer_adjust() is not called.
THEOREM DueIsAlwaysNoticed == ASSUME Comparable PROVE CtimerSpec => []DueIsNoticed
<1> DEFINE Inv == ListOK /\ Timely /\ NoticeInv /\ Quiet
<1>1. CtimerInit => Inv
  BY ListStarts, TimeStarts, NoticeStarts DEF CtimerInit, Init, Quiet
<1>2. ASSUME Inv, [CtimerNext]_<<vars, ctimer>> PROVE Inv'
  <2>1. ListOK' /\ Quiet'
    BY <1>2, CtimerStepKeepsList, CtimerStepKeepsQuiet
  <2>2. CASE [Next]_vars
    BY <1>2, <2>1, <2>2, ComparableSizes, StepKeepsTime, StepKeepsNotice
  <2>3. CASE EarlySet
    BY <1>2, <2>1, <2>3, EarlySetKeeps
  <2> QED BY <1>2, <2>2, <2>3, CtimerStepIsNext
<1>3. Inv => DueIsNoticed
  BY DEF NoticeInv, LateCovered, DueIsNoticed
<1> HIDE DEF Inv
<1> QED
  BY <1>1, <1>2, <1>3, PTL DEF CtimerSpec
================================================================================
