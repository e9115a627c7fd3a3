----------------------------- MODULE RTimerProofs -----------------------------
(***************************************************************************)
(* Theorems about the ring of real-time tasks, for any number of tasks and *)
(* slots, with the interrupt between any two statements of rtimer_set().   *)
(***************************************************************************)
EXTENDS RTimer, FiniteSetTheorems, WellFoundedInduction, TLAPS

\* A set of numbers has a least one.
LEMMA LeastNumber ==
  ASSUME NEW T \in SUBSET Nat, T # {}
  PROVE  \E x \in T : \A y \in T : x <= y
<1> DEFINE R == {r \in Nat \X Nat : r[1] < r[2]}
<1>1. IsWellFoundedOn(R, Nat)
  BY NatLessThanWellFounded, Zenon DEF OpToRel
<1>2. \A x, y \in Nat : <<x, y>> \notin R => y <= x
  OBVIOUS
<1> HIDE DEF R
<1>3. PICK x \in T : \A y \in T : ~(<<y, x>> \in R)
  BY <1>1, WFMin
<1> QED BY <1>2, <1>3

\* What is given by a first value and the step from each value to the next exists.
LEMMA Iterates ==
  ASSUME NEW n \in Nat, NEW m \in Nat, NEW a \in 0..m,
         NEW step \in [1..n -> [0..m -> 0..m]]
  PROVE  \E f \in [0..n -> 0..m] : f[0] = a /\ \A k \in 1..n : f[k] = step[k][f[k - 1]]
<1> DEFINE S == 0..m
<1>0. a \in S /\ step \in [1..n -> [S -> S]]
  OBVIOUS
<1>a. SUFFICES \E f \in [0..n -> S] : f[0] = a /\ \A k \in 1..n : f[k] = step[k][f[k - 1]]
  OBVIOUS
<1> HIDE DEF S
<1> DEFINE Is(f, j) == f[0] = a /\ \A k \in 1..j : f[k] = step[k][f[k - 1]]
           There(j) == \E f \in [0..j -> S] : Is(f, j)
           Missing == {j \in 0..n : ~There(j)}
<1>1. SUFFICES ASSUME Missing # {} PROVE FALSE
  <2> HIDE DEF There
  <2>1. ASSUME Missing = {} PROVE There(n)
    <3>1. n \in 0..n
      OBVIOUS
    <3> QED BY <2>1, <3>1
  <2> QED BY <2>1 DEF There
<1>2. PICK p \in Missing : \A k \in Missing : p <= k
  <2>1. Missing \subseteq Nat
    OBVIOUS
  <2> HIDE DEF Missing
  <2> QED BY <1>1, <2>1, LeastNumber
<1>3. CASE p = 0
  <2> DEFINE f == [i \in 0..0 |-> a]
  <2>1. f \in [0..0 -> S] /\ Is(f, 0)
    BY <1>0
  <2> QED BY <1>2, <1>3, <2>1
<1>4. CASE p # 0
  <2>1. p \in Nat /\ p \in 1..n /\ p - 1 \in 0..n /\ p - 1 \notin Missing
    <3> HIDE DEF There
    <3>1. p \in 0..n
      OBVIOUS
    <3>2. p - 1 \in 0..n /\ ~(p <= p - 1)
      BY <1>4, <3>1
    <3> QED BY <1>2, <1>4, <3>1, <3>2
  <2>2. PICK g \in [0..(p - 1) -> S] : Is(g, p - 1)
    BY <2>1
  <2> DEFINE last == step[p][g[p - 1]]
             f == [i \in 0..p |-> IF i = p THEN last ELSE g[i]]
  <2>3. last \in S
    <3>1. step[p] \in [S -> S]
      BY <1>0, <2>1
    <3>2. p - 1 \in 0..(p - 1)
      BY <2>1
    <3>3. g[p - 1] \in S
      BY <2>2, <3>2
    <3> QED BY <3>1, <3>3
  <2>4. f \in [0..p -> S] /\ f[0] = a /\ f[p] = last /\ f[p - 1] = g[p - 1]
    BY <1>4, <2>1, <2>2, <2>3
  <2>5. ASSUME NEW k \in 1..p PROVE f[k] = step[k][f[k - 1]]
    <3>1. CASE k = p
      BY <2>4, <3>1
    <3>2. CASE k # p
      <4>1. k \in 1..(p - 1) /\ k \in 0..p /\ k - 1 \in 0..p /\ k - 1 # p
        BY <2>1, <3>2
      <4>2. f[k] = g[k] /\ f[k - 1] = g[k - 1]
        BY <3>2, <4>1
      <4> QED BY <2>2, <4>1, <4>2
    <3> QED BY <3>1, <3>2
  <2> QED BY <1>2, <2>4, <2>5
<1> QED BY <1>3, <1>4

--------------------------------------------------------------------------------
(* The invariant.                                                               *)

\* The slots from f up to g, not g itself, around the ring.
Between(f, i, g) == IF f <= g THEN f <= i /\ i < g ELSE f <= i \/ i < g

OneTaskEach == \A i, j \in Queued : rtimers[i] = rtimers[j] => i = j
Holds(r) == \E i \in Queued : rtimers[i] = r

\* What an activation has made sure of.
ActivationOK(a) ==
  /\ a.pc # "idle" => a.r \in Timer
  /\ a.pc = "scan" =>
       /\ a.i \in Queued \cup {firstempty}
       /\ \A j \in Slot : Between(next, j, a.i) => rtimers[j] # a.r
  /\ a.pc \in {"store", "advance"} => ~Holds(a.r)
  /\ a.pc = "advance" => rtimers[firstempty] = a.r
  /\ a.pc \in {"scan", "store", "advance"} => ~NoRoom
  /\ a.pc = "program" => Alone

\* The callback is inside rtimer_set() only in the handler, and may still take a slot.
Inside == set["isr"].pc # "idle" => isr = "setting"
MayTake == isr = "callback" \/ set["isr"].pc \in {"check", "scan", "store", "advance"}

\* Where the main program may be while the handler runs, and what the two leave for
\* each other: another slot, another task.
TwoContexts ==
  /\ set["main"].pc \in {"scan", "program"} => isr = "idle"
  /\ set["main"].pc \in {"store", "advance"} /\ MayTake => NextSlot(NextSlot(firstempty)) # next
  /\ set["isr"].pc = "advance" =>
       /\ set["main"].pc # "advance"
       /\ set["main"].pc = "store" => set["main"].r # set["isr"].r

Contexts == Inside /\ TwoContexts /\ \A c \in Context : ActivationOK(set[c])
RingInv == TypeOK /\ RingHoldsAccepted /\ BallKeepsRolling

\* When something is hit the ring itself is still sound.
Followed == RingInv /\ (hit \/ Contexts)

--------------------------------------------------------------------------------
(* Slots.                                                                       *)

LEMMA NextFacts ==
  ASSUME NEW i \in Slot
  PROVE  NextSlot(i) \in Slot /\ NextSlot(i) = IF i = ListSize - 1 THEN 0 ELSE i + 1
<1>1. ListSize \in Nat /\ ListSize > 1 /\ i \in Nat
  BY SizeAssumption DEF Slot
<1>2. CASE i = ListSize - 1
  <2>1. (i + 1) % ListSize = 0
    BY <1>1, <1>2
  <2> QED BY <1>1, <1>2, <2>1 DEF NextSlot, Slot
<1>3. CASE i # ListSize - 1
  <2>1. i + 1 \in 0..(ListSize - 1)
    BY <1>1, <1>3 DEF Slot
  <2>2. (i + 1) % ListSize = i + 1
    BY <1>1, <2>1
  <2> QED BY <1>3, <2>1, <2>2 DEF NextSlot, Slot
<1> QED BY <1>2, <1>3

LEMMA NextInjective ==
  ASSUME NEW i \in Slot, NEW j \in Slot, NextSlot(i) = NextSlot(j)
  PROVE  i = j
<1>1. /\ NextSlot(i) = IF i = ListSize - 1 THEN 0 ELSE i + 1
      /\ NextSlot(j) = IF j = ListSize - 1 THEN 0 ELSE j + 1
  BY NextFacts
<1>2. ListSize \in Nat /\ i \in 0..(ListSize - 1) /\ j \in 0..(ListSize - 1)
  BY SizeAssumption DEF Slot
<1>3. (IF i = ListSize - 1 THEN 0 ELSE i + 1) = (IF j = ListSize - 1 THEN 0 ELSE j + 1)
  BY <1>1
<1> QED
  BY <1>2, <1>3

LEMMA QueueFacts ==
  ASSUME next \in Slot, firstempty \in Slot
  PROVE  /\ Queued \subseteq Slot /\ firstempty \notin Queued
         /\ next # firstempty <=> next \in Queued
         /\ \A j \in Slot : j \in Queued <=> Between(next, j, firstempty)
<1>1. next \in Nat /\ firstempty \in Nat /\ \A j \in Slot : j \in Nat
  BY SizeAssumption DEF Slot
<1> QED
  BY <1>1 DEF Queued, InQueue, Between

\* The loop of rtimer_set() goes on to a queued slot or reaches the end.
LEMMA ScanFacts ==
  ASSUME next \in Slot, firstempty \in Slot, NEW i \in Queued
  PROVE  /\ NextSlot(i) \in Queued \cup {firstempty}
         /\ \A j \in Slot : Between(next, j, NextSlot(i)) => j = i \/ Between(next, j, i)
<1>1. i \in Slot /\ NextSlot(i) \in Slot /\ NextSlot(i) = IF i = ListSize - 1 THEN 0 ELSE i + 1
  BY NextFacts DEF Queued
<1>2. /\ ListSize \in Nat /\ next \in 0..(ListSize - 1) /\ firstempty \in 0..(ListSize - 1)
      /\ i \in 0..(ListSize - 1) /\ InQueue(i)
  BY <1>1, SizeAssumption DEF Slot, Queued
<1> DEFINE k == NextSlot(i)
<1> HIDE DEF k
<1>3. k \in 0..(ListSize - 1) /\ k = IF i = ListSize - 1 THEN 0 ELSE i + 1
  BY <1>1 DEF k, Slot
<1>4. k = firstempty \/ InQueue(k)
  BY <1>2, <1>3 DEF InQueue
<1>5. ASSUME NEW j \in 0..(ListSize - 1), Between(next, j, k) PROVE j = i \/ Between(next, j, i)
  BY <1>2, <1>3, <1>5 DEF InQueue, Between
<1> QED
  BY <1>1, <1>4, <1>5 DEF Queued, Slot, k

\* The slot at firstempty joins the queue, unless the ring was full.
LEMMA AdvanceFacts ==
  ASSUME next \in Slot, firstempty \in Slot, next' = next, firstempty' = NextSlot(firstempty),
         NextSlot(firstempty) # next
  PROVE  Queued' = Queued \cup {firstempty} /\ firstempty' \in Slot
<1>1. /\ firstempty' \in Slot
      /\ firstempty' = IF firstempty = ListSize - 1 THEN 0 ELSE firstempty + 1
  BY NextFacts
<1>2. /\ ListSize \in Nat /\ next \in 0..(ListSize - 1) /\ firstempty \in 0..(ListSize - 1)
  BY SizeAssumption DEF Slot
<1>3. ASSUME NEW j \in 0..(ListSize - 1) PROVE InQueue(j)' <=> InQueue(j) \/ j = firstempty
  BY <1>1, <1>2 DEF InQueue
<1> QED
  BY <1>1, <1>3 DEF Queued, Slot

\* The front leaves the queue.
LEMMA TakeFacts ==
  ASSUME next \in Slot, firstempty \in Slot, firstempty' = firstempty, next' = NextSlot(next),
         next # firstempty
  PROVE  Queued' = Queued \ {next} /\ next' \in Slot
<1>1. next' \in Slot /\ next' = IF next = ListSize - 1 THEN 0 ELSE next + 1
  BY NextFacts
<1>2. /\ ListSize \in Nat /\ next \in 0..(ListSize - 1) /\ firstempty \in 0..(ListSize - 1)
  BY SizeAssumption DEF Slot
<1>3. ASSUME NEW j \in 0..(ListSize - 1) PROVE InQueue(j)' <=> InQueue(j) /\ j # next
  BY <1>1, <1>2 DEF InQueue
<1> QED
  BY <1>1, <1>3 DEF Queued, Slot

--------------------------------------------------------------------------------
(* Activations of rtimer_set().                                                 *)

LEMMA ClockFacts == \A a \in Nat : a % Wrap \in Clock
<1>1. Wrap \in Nat /\ Wrap > 0
  BY ClockAssumption
<1>2. \A a \in Nat : a % Wrap \in 0..(Wrap - 1)
  BY <1>1
<1> QED BY <1>2 DEF Clock

\* The context that goes on; the main program does so only while no handler runs.
LEMMA SetTyped ==
  ASSUME RingInv, Contexts, NEW c \in Context, Running(c), set[c].pc # "idle", NEW a \in Activation,
         set' = [set EXCEPT ![c] = a], isr' = isr
  PROVE  /\ set' \in [Context -> Activation] /\ set'[c] = a /\ Inside'
         /\ \A k \in Context \ {c} : set'[k] = set[k]
         /\ c = "main" => isr = "idle" /\ set["isr"].pc = "idle"
         /\ c = "isr" => isr = "setting"
         /\ \A k \in Context \ {c} : set[k].pc # "idle" => c = "isr" /\ k = "main"
<1>1. set \in [Context -> Activation] /\ Inside
  BY DEF RingInv, TypeOK, Contexts
<1>2. /\ set' \in [Context -> Activation] /\ set'[c] = a
      /\ \A k \in Context \ {c} : set'[k] = set[k]
  BY <1>1
<1>3. /\ c = "main" => isr = "idle" /\ set["isr"].pc = "idle"
      /\ c = "isr" => isr = "setting"
  BY <1>1 DEF Inside, Running
<1>4. Inside'
  BY <1>1, <1>2, <1>3 DEF Inside, Context
<1> QED
  BY <1>2, <1>3, <1>4 DEF Context

LEMMA IdleFacts ==
  /\ Idle \in Activation /\ Idle.pc = "idle"
  /\ ActivationOK(Idle) /\ \A a : a.pc = "idle" => ActivationOK(a)
<1>1. 0 \in Clock /\ 0 \in Slot
  BY ClockAssumption, SizeAssumption DEF Clock, Slot
<1> QED
  BY <1>1 DEF Idle, Activation, Step, ActivationOK

--------------------------------------------------------------------------------
(* The loop that looks for the next task to program.                            *)

Position(k) == (next + k) % ListSize
Best(g, k) ==
  IF k = 0 THEN next
  ELSE IF ~InQueue(Position(k)) THEN g[k - 1]
  ELSE IF Before(time[rtimers[Position(k)]], time[rtimers[g[k - 1]]]) THEN Position(k)
  ELSE g[k - 1]

\* The function of Earliest is what its equations say.
LEMMA BestExists ==
  ASSUME TypeOK
  PROVE  \E f : f = [k \in Slot |-> Best(f, k)]
<1> DEFINE n == ListSize - 1
           Better(k, x) ==
             IF ~InQueue(Position(k)) THEN x
             ELSE IF Before(time[rtimers[Position(k)]], time[rtimers[x]]) THEN Position(k)
             ELSE x
           step == [k \in 1..n |-> [x \in Slot |-> Better(k, x)]]
<1>1. n \in Nat /\ Slot = 0..n /\ next \in Slot
  BY SizeAssumption DEF TypeOK, Slot
<1>2. ASSUME NEW k \in 1..n, NEW x \in Slot PROVE Better(k, x) \in Slot
  <2>1. next + k \in Nat /\ ListSize \in Nat \ {0}
    BY <1>1, SizeAssumption
  <2>2. (next + k) % ListSize \in 0..(ListSize - 1)
    BY <2>1
  <2> QED BY <2>2 DEF Position, Slot
<1> HIDE DEF Better
<1>3. step \in [1..n -> [0..n -> 0..n]]
  BY <1>1, <1>2
<1>4. \A k \in 1..n : \A x \in Slot : step[k][x] = Better(k, x)
  OBVIOUS
<1> HIDE DEF step, n
<1>5. PICK f \in [0..n -> 0..n] : f[0] = next /\ \A k \in 1..n : f[k] = step[k][f[k - 1]]
  <2>1. n \in Nat /\ next \in 0..n
    BY <1>1
  <2> QED BY <2>1, <1>3, Iterates, Zenon
<1>6. ASSUME NEW k \in Slot PROVE f[k] = Best(f, k)
  <2>1. CASE k = 0
    BY <1>5, <2>1 DEF Best
  <2>2. CASE k # 0
    <3>1. k \in 1..n /\ k - 1 \in 0..n
      BY <1>1, <2>2
    <3>2. f[k - 1] \in Slot /\ f[k] = step[k][f[k - 1]]
      BY <1>1, <1>5, <3>1
    <3>3. f[k] = Better(k, f[k - 1])
      BY <1>4, <3>1, <3>2
    <3> QED BY <2>2, <3>3 DEF Best, Better
  <2> QED BY <2>1, <2>2
<1>7. f = [k \in Slot |-> f[k]]
  BY <1>1
<1> QED
  BY <1>6, <1>7

LEMMA EarliestQueued ==
  ASSUME TypeOK, next # firstempty
  PROVE  Earliest \in Queued
<1> DEFINE best == CHOOSE f : f = [k \in Slot |-> Best(f, k)]
<1>1. best = [k \in Slot |-> Best(best, k)]
  <2>1. \E f : f = [k \in Slot |-> Best(f, k)]
    BY BestExists
  <2> QED BY <2>1
<1>2. Earliest = best[ListSize - 1]
  BY DEF Earliest, Best, Position
<1> HIDE DEF best
<1>3. ListSize - 1 \in Slot /\ next \in Queued /\ Slot \subseteq Nat
  BY QueueFacts, SizeAssumption DEF TypeOK, Slot
<1> DEFINE Out == {k \in Slot : best[k] \notin Queued}
<1>4. SUFFICES ASSUME Out # {} PROVE FALSE
  BY <1>2, <1>3
<1>5. PICK k \in Out : \A j \in Out : k <= j
  <2>1. Out \in SUBSET Nat
    BY <1>3
  <2> HIDE DEF Out
  <2> QED BY <1>4, <2>1, LeastNumber
<1>6. best[k] = Best(best, k) /\ k \in Slot /\ best[k] \notin Queued
  BY <1>1, <1>5
<1>7. k # 0
  BY <1>3, <1>6 DEF Best
<1>8. k - 1 \in Slot /\ ~(k <= k - 1)
  BY <1>6, <1>7, SizeAssumption DEF Slot
<1>9. best[k - 1] \in Queued
  BY <1>5, <1>8
<1>10. InQueue(Position(k)) /\ best[k] = Position(k)
  BY <1>6, <1>7, <1>9 DEF Best
<1>11. Position(k) \in Slot
  <2>1. next + k \in Nat /\ ListSize \in Nat \ {0}
    BY <1>3, <1>6, SizeAssumption DEF Queued
  <2>2. (next + k) % ListSize \in 0..(ListSize - 1)
    BY <2>1
  <2> QED BY <2>2 DEF Position, Slot
<1> QED
  BY <1>6, <1>10, <1>11 DEF Queued

--------------------------------------------------------------------------------
(* What every step keeps.                                                       *)

\* A step that leaves the ring alone leaves alone what is said of it.
LEMMA RingFrame ==
  ASSUME UNCHANGED ring
  PROVE  /\ Queued' = Queued /\ \A a : ActivationOK(a)' <=> ActivationOK(a)
         /\ (accepted' = accepted /\ RingHoldsAccepted) => RingHoldsAccepted'
<1>1. rtimers' = rtimers /\ next' = next /\ firstempty' = firstempty
  BY DEF ring
<1>2. Queued' = Queued
  BY <1>1 DEF Queued, InQueue
<1>3. ASSUME NEW a PROVE ActivationOK(a)' <=> ActivationOK(a)
  <2>1. (NoRoom' <=> NoRoom) /\ (Alone' <=> Alone) /\ (Holds(a.r)' <=> Holds(a.r))
    BY <1>1, <1>2 DEF NoRoom, Alone, NextSlot, Holds
  <2> QED BY <1>1, <1>2, <2>1 DEF ActivationOK
<1> QED
  BY <1>1, <1>2, <1>3 DEF RingHoldsAccepted

LEMMA Activations ==
  ASSUME RingInv, NEW c \in Context
  PROVE  /\ set[c] \in Activation /\ set[c] = [pc |-> set[c].pc, r |-> set[c].r, t |-> set[c].t, i |-> set[c].i]
         /\ set[c].pc \in Step /\ set[c].r \in Timer \cup {NULL}
         /\ set[c].t \in Clock /\ set[c].i \in Slot
  BY DEF RingInv, TypeOK, Activation

\* A step in rtimer_set() that leaves the ring alone.
LEMMA ContextsKept ==
  ASSUME RingInv, Contexts, NEW c \in Context, Running(c), set[c].pc # "idle", NEW a \in Activation,
         set' = [set EXCEPT ![c] = a], isr' = isr, UNCHANGED ring, ActivationOK(a),
         a.pc \in {"scan", "store"} => set[c].pc \in {"check", "scan"},
         a.pc \notin {"check", "advance"}
  PROVE  Contexts'
<1>1. /\ set' \in [Context -> Activation] /\ set'[c] = a /\ Inside'
      /\ \A k \in Context \ {c} : set'[k] = set[k]
      /\ c = "main" => isr = "idle" /\ set["isr"].pc = "idle"
      /\ c = "isr" => isr = "setting"
  BY SetTyped
<1>2. \A x : ActivationOK(x)' <=> ActivationOK(x)
  BY RingFrame
<1>3. ASSUME NEW k \in Context PROVE ActivationOK(set[k])'
  <2> PICK x : x = set'[k]
    OBVIOUS
  <2>1. ActivationOK(x)
    BY <1>1 DEF Contexts
  <2>2. ActivationOK(x)'
    BY <1>2, <2>1
  <2> QED BY <2>2 DEF ActivationOK
<1>4. TwoContexts'
  <2>1. CASE c = "main"
    BY <1>1, <2>1 DEF TwoContexts, MayTake, Context
  <2>2. CASE c = "isr"
    <3>1. /\ set'["main"] = set["main"] /\ set'["isr"] = a /\ isr' = "setting" /\ isr = "setting"
          /\ next' = next /\ firstempty' = firstempty
      BY <1>1, <2>2 DEF Context, ring
    <3>2. MayTake' => MayTake
      BY <2>2, <3>1 DEF MayTake
    <3> QED BY <3>1, <3>2 DEF Contexts, TwoContexts, NextSlot
  <2> QED BY <2>1, <2>2 DEF Context
<1> QED
  BY <1>1, <1>3, <1>4 DEF Contexts

\* A step before "schedule" need not care for the interrupt as long as it keeps the
\* front and its time.
LEMMA BallKept ==
  ASSUME RingInv, Contexts, NEW c \in Context, Running(c), set[c].pc \in {"check", "scan", "store"},
         next' = next, firstempty' = firstempty, isr' = isr, hardware' = hardware,
         next # firstempty => time'[rtimers'[next]] = time[rtimers[next]]
  PROVE  BallKeepsRolling'
<1>1. CASE isr # "idle"
  BY <1>1 DEF BallKeepsRolling
<1>2. CASE isr = "idle"
  <2>1. \A k \in Context : set[k].pc \notin {"schedule", "program"}
    BY <1>2 DEF Contexts, Inside, Context, Running
  <2> QED BY <1>2, <2>1 DEF RingInv, BallKeepsRolling, hardware
<1> QED BY <1>1, <1>2

LEMMA CheckKeeps ==
  ASSUME RingInv, Contexts, NEW c \in Context, Check(c)
  PROVE  Followed'
<1> DEFINE a == IF Full THEN Idle ELSE [set[c] EXCEPT !.pc = "scan", !.i = next]
<1>1. /\ Running(c) /\ set[c].pc = "check" /\ set' = [set EXCEPT ![c] = a]
      /\ UNCHANGED <<ring, time, isr, current, now, hardware, accepted>>
      /\ hit' = (NoRoom /\ ~Full)
  BY DEF Check
<1>2. TypeOK /\ next \in Slot /\ firstempty \in Slot /\ set[c].r \in Timer
  BY <1>1, Activations DEF RingInv, Contexts, TypeOK, ActivationOK
<1>3. a \in Activation
  BY <1>2, Activations, IdleFacts DEF Activation, Step
<1>4. a.pc \in {"idle", "scan"} /\ (~(NoRoom /\ ~Full) => ActivationOK(a))
  <2>1. CASE Full
    BY <2>1, IdleFacts
  <2>2. CASE ~Full
    <3>1. a.pc = "scan" /\ a.r = set[c].r /\ a.i = next
      BY <2>2, Activations
    <3>2. next \in Queued \cup {firstempty}
      BY <1>2, QueueFacts
    <3>3. \A j \in Slot : ~Between(next, j, next)
      BY <1>2, SizeAssumption DEF Between, Slot
    <3> QED BY <1>2, <2>2, <3>1, <3>2, <3>3 DEF ActivationOK
  <2> QED BY <2>1, <2>2
<1> HIDE DEF a
<1> PICK x : x = a
  OBVIOUS
<1>5. RingHoldsAccepted' /\ set' \in [Context -> Activation]
  BY <1>1, <1>3, RingFrame, SetTyped DEF RingInv
<1>6. hit' \/ Contexts'
  <2>1. CASE NoRoom /\ ~Full
    BY <1>1, <2>1
  <2>2. CASE ~(NoRoom /\ ~Full)
    <3>1. /\ set' = [set EXCEPT ![c] = x] /\ isr' = isr /\ UNCHANGED ring
          /\ x \in Activation /\ x.pc \in {"idle", "scan"} /\ ActivationOK(x)
          /\ Running(c) /\ set[c].pc = "check"
      BY <1>1, <1>3, <1>4, <2>2
    <3> QED BY <3>1, ContextsKept
  <2> QED BY <2>1, <2>2
<1>7. BallKeepsRolling'
  BY <1>1, BallKept DEF ring
<1>8. TypeOK'
  <2>1. hit' \in BOOLEAN
    BY <1>1, Zenon
  <2> QED BY <1>1, <1>2, <1>5, <2>1 DEF TypeOK, ring, hardware
<1> QED
  BY <1>5, <1>6, <1>7, <1>8 DEF RingInv, Followed

LEMMA ScanKeeps ==
  ASSUME RingInv, Contexts, NEW c \in Context, Scan(c)
  PROVE  Followed'
<1> DEFINE s == set[c]
           a == IF s.i = firstempty THEN [s EXCEPT !.pc = "store"]
                ELSE IF Already(s.i, s.r) \/ SameTime(s.i, s.t) THEN Idle
                ELSE [s EXCEPT !.i = NextSlot(s.i)]
<1>1. /\ Running(c) /\ set[c].pc = "scan" /\ set' = [set EXCEPT ![c] = a]
      /\ UNCHANGED <<ring, time, isr, current, now, hardware, accepted, hit>>
  BY DEF Scan
<1>2. /\ TypeOK /\ next \in Slot /\ firstempty \in Slot /\ s.r \in Timer
      /\ s.i \in Queued \cup {firstempty} /\ ~NoRoom
      /\ \A j \in Slot : Between(next, j, s.i) => rtimers[j] # s.r
  BY <1>1, Activations DEF RingInv, Contexts, TypeOK, ActivationOK
<1>3. a \in Activation
  <2>1. NextSlot(s.i) \in Slot
    BY <1>1, Activations, NextFacts
  <2> QED
    BY <1>2, <2>1, Activations, IdleFacts DEF Activation, Step
<1>4. a.pc \in {"idle", "scan", "store"} /\ ActivationOK(a)
  <2>1. CASE s.i = firstempty
    <3>1. a.pc = "store" /\ a.r = s.r
      BY <2>1, Activations
    <3>2. ~Holds(s.r)
      BY <1>2, <2>1, QueueFacts DEF Holds
    <3> QED BY <1>2, <3>1, <3>2 DEF ActivationOK
  <2>2. CASE s.i # firstempty /\ (Already(s.i, s.r) \/ SameTime(s.i, s.t))
    BY <2>2, IdleFacts
  <2>3. CASE s.i # firstempty /\ ~(Already(s.i, s.r) \/ SameTime(s.i, s.t))
    <3>1. a.pc = "scan" /\ a.r = s.r /\ a.i = NextSlot(s.i) /\ rtimers[s.i] # s.r
      BY <1>1, <2>3, Activations DEF Already
    <3>2. s.i \in Queued
      BY <1>2, <2>3
    <3> HIDE DEF a
    <3>3. /\ NextSlot(s.i) \in Queued \cup {firstempty}
          /\ \A j \in Slot : Between(next, j, NextSlot(s.i)) => j = s.i \/ Between(next, j, s.i)
      BY <1>2, <3>2, ScanFacts
    <3> QED BY <1>2, <3>1, <3>3 DEF ActivationOK
  <2> QED BY <2>1, <2>2, <2>3
<1> HIDE DEF a, s
<1> PICK x : x = a
  OBVIOUS
<1>5. RingHoldsAccepted' /\ set' \in [Context -> Activation]
  BY <1>1, <1>3, RingFrame, SetTyped DEF RingInv
<1>6. Contexts'
  <2>1. /\ set' = [set EXCEPT ![c] = x] /\ isr' = isr /\ UNCHANGED ring
        /\ x \in Activation /\ x.pc \in {"idle", "scan", "store"} /\ ActivationOK(x)
        /\ Running(c) /\ set[c].pc = "scan"
    BY <1>1, <1>3, <1>4
  <2> QED BY <2>1, ContextsKept
<1>7. BallKeepsRolling'
  BY <1>1, BallKept DEF ring
<1>8. TypeOK'
  BY <1>1, <1>2, <1>5 DEF TypeOK, ring, hardware
<1> QED
  BY <1>5, <1>6, <1>7, <1>8 DEF RingInv, Followed

LEMMA StoreKeeps ==
  ASSUME RingInv, Contexts, NEW c \in Context, Store(c)
  PROVE  Followed'
<1> PICK s : s = set[c]
  OBVIOUS
<1> PICK a : a = [s EXCEPT !.pc = "advance"]
  OBVIOUS
<1>1. /\ Running(c) /\ s.pc = "store" /\ set' = [set EXCEPT ![c] = a]
      /\ time' = [time EXCEPT ![s.r] = s.t] /\ rtimers' = [rtimers EXCEPT ![firstempty] = s.r]
      /\ UNCHANGED <<next, firstempty, isr, current, now, hardware, accepted>>
      /\ hit' = Collides(c)
  BY DEF Store
<1>2. /\ TypeOK /\ next \in Slot /\ firstempty \in Slot /\ s.r \in Timer /\ ~Holds(s.r) /\ ~NoRoom
  BY <1>1, Activations DEF RingInv, Contexts, TypeOK, ActivationOK
<1>3. a \in Activation /\ a.pc = "advance" /\ a.r = s.r
  BY <1>2, Activations DEF Activation, Step
<1>4. /\ Queued' = Queued /\ firstempty \notin Queued /\ Queued \subseteq Slot
      /\ next # firstempty => next \in Queued
  <2>1. Queued' = Queued
    BY <1>1 DEF Queued, InQueue
  <2> QED BY <1>2, <2>1, QueueFacts
<1>5. /\ rtimers' \in [Slot -> Timer \cup {NULL}] /\ rtimers'[firstempty] = s.r
      /\ \A i \in Queued : rtimers'[i] = rtimers[i]
  BY <1>1, <1>2, <1>4 DEF TypeOK
<1>6. /\ \A r : Holds(r)' <=> Holds(r)
      /\ NoRoom' <=> NoRoom
  BY <1>1, <1>4, <1>5 DEF Holds, NoRoom, NextSlot
<1>7. RingHoldsAccepted'
  BY <1>1, <1>4, <1>5 DEF RingInv, RingHoldsAccepted
<1>8. /\ set' \in [Context -> Activation] /\ set'[c] = a /\ Inside'
      /\ \A k \in Context \ {c} : set'[k] = set[k]
      /\ c = "main" => isr = "idle" /\ set["isr"].pc = "idle"
      /\ c = "isr" => isr = "setting"
      /\ \A k \in Context \ {c} : set[k].pc # "idle" => c = "isr" /\ k = "main"
  BY <1>1, <1>3, SetTyped
<1>9. time' \in [Timer -> Clock]
  BY <1>1, <1>2, Activations DEF TypeOK
<1>10. next # firstempty => time'[rtimers'[next]] = time[rtimers[next]]
  <2>1. next # firstempty => rtimers[next] # s.r /\ rtimers'[next] = rtimers[next]
    BY <1>2, <1>4, <1>5 DEF Holds
  <2>2. next # firstempty => rtimers[next] \in Timer
    BY <1>2, <1>4 DEF RingInv, RingHoldsAccepted, TypeOK
  <2> QED BY <1>1, <1>2, <2>1, <2>2 DEF TypeOK
<1>11. BallKeepsRolling'
  BY <1>1, <1>10, BallKept
<1>12. TypeOK'
  <2>1. hit' \in BOOLEAN
    BY <1>1, Zenon DEF Collides
  <2> QED BY <1>1, <1>2, <1>5, <1>8, <1>9, <2>1 DEF TypeOK, hardware
<1>13. ASSUME ~Collides(c) PROVE Contexts'
  <2>1. ActivationOK(set[c])'
    BY <1>1, <1>2, <1>3, <1>5, <1>6, <1>8 DEF ActivationOK
  <2>2. ASSUME NEW k \in Context \ {c}, set[k].pc # "idle"
        PROVE  c = "isr" /\ k = "main" /\ set[k].pc \notin {"scan", "program", "advance"}
    BY <1>8, <1>13, <2>2 DEF Contexts, TwoContexts, Collides
  <2>3. ASSUME NEW k \in Context \ {c} PROVE ActivationOK(set[k])'
    <3>1. set'[k] = set[k] /\ ActivationOK(set[k])
      BY <1>8 DEF Contexts
    <3>2. CASE set[k].pc = "idle"
      BY <3>1, <3>2 DEF ActivationOK
    <3>3. CASE set[k].pc # "idle"
      BY <1>6, <2>2, <3>1, <3>3 DEF ActivationOK
    <3> QED BY <3>2, <3>3
  <2>4. TwoContexts'
    <3>1. CASE c = "main"
      BY <1>1, <1>8, <3>1 DEF TwoContexts, MayTake, Context
    <3>2. CASE c = "isr"
      <4>1. /\ set'["main"] = set["main"] /\ set'["isr"] = a /\ set["isr"] = s /\ isr' = "setting"
            /\ next' = next /\ firstempty' = firstempty /\ MayTake
        BY <1>1, <1>8, <3>2 DEF Context, MayTake
      <4>2. /\ set["main"].pc # "advance"
            /\ set["main"].pc = "store" => set["main"].r # s.r
        BY <1>13, <3>2, <4>1 DEF Collides
      <4> QED BY <1>3, <1>8, <3>2, <4>1, <4>2 DEF Contexts, TwoContexts, NextSlot
    <3> QED BY <3>1, <3>2 DEF Context
  <2> QED BY <1>8, <2>1, <2>3, <2>4 DEF Contexts
<1>14. hit' \/ Contexts'
  BY <1>1, <1>13
<1> QED
  BY <1>7, <1>11, <1>12, <1>14 DEF RingInv, Followed

LEMMA AdvanceKeeps ==
  ASSUME RingInv, Contexts, NEW c \in Context, Advance(c)
  PROVE  Followed'
<1> PICK s : s = set[c]
  OBVIOUS
<1> PICK a : a = [s EXCEPT !.pc = "schedule"]
  OBVIOUS
<1>1. /\ Running(c) /\ s.pc = "advance" /\ set' = [set EXCEPT ![c] = a]
      /\ firstempty' = NextSlot(firstempty) /\ accepted' = accepted \cup {s.r}
      /\ UNCHANGED <<rtimers, next, time, isr, current, now, hardware, hit>>
  BY DEF Advance
<1>2. /\ TypeOK /\ next \in Slot /\ firstempty \in Slot /\ s.r \in Timer /\ ~Holds(s.r)
      /\ rtimers[firstempty] = s.r /\ RingHoldsAccepted /\ ~NoRoom
  BY <1>1, Activations DEF RingInv, Contexts, TypeOK, ActivationOK
<1>3. a \in Activation /\ a.pc = "schedule" /\ a.r = s.r
  BY <1>2, Activations DEF Activation, Step
<1>4. /\ Queued' = Queued \cup {firstempty} /\ firstempty' \in Slot
      /\ firstempty \notin Queued /\ Queued \subseteq Slot
  <2>1. NextSlot(firstempty) # next
    BY <1>2 DEF NoRoom
  <2> QED BY <1>1, <1>2, <2>1, AdvanceFacts, QueueFacts
<1>6. RingHoldsAccepted'
  <2>1. {rtimers'[i] : i \in Queued'} = accepted'
    BY <1>1, <1>2, <1>4 DEF RingHoldsAccepted
  <2>2. ASSUME NEW i \in Queued', NEW j \in Queued', rtimers'[i] = rtimers'[j] PROVE i = j
    BY <1>1, <1>2, <1>4, <2>2 DEF RingHoldsAccepted, Holds
  <2> QED BY <2>1, <2>2 DEF RingHoldsAccepted
<1>7. /\ set' \in [Context -> Activation] /\ set'[c] = a /\ Inside'
      /\ \A k \in Context \ {c} : set'[k] = set[k]
      /\ c = "main" => isr = "idle" /\ set["isr"].pc = "idle"
      /\ c = "isr" => isr = "setting"
      /\ \A k \in Context \ {c} : set[k].pc # "idle" => c = "isr" /\ k = "main"
  BY <1>1, <1>3, SetTyped
<1>8. BallKeepsRolling'
  <2>1. CASE next = firstempty
    BY <1>1, <1>3, <1>7, <2>1 DEF BallKeepsRolling, Alone
  <2>2. CASE next # firstempty /\ c = "isr"
    BY <1>1, <1>7, <2>2 DEF BallKeepsRolling
  <2>3. CASE next # firstempty /\ c = "main"
    <3>1. isr = "idle" /\ \A k \in Context : set[k].pc \notin {"schedule", "program"}
      BY <1>1, <1>7, <2>3 DEF Context
    <3> QED BY <1>1, <2>3, <3>1 DEF RingInv, BallKeepsRolling, hardware
  <2> QED BY <2>1, <2>2, <2>3 DEF Context
<1>9. TypeOK'
  BY <1>1, <1>2, <1>4, <1>7 DEF TypeOK, hardware
<1>10. ActivationOK(set[c])'
  BY <1>2, <1>3, <1>7 DEF ActivationOK
<1>11. ASSUME NEW k \in Context \ {c} PROVE ActivationOK(set[k])'
  <2>1. set'[k] = set[k] /\ ActivationOK(set[k])
    BY <1>7 DEF Contexts
  <2>2. CASE set[k].pc = "idle"
    BY <2>1, <2>2 DEF ActivationOK
  <2>3. CASE set[k].pc # "idle"
    <3>1. c = "isr" /\ k = "main" /\ isr = "setting"
      BY <1>7, <2>3
    <3>2. set[k].pc \notin {"scan", "program", "advance"}
      BY <1>1, <3>1 DEF Contexts, TwoContexts
    <3>3. set[k].pc = "store" => s.r # set[k].r /\ NextSlot(NextSlot(firstempty)) # next
      BY <1>1, <3>1 DEF Contexts, TwoContexts, MayTake
    <3>4. set[k].pc = "store" => ~Holds(set[k].r)
      BY <2>1 DEF ActivationOK
    <3>5. set[k].pc = "store" => ~Holds(set[k].r)' /\ ~NoRoom'
      BY <1>1, <1>2, <1>4, <2>1, <3>3, <3>4 DEF Holds, NoRoom, NextSlot
    <3> QED BY <2>1, <3>2, <3>5 DEF ActivationOK
  <2> QED BY <2>2, <2>3
<1>12. TwoContexts'
  <2>1. CASE c = "main"
    BY <1>1, <1>7, <2>1 DEF TwoContexts, MayTake, Context
  <2>2. CASE c = "isr"
    BY <1>1, <1>3, <1>7, <2>2 DEF Contexts, TwoContexts, MayTake, Context
  <2> QED BY <2>1, <2>2 DEF Context
<1> QED
  BY <1>6, <1>7, <1>8, <1>9, <1>10, <1>11, <1>12 DEF RingInv, Followed, Contexts

LEMMA FrontTyped ==
  ASSUME RingInv, next # firstempty
  PROVE  rtimers[next] \in Timer /\ rtimers[next] \in accepted /\ time[rtimers[next]] \in Clock
<1>1. next \in Queued
  BY QueueFacts DEF RingInv, TypeOK
<1> QED
  BY <1>1 DEF RingInv, TypeOK, RingHoldsAccepted

LEMMA ScheduleKeeps ==
  ASSUME RingInv, Contexts, NEW c \in Context, Schedule(c)
  PROVE  Followed'
<1> DEFINE a == IF Alone THEN [set[c] EXCEPT !.pc = "program"] ELSE Idle
<1>1. /\ Running(c) /\ set[c].pc = "schedule" /\ set' = [set EXCEPT ![c] = a]
      /\ UNCHANGED <<ring, time, isr, current, now, hardware, accepted, hit>>
  BY DEF Schedule
<1>2. TypeOK /\ set[c].r \in Timer
  BY <1>1, Activations DEF RingInv, Contexts, ActivationOK
<1>3. a \in Activation /\ a.pc \in {"program", "idle"} /\ (Alone => a.pc = "program")
  BY <1>2, Activations, IdleFacts DEF Activation, Step
<1>4. ActivationOK(a)
  <2>1. CASE Alone
    <3>1. a.pc = "program" /\ a.r = set[c].r
      BY <2>1, Activations
    <3> QED BY <1>2, <2>1, <3>1 DEF ActivationOK
  <2>2. CASE ~Alone
    BY <2>2, IdleFacts
  <2> QED BY <2>1, <2>2
<1> HIDE DEF a
<1> PICK x : x = a
  OBVIOUS
<1>5. RingHoldsAccepted'
  BY <1>1, RingFrame DEF RingInv
<1>6. /\ set' \in [Context -> Activation] /\ set'[c] = a
      /\ \A k \in Context \ {c} : set'[k] = set[k]
      /\ c = "main" => isr = "idle" /\ set["isr"].pc = "idle"
      /\ c = "isr" => isr = "setting"
  BY <1>1, <1>3, SetTyped
<1>7. Contexts'
  <2>1. /\ set' = [set EXCEPT ![c] = x] /\ isr' = isr /\ UNCHANGED ring
        /\ x \in Activation /\ x.pc \in {"program", "idle"} /\ ActivationOK(x)
        /\ Running(c) /\ set[c].pc = "schedule"
    BY <1>1, <1>3, <1>4
  <2> QED BY <2>1, ContextsKept
<1>8. BallKeepsRolling'
  <2>1. CASE c = "isr"
    BY <1>1, <1>6, <2>1 DEF BallKeepsRolling
  <2>2. CASE c = "main" /\ Alone
    BY <1>3, <1>6, <2>2 DEF BallKeepsRolling
  <2>3. CASE c = "main" /\ ~Alone
    <3>1. \A k \in Context : set[k].pc # "program" /\ (set[k].pc = "schedule" => ~Alone)
      BY <1>1, <1>6, <2>3 DEF Context
    <3> QED BY <1>1, <1>6, <2>3, <3>1 DEF RingInv, BallKeepsRolling, ring, hardware
  <2> QED BY <2>1, <2>2, <2>3 DEF Context
<1>9. TypeOK'
  BY <1>1, <1>2, <1>6 DEF TypeOK, ring, hardware
<1> QED
  BY <1>5, <1>7, <1>8, <1>9 DEF RingInv, Followed

LEMMA ProgramKeeps ==
  ASSUME RingInv, Contexts, NEW c \in Context, Program(c)
  PROVE  Followed'
<1>1. /\ Running(c) /\ set[c].pc = "program" /\ set' = [set EXCEPT ![c] = Idle]
      /\ compare' = time[rtimers[next]] /\ flag' = FALSE /\ enabled' = TRUE
      /\ UNCHANGED <<ring, time, isr, current, now, accepted, hit>>
  BY DEF Program, rtimer_arch_schedule
<1>2. TypeOK /\ next \in Slot /\ firstempty \in Slot /\ Alone
  BY <1>1 DEF RingInv, TypeOK, Contexts, ActivationOK
<1> PICK x : x = Idle
  OBVIOUS
<1>3. x \in Activation /\ x.pc = "idle" /\ ActivationOK(x)
  BY IdleFacts
<1>4. RingHoldsAccepted'
  BY <1>1, RingFrame DEF RingInv
<1>5. Contexts' /\ set' \in [Context -> Activation]
  <2>1. /\ set' = [set EXCEPT ![c] = x] /\ isr' = isr /\ UNCHANGED ring
        /\ x \in Activation /\ x.pc = "idle" /\ ActivationOK(x)
        /\ Running(c) /\ set[c].pc = "program"
    BY <1>1, <1>3
  <2>2. Contexts'
    BY <2>1, ContextsKept
  <2>3. set' \in [Context -> Activation]
    BY <2>1, SetTyped
  <2> QED BY <2>2, <2>3
<1>6. next # firstempty
  <2>1. NextSlot(next) = IF next = ListSize - 1 THEN 0 ELSE next + 1
    BY <1>2, NextFacts
  <2>2. NextSlot(next) # next
    BY <1>2, <2>1, SizeAssumption DEF Slot
  <2> QED BY <1>2, <2>2 DEF Alone
<1>7. BallKeepsRolling'
  BY <1>1 DEF BallKeepsRolling, ring
<1>8. compare' \in Clock
  BY <1>1, <1>6, FrontTyped
<1>9. TypeOK'
  BY <1>1, <1>2, <1>5, <1>8 DEF TypeOK, ring
<1> QED
  BY <1>4, <1>5, <1>7, <1>9 DEF RingInv, Followed

\* A context calls rtimer_set(): the main program while no handler runs, or the callback.
LEMMA CallKeeps ==
  ASSUME RingInv, Contexts, NEW c \in Context, NEW r \in Timer, NEW t \in Clock, Call(c, r, t),
         set[c].pc = "idle", UNCHANGED <<ring, time, current, now, hardware, accepted, hit>>,
         \/ c = "main" /\ isr = "idle" /\ isr' = "idle"
         \/ c = "isr" /\ isr = "callback" /\ isr' = "setting"
  PROVE  Followed'
<1> PICK a : a = [pc |-> "check", r |-> r, t |-> t, i |-> 0]
  OBVIOUS
<1>1. set' = [set EXCEPT ![c] = a]
  BY DEF Call
<1>2. TypeOK /\ Inside /\ TwoContexts
  BY DEF RingInv, Contexts
<1>3. a \in Activation /\ a.pc = "check" /\ a.r \in Timer
  <2>1. 0 \in Slot
    BY SizeAssumption DEF Slot
  <2> QED BY <2>1 DEF Activation, Step
<1>4. ActivationOK(a)
  BY <1>3 DEF ActivationOK
<1>5. set' \in [Context -> Activation] /\ set'[c] = a /\ \A k \in Context \ {c} : set'[k] = set[k]
  BY <1>1, <1>2, <1>3 DEF TypeOK
<1>6. /\ RingHoldsAccepted' /\ \A x : ActivationOK(x)' <=> ActivationOK(x)
  BY RingFrame DEF RingInv
<1>7. ASSUME NEW k \in Context PROVE ActivationOK(set[k])'
  <2> PICK x : x = set'[k]
    OBVIOUS
  <2>1. ActivationOK(x)
    BY <1>4, <1>5 DEF Contexts
  <2>2. ActivationOK(x)'
    BY <1>6, <2>1
  <2> QED BY <2>2 DEF ActivationOK
<1>8. Inside' /\ TwoContexts'
  <2>1. next' = next /\ firstempty' = firstempty
    BY DEF ring
  <2>2. CASE c = "main"
    BY <1>2, <1>3, <1>5, <2>1, <2>2 DEF Inside, TwoContexts, MayTake, Context
  <2>3. CASE c = "isr"
    BY <1>2, <1>3, <1>5, <2>1, <2>3 DEF Inside, TwoContexts, MayTake, Context, NextSlot
  <2> QED BY <2>2, <2>3 DEF Context
<1>9. BallKeepsRolling'
  <2>1. \A k \in Context : set[k].pc \in {"schedule", "program"} => set'[k].pc = set[k].pc
    BY <1>5
  <2> QED BY <2>1 DEF RingInv, BallKeepsRolling, ring, hardware, Alone
<1>10. TypeOK'
  BY <1>2, <1>5 DEF TypeOK, ring, hardware
<1> QED
  BY <1>6, <1>7, <1>8, <1>9, <1>10 DEF RingInv, Followed, Contexts

LEMMA LaterIsClock ==
  ASSUME NEW t \in Clock, NEW d \in 1..MaxDelay
  PROVE  (t + d) % Wrap \in Clock
<1>1. t + d \in Nat
  BY ClockAssumption DEF Clock
<1> QED
  BY <1>1, ClockFacts

LEMMA MainSetKeeps ==
  ASSUME RingInv, Contexts, NEW r \in Timer, NEW d \in 1..MaxDelay, MainSet(r, d)
  PROVE  Followed'
<1>1. now \in Clock /\ "main" \in Context
  BY DEF RingInv, TypeOK, Context
<1>2. (now + d) % Wrap \in Clock
  BY <1>1, LaterIsClock
<1>3. /\ Call("main", r, (now + d) % Wrap) /\ set["main"].pc = "idle"
      /\ UNCHANGED <<ring, time, current, now, hardware, accepted, hit>>
      /\ isr = "idle" /\ isr' = "idle"
  BY DEF MainSet
<1> QED
  BY <1>1, <1>2, <1>3, CallKeeps

LEMMA CallbackSetsKeeps ==
  ASSUME RingInv, Contexts, NEW r \in Timer, NEW d \in 1..MaxDelay, CallbackSets(r, d)
  PROVE  Followed'
<1>1. /\ isr = "callback" /\ current # NULL /\ Call("isr", r, (time[current] + d) % Wrap)
      /\ UNCHANGED <<ring, time, current, now, hardware, accepted, hit>> /\ isr' = "setting"
  BY DEF CallbackSets
<1>2. time[current] \in Clock /\ "isr" \in Context
  BY <1>1 DEF RingInv, TypeOK, Context
<1>3. (time[current] + d) % Wrap \in Clock
  BY <1>2, LaterIsClock
<1>4. set["isr"].pc = "idle"
  BY <1>1 DEF Contexts, Inside
<1> QED
  BY <1>1, <1>2, <1>3, <1>4, CallKeeps

\* The steps that call nothing and leave the ring alone.
LEMMA QuietKeeps ==
  ASSUME Contexts, set' = set, UNCHANGED ring, isr' = isr \/ isr' \in {"idle", "select"},
         isr' \in {"idle", "select"} => set["isr"].pc = "idle",
         isr' = isr \/ isr' = "idle" \/ set["main"].pc \notin {"scan", "program"}
  PROVE  Contexts'
<1>1. \A x : ActivationOK(x)' <=> ActivationOK(x)
  BY RingFrame
<1>2. ASSUME NEW k \in Context PROVE ActivationOK(set[k])'
  <2> PICK x : x = set'[k]
    OBVIOUS
  <2>1. ActivationOK(x)'
    BY <1>1 DEF Contexts
  <2> QED BY <2>1 DEF ActivationOK
<1>3. next' = next /\ firstempty' = firstempty
  BY DEF ring
<1>4. Inside' /\ TwoContexts'
  BY <1>3 DEF Contexts, Inside, TwoContexts, MayTake, NextSlot
<1> QED
  BY <1>2, <1>4 DEF Contexts

LEMMA TickKeeps ==
  ASSUME RingInv, Contexts, Tick
  PROVE  Followed'
<1>1. /\ UNCHANGED <<ring, time, set, isr, current, compare, enabled, accepted, hit>>
      /\ now' = (now + 1) % Wrap /\ flag' = (flag \/ now' = compare)
  BY DEF Tick
<1>2. TypeOK
  BY DEF RingInv
<1>3. now' \in Clock
  <2>1. now + 1 \in Nat
    BY <1>2, ClockAssumption DEF TypeOK, Clock
  <2> QED BY <1>1, <2>1, ClockFacts
<1>4. flag' \in BOOLEAN
  BY <1>1
<1>5. TypeOK'
  BY <1>1, <1>2, <1>3, <1>4 DEF TypeOK, ring
<1>6. RingHoldsAccepted'
  BY <1>1, RingFrame DEF RingInv
<1>7. Contexts'
  <2>1. isr \in {"idle", "select"} => set["isr"].pc = "idle"
    BY DEF Contexts, Inside
  <2> QED BY <1>1, <2>1, QuietKeeps
<1>8. BallKeepsRolling'
  BY <1>1 DEF RingInv, BallKeepsRolling, ring, Alone
<1> QED
  BY <1>5, <1>6, <1>7, <1>8 DEF RingInv, Followed

LEMMA InterruptKeeps ==
  ASSUME RingInv, Contexts, Interrupt
  PROVE  Followed'
<1>1. /\ isr = "idle" /\ enabled' = FALSE /\ flag' = FALSE
      /\ UNCHANGED <<rtimers, firstempty, time, set, now, compare>>
  BY DEF Interrupt
<1>2. /\ TypeOK /\ RingHoldsAccepted /\ next \in Slot /\ firstempty \in Slot
      /\ set["isr"].pc = "idle"
  BY <1>1 DEF RingInv, TypeOK, Contexts, Inside
<1>5. CASE next = firstempty
  <2>1. UNCHANGED <<next, isr, current, accepted, hit>>
    BY <1>5 DEF Interrupt
  <2>2. UNCHANGED ring
    BY <1>1, <2>1 DEF ring
  <2>3. RingHoldsAccepted'
    BY <1>2, <2>1, <2>2, RingFrame
  <2>4. Contexts'
    BY <1>1, <1>2, <2>1, <2>2, QuietKeeps
  <2>5. BallKeepsRolling' /\ TypeOK'
    BY <1>1, <1>2, <1>5, <2>1 DEF BallKeepsRolling, TypeOK
  <2> QED BY <2>3, <2>4, <2>5 DEF RingInv, Followed
<1>6. CASE next # firstempty
  <2>1. /\ current' = rtimers[next] /\ next' = NextSlot(next)
        /\ accepted' = accepted \ {rtimers[next]} /\ isr' = "callback"
        /\ hit' = (set["main"].pc \in {"scan", "program"})
    BY <1>6 DEF Interrupt
  <2>2. Queued' = Queued \ {next} /\ next' \in Slot /\ next \in Queued
    BY <1>1, <1>2, <1>6, <2>1, TakeFacts, QueueFacts
  <2>3. RingHoldsAccepted'
    <3>1. {rtimers'[i] : i \in Queued'} = accepted'
      BY <1>1, <1>2, <2>1, <2>2 DEF RingHoldsAccepted
    <3>2. ASSUME NEW i \in Queued', NEW j \in Queued', rtimers'[i] = rtimers'[j] PROVE i = j
      BY <1>1, <1>2, <2>2, <3>2 DEF RingHoldsAccepted
    <3> QED BY <3>1, <3>2 DEF RingHoldsAccepted
  <2>4. BallKeepsRolling'
    BY <2>1 DEF BallKeepsRolling
  <2>5. TypeOK'
    <3>1. hit' \in BOOLEAN
      BY <2>1
    <3> QED BY <1>1, <1>2, <2>1, <2>2, <3>1 DEF TypeOK
  <2>6. ASSUME set["main"].pc \notin {"scan", "program"} PROVE Contexts'
    <3>1. \A r : Holds(r)' => Holds(r)
      BY <1>1, <2>2 DEF Holds
    <3>2. ~NoRoom'
      <4>1. NextSlot(firstempty) # NextSlot(next)
        BY <1>2, <1>6, NextInjective
      <4> QED BY <1>1, <2>1, <4>1 DEF NoRoom, NextSlot
    <3>3. ASSUME NEW k \in Context PROVE ActivationOK(set[k])'
      <4>1. ActivationOK(set[k]) /\ set'[k] = set[k] /\ set[k].pc \notin {"scan", "program"}
        BY <1>1, <1>2, <2>6 DEF Contexts, Context
      <4> QED BY <1>1, <3>1, <3>2, <4>1 DEF ActivationOK
    <3>4. ASSUME set["main"].pc \in {"store", "advance"} PROVE NextSlot(NextSlot(firstempty)) # NextSlot(next)
      <4>1. NextSlot(firstempty) # next
        BY <3>4 DEF Contexts, ActivationOK, Context, NoRoom
      <4>2. NextSlot(firstempty) \in Slot
        BY <1>2, NextFacts
      <4> QED BY <1>2, <4>1, <4>2, NextInjective
    <3>5. Inside' /\ TwoContexts'
      BY <1>1, <1>2, <2>1, <2>6, <3>4 DEF Inside, TwoContexts, NextSlot
    <3> QED BY <3>3, <3>5 DEF Contexts
  <2> QED BY <2>1, <2>3, <2>4, <2>5, <2>6 DEF RingInv, Followed
<1> QED BY <1>5, <1>6

LEMMA CallbackReturnsKeeps ==
  ASSUME RingInv, Contexts, CallbackReturns
  PROVE  Followed'
<1>1. /\ isr = "callback" \/ (isr = "setting" /\ set["isr"].pc = "idle")
      /\ isr' = "select" /\ UNCHANGED <<ring, time, set, current, now, hardware, accepted, hit>>
  BY DEF CallbackReturns
<1>2. TypeOK /\ set["isr"].pc = "idle" /\ set["main"].pc \notin {"scan", "program"}
  BY <1>1 DEF RingInv, Contexts, Inside, TwoContexts
<1>3. Contexts'
  BY <1>1, <1>2, QuietKeeps
<1>4. RingHoldsAccepted'
  BY <1>1, RingFrame DEF RingInv
<1>5. BallKeepsRolling' /\ TypeOK'
  BY <1>1, <1>2 DEF BallKeepsRolling, TypeOK, ring, hardware
<1> QED
  BY <1>3, <1>4, <1>5 DEF RingInv, Followed

LEMMA SelectKeeps ==
  ASSUME RingInv, Contexts, Select
  PROVE  Followed'
<1>1. /\ isr = "select" /\ isr' = "idle" /\ current' = NULL
      /\ UNCHANGED <<next, firstempty, time, set, now, accepted, hit>>
  BY DEF Select
<1>2. /\ TypeOK /\ RingHoldsAccepted /\ next \in Slot /\ firstempty \in Slot
      /\ set["isr"].pc = "idle" /\ set["main"].pc \notin {"scan", "program"}
  BY <1>1 DEF RingInv, TypeOK, Contexts, Inside, TwoContexts
<1>5. CASE next = firstempty
  <2>1. UNCHANGED <<rtimers, hardware>>
    BY <1>5 DEF Select
  <2>2. UNCHANGED ring
    BY <1>1, <2>1 DEF ring
  <2>3. RingHoldsAccepted' /\ Contexts'
    BY <1>1, <1>2, <2>2, RingFrame, QuietKeeps
  <2>4. BallKeepsRolling' /\ TypeOK'
    BY <1>1, <1>2, <1>5, <2>1 DEF BallKeepsRolling, TypeOK, hardware
  <2> QED BY <2>3, <2>4 DEF RingInv, Followed
<1>6. CASE next # firstempty
  <2> PICK n : n = Earliest
    OBVIOUS
  <2>1. /\ rtimers' = Swapped(n)
        /\ compare' = time[rtimers'[next]] /\ flag' = FALSE /\ enabled' = TRUE
    BY <1>6 DEF Select, rtimer_arch_schedule
  <2>2. /\ n \in Queued /\ next \in Queued /\ Queued \subseteq Slot /\ firstempty \notin Queued
    BY <1>2, <1>6, EarliestQueued, QueueFacts
  <2>3. /\ rtimers' \in [Slot -> Timer \cup {NULL}]
        /\ rtimers'[next] = rtimers[n] /\ rtimers'[n] = rtimers[next]
        /\ \A i \in Slot \ {n, next} : rtimers'[i] = rtimers[i]
    BY <1>2, <2>1, <2>2 DEF TypeOK, Swapped
  <2>4. Queued' = Queued
    BY <1>1 DEF Queued, InQueue
  <2>9. {rtimers'[i] : i \in Queued} = {rtimers[i] : i \in Queued}
    BY <2>2, <2>3
  <2>5. RingHoldsAccepted'
    <3>2. ASSUME NEW i \in Queued, NEW j \in Queued, rtimers'[i] = rtimers'[j] PROVE i = j
      BY <1>2, <2>2, <2>3, <3>2 DEF RingHoldsAccepted
    <3> QED BY <1>1, <1>2, <2>4, <2>9, <3>2 DEF RingHoldsAccepted
  <2>6. BallKeepsRolling'
    BY <1>1, <2>1 DEF BallKeepsRolling
  <2>7. compare' \in Clock
    <3>1. rtimers[n] \in Timer
      BY <1>2, <2>2 DEF RingHoldsAccepted, TypeOK
    <3> QED BY <1>2, <2>1, <2>3, <3>1 DEF TypeOK
  <2>8. TypeOK'
    BY <1>1, <1>2, <2>1, <2>3, <2>7 DEF TypeOK
  <2>10. \A r : Holds(r)' <=> Holds(r)
    BY <2>4, <2>9 DEF Holds
  <2>11. rtimers'[firstempty] = rtimers[firstempty] /\ (NoRoom' <=> NoRoom)
    BY <1>1, <1>2, <2>2, <2>3 DEF NoRoom, NextSlot
  <2>12. ASSUME NEW k \in Context PROVE ActivationOK(set[k])'
    <3>1. ActivationOK(set[k]) /\ set'[k] = set[k] /\ set[k].pc \notin {"scan", "program"}
      BY <1>1, <1>2 DEF Contexts, Context
    <3> QED BY <1>1, <2>10, <2>11, <3>1 DEF ActivationOK
  <2>13. Inside' /\ TwoContexts'
    BY <1>1, <1>2 DEF Inside, TwoContexts, MayTake
  <2> QED BY <2>5, <2>6, <2>8, <2>12, <2>13 DEF RingInv, Followed, Contexts
<1> QED BY <1>5, <1>6

--------------------------------------------------------------------------------
(* The theorems.                                                                *)

LEMMA RingInit == ASSUME Init PROVE Followed
<1>1. 0 \in Slot /\ 0 \in Clock
  BY SizeAssumption, ClockAssumption DEF Slot, Clock
<1>2. set \in [Context -> Activation] /\ \A c \in Context : set[c].pc = "idle"
  BY IdleFacts DEF Init
<1>3. TypeOK
  BY <1>1, <1>2 DEF Init, TypeOK
<1>4. Queued = {}
  BY <1>3, QueueFacts, SizeAssumption DEF Init, Queued, InQueue, Slot
<1>5. Contexts
  BY <1>2 DEF Init, Contexts, Inside, TwoContexts, ActivationOK, Context
<1> QED
  BY <1>3, <1>4, <1>5 DEF Init, Followed, RingInv, RingHoldsAccepted, BallKeepsRolling

LEMMA RingNext ==
  ASSUME Followed, [Next]_vars
  PROVE  Followed'
<1>1. CASE Next
  <2>1. RingInv /\ Contexts
    BY <1>1 DEF Next, Followed
  <2>2. ASSUME NEW c \in Context, SetStep(c) PROVE Followed'
    BY <2>1, <2>2, CheckKeeps, ScanKeeps, StoreKeeps, AdvanceKeeps, ScheduleKeeps, ProgramKeeps
    DEF SetStep
  <2>3. ASSUME NEW r \in Timer, NEW d \in 1..MaxDelay, MainSet(r, d) PROVE Followed'
    BY <2>1, <2>3, MainSetKeeps
  <2>4. CASE SetStep("main")
    BY <2>2, <2>4 DEF Context
  <2>5. CASE Tick
    BY <2>1, <2>5, TickKeeps
  <2>6. CASE Interrupt
    BY <2>1, <2>6, InterruptKeeps
  <2>7. CASE Callback
    <3>1. ASSUME NEW r \in Timer, NEW d \in 1..MaxDelay, CallbackSets(r, d) PROVE Followed'
      BY <2>1, <3>1, CallbackSetsKeeps
    <3> QED BY <2>1, <2>7, <3>1, CallbackReturnsKeeps DEF Callback
  <2>8. CASE SetStep("isr")
    BY <2>2, <2>8 DEF Context
  <2>9. CASE Select
    BY <2>1, <2>9, SelectKeeps
  <2> QED BY <1>1, <2>3, <2>4, <2>5, <2>6, <2>7, <2>8, <2>9 DEF Next, Handler
<1>2. CASE UNCHANGED vars
  <2>1. UNCHANGED <<rtimers, next, firstempty, time, set, isr, current, now, compare, enabled,
                    flag, accepted, hit>>
    BY <1>2 DEF vars, ring, hardware
  <2>2. RingInv'
    BY <2>1 DEF Followed, RingInv, TypeOK, RingHoldsAccepted, BallKeepsRolling, Queued, InQueue, Alone
  <2>3. ASSUME Contexts PROVE Contexts'
    <3>1. UNCHANGED ring /\ (isr \in {"idle", "select"} => set["isr"].pc = "idle")
      BY <2>1, <2>3 DEF ring, Contexts, Inside
    <3> QED BY <2>1, <2>3, <3>1, QuietKeeps
  <2> QED BY <2>1, <2>2, <2>3 DEF Followed
<1> QED BY <1>1, <1>2

LEMMA RingInvariant == Spec => []Followed
<1>1. Init => Followed
  BY RingInit
<1>2. Followed /\ [Next]_vars => Followed'
  BY RingNext
<1> QED BY <1>1, <1>2, PTL DEF Spec

\* Up to the first hit the queued slots of the ring hold exactly the tasks that
\* rtimer_set() accepted and rtimer_run_next() has not taken, each once: no accepted
\* task is lost, none runs twice.  The interrupt may come between any two statements of
\* rtimer_set(), and the ring may fill up.
THEOREM AcceptedAreQueued == Spec => []RingHoldsAccepted
<1>1. Followed => RingHoldsAccepted
  BY DEF Followed, RingInv
<1> QED BY <1>1, RingInvariant, PTL

\* Up to the first hit, while a task waits the compare interrupt is enabled and programmed
\* for the time of the task at the front, or the step that will program it is still to
\* come: the chain of rtimer_run_next() and rtimer_set() is not broken.
THEOREM FrontIsProgrammed == Spec => []BallKeepsRolling
<1>1. Followed => BallKeepsRolling
  BY DEF Followed, RingInv
<1> QED BY <1>1, RingInvariant, PTL

\* Every variable of the ring, the activations and the timer keeps its type.
THEOREM RTimerTypes == Spec => []TypeOK
<1>1. Followed => TypeOK
  BY DEF Followed, RingInv
<1> QED BY <1>1, RingInvariant, PTL

================================================================================
