-------------------------------- MODULE RTimer --------------------------------
(***************************************************************************)
(* The real-time task scheduler, core/sys/rtimer.c, on the compare         *)
(* interrupt of the ATmega128 timer 3, cpu/atmega128/rtimer-arch.c.        *)
(*                                                                         *)
(* Tasks wait in a ring of LIST_SIZE pointers; only the task at the front  *)
(* is programmed into the compare register.  rtimer_set() is called by the *)
(* main program and by the callbacks that rtimer_run_next() makes from the *)
(* interrupt handler, and touches the ring without disabling interrupts:   *)
(* its statements are separate steps, one activation per context, and the  *)
(* interrupt comes between any two of them.  At some it does harm: the     *)
(* behaviours are followed up to there, see hit.                           *)
(***************************************************************************)
EXTENDS Naturals, FiniteSets

CONSTANTS Timer,      \* the rtimer structures
          NULL,       \* an unused slot of the ring
          ListSize,   \* LIST_SIZE
          Wrap,       \* the range of rtimer_clock_t, 2^16 in the code
          MaxDelay    \* bound: how far ahead a task is set

ASSUME TimerAssumption == NULL \notin Timer /\ IsFiniteSet(Timer)
\* next and firstempty are of type u8_t.
ASSUME SizeAssumption == ListSize \in 2..255
ASSUME ClockAssumption == Wrap \in Nat \ {0} /\ MaxDelay \in 1..Wrap

VARIABLES
  rtimers, next, firstempty,  \* the ring
  time,      \* rtimer->time
  set,       \* the activation of rtimer_set() of each context
  isr,       \* where the interrupt handler is
  current,   \* the task it runs, RTIMER_TIME of which the callback adds to
  now,       \* TCNT3
  compare, enabled, flag,     \* OCR3A, OCIE3A, OCF3A
  accepted,  \* auxiliary: tasks that rtimer_set() accepted and that have not run
  hit        \* auxiliary: whether rtimer_set() met what it cannot cope with

ring == <<rtimers, next, firstempty>>
hardware == <<compare, enabled, flag>>
vars == <<ring, time, set, isr, current, now, hardware, accepted, hit>>

Slot == 0..(ListSize - 1)
Clock == 0..(Wrap - 1)
Context == {"main", "isr"}
Step == {"idle", "check", "scan", "store", "advance", "schedule", "program"}
Activation == [pc : Step, r : Timer \cup {NULL}, t : Clock, i : Slot]
Idle == [pc |-> "idle", r |-> NULL, t |-> 0, i |-> 0]

NextSlot(i) == (i + 1) % ListSize

\* The loop "for(i = next; i != firstempty; i = (i + 1) % LIST_SIZE)".
InQueue(i) == IF next <= firstempty THEN next <= i /\ i < firstempty
              ELSE next <= i \/ i < firstempty
Queued == {i \in Slot : InQueue(i)}

\* The interrupt handler runs to its end before the main program goes on.
Running(c) == c = "isr" \/ isr = "idle"

Init ==
  /\ rtimers = [i \in Slot |-> NULL] /\ next = 0 /\ firstempty = 0
  /\ time = [r \in Timer |-> 0]
  /\ set = [c \in Context |-> Idle]
  /\ isr = "idle" /\ current = NULL
  /\ now = 0 /\ compare = 0 /\ enabled = FALSE /\ flag = FALSE
  /\ accepted = {} /\ hit = FALSE

--------------------------------------------------------------------------------
(* rtimer_set()                                                                 *)

Call(c, r, t) ==
  set' = [set EXCEPT ![c] = [pc |-> "check", r |-> r, t |-> t, i |-> 0]]

\* The main program sets a task relative to RTIMER_NOW().
MainSet(r, d) ==
  /\ isr = "idle" /\ set["main"].pc = "idle"
  /\ Call("main", r, (now + d) % Wrap)
  /\ UNCHANGED <<ring, time, isr, current, now, hardware, accepted, hit>>

\* "firstempty == (next - 1) % LIST_SIZE" in C: for next = 0 the right side is -1,
\* which no index equals, and a full ring (one slot stays unused) is not noticed.
Full == next # 0 /\ firstempty = next - 1
NoRoom == NextSlot(firstempty) = next

Check(c) ==
  /\ Running(c) /\ set[c].pc = "check"
  /\ set' = [set EXCEPT ![c] = IF Full THEN Idle ELSE [@ EXCEPT !.pc = "scan", !.i = next]]
  /\ hit' = (NoRoom /\ ~Full)
  /\ UNCHANGED <<ring, time, isr, current, now, hardware, accepted>>

\* A task that is queued, and one for the very time of a queued one, are refused.
Already(i, r) == rtimers[i] = r
SameTime(i, t) == rtimers[i] # NULL /\ time[rtimers[i]] = t

Scan(c) ==
  /\ Running(c) /\ set[c].pc = "scan"
  /\ LET a == set[c]
     IN set' = [set EXCEPT ![c] =
          IF a.i = firstempty THEN [a EXCEPT !.pc = "store"]
          ELSE IF Already(a.i, a.r) \/ SameTime(a.i, a.t) THEN Idle
          ELSE [a EXCEPT !.i = NextSlot(a.i)]]
  /\ UNCHANGED <<ring, time, isr, current, now, hardware, accepted, hit>>

\* The callback takes the slot that the main program has written but not yet counted, or
\* sets the task that the main program is about to queue.
Collides(c) ==
  c = "isr" /\ (set["main"].pc = "advance" \/ (set["main"].pc = "store" /\ set["main"].r = set[c].r))

Store(c) ==
  /\ Running(c) /\ set[c].pc = "store"
  /\ time' = [time EXCEPT ![set[c].r] = set[c].t]
  /\ rtimers' = [rtimers EXCEPT ![firstempty] = set[c].r]
  /\ set' = [set EXCEPT ![c].pc = "advance"]
  /\ hit' = Collides(c)
  /\ UNCHANGED <<next, firstempty, isr, current, now, hardware, accepted>>

Advance(c) ==
  /\ Running(c) /\ set[c].pc = "advance"
  /\ firstempty' = NextSlot(firstempty)
  /\ accepted' = accepted \cup {set[c].r}
  /\ set' = [set EXCEPT ![c].pc = "schedule"]
  /\ UNCHANGED <<rtimers, next, time, isr, current, now, hardware, hit>>

\* "if(firstempty == (next + 1) % LIST_SIZE)": the task is alone in the ring.
AloneNever == FALSE
Alone == firstempty = NextSlot(next)

Schedule(c) ==
  /\ Running(c) /\ set[c].pc = "schedule"
  /\ set' = [set EXCEPT ![c] = IF Alone THEN [@ EXCEPT !.pc = "program"] ELSE Idle]
  /\ UNCHANGED <<ring, time, isr, current, now, hardware, accepted, hit>>

\* rtimer_arch_schedule(t): OCR3A = t, pending flags cleared, interrupt enabled.
rtimer_arch_schedule(t) == compare' = t /\ flag' = FALSE /\ enabled' = TRUE

Program(c) ==
  /\ Running(c) /\ set[c].pc = "program"
  /\ rtimer_arch_schedule(time[rtimers[next]])
  /\ set' = [set EXCEPT ![c] = Idle]
  /\ UNCHANGED <<ring, time, isr, current, now, accepted, hit>>

--------------------------------------------------------------------------------
(* The timer and rtimer_run_next() in TIMER3_COMPA_vect.                        *)

\* The counter moves on; the compare flag is set on a match, enabled or not.
Tick ==
  /\ now' = (now + 1) % Wrap
  /\ flag' = (flag \/ now' = compare)
  /\ UNCHANGED <<ring, time, set, isr, current, compare, enabled, accepted, hit>>

\* The handler disables the interrupt and takes the front task, if there is one.  What the
\* main program compares in its loop, and what it is about to program, is then stale.
Interrupt ==
  /\ isr = "idle" /\ enabled /\ flag
  /\ enabled' = FALSE /\ flag' = FALSE
  /\ IF next = firstempty
     THEN UNCHANGED <<next, isr, current, accepted, hit>>
     ELSE /\ current' = rtimers[next]
          /\ next' = NextSlot(next)
          /\ accepted' = accepted \ {rtimers[next]}
          /\ isr' = "callback"
          /\ hit' = (set["main"].pc \in {"scan", "program"})
  /\ UNCHANGED <<rtimers, firstempty, time, set, now, compare>>

\* The callback sets a task, usually its own, relative to RTIMER_TIME(t).
CallbackSets(r, d) ==
  /\ isr = "callback" /\ current # NULL
  /\ Call("isr", r, (time[current] + d) % Wrap)
  /\ isr' = "setting"
  /\ UNCHANGED <<ring, time, current, now, hardware, accepted, hit>>

CallbackReturns ==
  /\ isr = "callback" \/ (isr = "setting" /\ set["isr"].pc = "idle")
  /\ isr' = "select"
  /\ UNCHANGED <<ring, time, set, current, now, hardware, accepted, hit>>

\* RTIMER_CLOCK_LT(a, b): the signed difference of the two times is negative.
Before(a, b) == (a + Wrap - b) % Wrap >= (Wrap + 1) \div 2

\* The last part of rtimer_run_next(): the loop keeps the first of the earliest
\* tasks, which is swapped to the front and scheduled.
Earliest ==
  LET pos(k) == (next + k) % ListSize
      best[k \in Slot] ==
        IF k = 0 THEN next
        ELSE IF ~InQueue(pos(k)) THEN best[k - 1]
        ELSE IF Before(time[rtimers[pos(k)]], time[rtimers[best[k - 1]]]) THEN pos(k)
        ELSE best[k - 1]
  IN best[ListSize - 1]

SwapLost(n) == [rtimers EXCEPT ![next] = rtimers[n]]
Swapped(n) == [rtimers EXCEPT ![next] = rtimers[n], ![n] = rtimers[next]]

Select ==
  /\ isr = "select"
  /\ IF next = firstempty
     THEN UNCHANGED <<rtimers, hardware>>
     ELSE /\ rtimers' = Swapped(Earliest)
          /\ rtimer_arch_schedule(time[rtimers'[next]])
  /\ isr' = "idle" /\ current' = NULL
  /\ UNCHANGED <<next, firstempty, time, set, now, accepted, hit>>

--------------------------------------------------------------------------------
SetStep(c) == Check(c) \/ Scan(c) \/ Store(c) \/ Advance(c) \/ Schedule(c) \/ Program(c)
Callback == CallbackReturns \/ (\E r \in Timer, d \in 1..MaxDelay : CallbackSets(r, d))
Handler == Callback \/ SetStep("isr") \/ Select

\* What happens after a hit is not followed.
Next ==
  /\ ~hit
  /\ \/ \E r \in Timer, d \in 1..MaxDelay : MainSet(r, d)
     \/ SetStep("main")
     \/ Tick \/ Interrupt \/ Handler

\* The counter runs, a pending interrupt is eventually served, and a handler or a
\* call that has begun goes on.
Fairness ==
  /\ WF_vars(~hit /\ Tick) /\ WF_vars(~hit /\ Interrupt)
  /\ WF_vars(~hit /\ (Handler \/ SetStep("main")))

Spec == Init /\ [][Next]_vars
FairSpec == Spec /\ Fairness

--------------------------------------------------------------------------------
(* Properties.                                                                  *)

TypeOK ==
  /\ rtimers \in [Slot -> Timer \cup {NULL}]
  /\ next \in Slot /\ firstempty \in Slot
  /\ time \in [Timer -> Clock]
  /\ set \in [Context -> Activation]
  /\ isr \in {"idle", "callback", "setting", "select"}
  /\ current \in Timer \cup {NULL}
  /\ now \in Clock /\ compare \in Clock /\ enabled \in BOOLEAN /\ flag \in BOOLEAN
  /\ accepted \subseteq Timer /\ hit \in BOOLEAN

\* Up to the first hit: the ring holds exactly the tasks that rtimer_set() accepted and
\* that have not run yet, each of them once.  No accepted task is lost and none runs
\* twice, although the compare interrupt takes tasks and sets others inside
\* rtimer_set(), and although the ring fills up.
RingHoldsAccepted ==
  /\ {rtimers[i] : i \in Queued} = accepted
  /\ \A i, j \in Queued : rtimers[i] = rtimers[j] => i = j

\* Up to the first hit: as long as a task waits, the compare interrupt is enabled and
\* programmed for the task at the front, or the step that programs it is under way.
\* Nothing else would ever wake the scheduler.
BallKeepsRolling ==
  next # firstempty =>
    \/ enabled /\ compare = time[rtimers[next]]
    \/ isr # "idle"
    \/ \E c \in Context : set[c].pc = "program" \/ (set[c].pc = "schedule" /\ Alone)

===============================================================================
