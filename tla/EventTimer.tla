------------------------------ MODULE EventTimer ------------------------------
(***************************************************************************)
(* Event timers: core/sys/etimer.c and core/sys/timer.c on a wrapping      *)
(* clock, with the clock interrupt of the platform (platform/micaz/dev/    *)
(* clock.c, or cpu/msp430/clock.c, which polls only when a timer is due).  *)
(*                                                                         *)
(* The event queue is the one of EventQueue, which ProcessKernel           *)
(* implements.  The clock interrupt may come between any two steps: the    *)
(* loop of etimer_process takes one step per timer, and update_time() is   *)
(* a step of its own because it reads the clock again.                     *)
(***************************************************************************)
EXTENDS Integers, Sequences, FiniteSets, SequencesExt

CONSTANTS Timer, Proc,
          NONE,         \* PROCESS_NONE
          ZOMBIE,       \* PROCESS_ZOMBIE
          OtherEvent,   \* the events, other than TIMER, that processes post
          Capacity,     \* PROCESS_CONF_NUMEVENTS
          Wrap,        \* the range of clock_time_t, 2^16 on the MICAz
          Byte,         \* the range of the low byte of the clock, 2^8
          Interval,     \* the intervals that programs set
          Adjustment,   \* the differences given to etimer_adjust()
          MaxLeft,      \* bound: the furthest a timer is set ahead
          MaxLate,      \* bound: how late etimer_process may run
          Operation,    \* what programs call
          Tickless,     \* whether the interrupt polls only when a timer is due
          TornReads     \* whether the interrupt may come inside clock_time()

ASSUME ProcessAssumption == NONE \notin Proc /\ ZOMBIE \notin Proc /\ NONE # ZOMBIE
ASSUME EventAssumption == OtherEvent \cap Timer = {}
ASSUME ClockAssumption ==
  /\ Wrap \in Nat /\ Byte \in Nat /\ 2 <= Byte /\ Byte <= Wrap
  /\ Interval \subseteq Nat /\ Adjustment \subseteq -Wrap..Wrap
  /\ MaxLeft \in Nat /\ MaxLate \in Nat
ASSUME OperationAssumption ==
  Operation \subseteq {"set", "reset", "restart", "adjust", "stop", "exit"}
ASSUME ModeAssumption == Tickless \in BOOLEAN /\ TornReads \in BOOLEAN

VARIABLES
  count,              \* the clock
  timerlist,          \* from the head of the list
  start, interval,    \* t->timer
  owner,              \* t->p
  next_expiration,
  polled,             \* etimer_process needs a poll
  pc, at,             \* what etimer.c is doing, and the list position it is at
  queue,              \* the event queue; a TIMER event is named by its timer
  running,            \* the processes that run
  interrupted,        \* the interrupt came just before this step and wrapped the low byte
  left,               \* auxiliary: real ticks until the timer is due
  astray              \* auxiliary: the timers that were set from a torn reading

kernel == <<queue, running>>
timers == <<timerlist, start, interval, owner>>
clock == <<left, astray>>   \* the auxiliary variables
vars == <<count, timers, next_expiration, polled, pc, at, kernel, interrupted, clock>>

Kernel == INSTANCE EventQueue WITH Event <- Timer \cup OtherEvent, Receiver <- Proc

\* The elements of s that are in keep, in their order: SelectSeq() as a function that
\* proofs can expand.
Only(s, keep) ==
  LET kept[i \in 0..Len(s)] ==
        IF i = 0 THEN <<>>
        ELSE IF s[i] \in keep THEN Append(kept[i - 1], s[i]) ELSE kept[i - 1]
  IN kept[Len(s)]

Clock == 0..(Wrap - 1)
Listed == {timerlist[i] : i \in DOMAIN timerlist}

Init ==
  /\ count = 0
  /\ timerlist = <<>>
  /\ start = [t \in Timer |-> 0] /\ interval = [t \in Timer |-> 0]
  /\ owner = [t \in Timer |-> NONE]
  /\ next_expiration = 0
  /\ polled = FALSE
  /\ pc = "idle" /\ at = 1
  /\ queue = <<>>
  /\ running = Proc
  /\ interrupted = FALSE
  /\ left = [t \in Timer |-> -MaxLate]
  /\ astray = {}

--------------------------------------------------------------------------------
(* The clock and timer.c.                                                       *)

\* What clock_time() may return.  The two bytes are read one after the other; when
\* the interrupt comes between them and wraps the low byte, one of the two is from
\* before the interrupt.
Reads ==
  {count} \cup
  (IF interrupted
   THEN {(count + Byte - 1) % Wrap, (count + Wrap - Byte) % Wrap} ELSE {})

\* CLOCK_LT(a, b)
ClockUnwrapped(a, b) == a >= b
CLOCK_LT(a, b) == (a + Wrap - b) % Wrap < (Wrap - 1) \div 2

Expiration(t) == (start[t] + interval[t]) % Wrap
timer_expired(t, now) == CLOCK_LT(now, Expiration(t))

--------------------------------------------------------------------------------
(* etimer.c                                                                     *)

\* update_time() at clock value `now'.
UpdateLast(now) == IF timerlist = <<>> THEN 0 ELSE Expiration(timerlist[Len(timerlist)])
update_time(now) ==
  LET distance(t) == (Expiration(t) + Wrap - now) % Wrap
      nearest == CHOOSE t \in Listed : \A u \in Listed : distance(t) <= distance(u)
  IN IF timerlist = <<>> THEN 0 ELSE Expiration(nearest)

\* The step that ends etimer_set() and the others, and each removal in the loop of
\* etimer_process, which then starts again from the head ("goto again").
Update ==
  /\ pc \in {"update", "again"}
  /\ \E now \in Reads : next_expiration' = update_time(now)
  /\ pc' = IF pc = "again" THEN "scan" ELSE "idle"
  /\ at' = 1
  /\ interrupted' = FALSE
  /\ UNCHANGED <<count, timers, polled, kernel, clock>>

\* do_poll() calls etimer_process.
PollEtimer ==
  /\ pc = "idle" /\ polled
  /\ polled' = FALSE
  /\ pc' = "scan" /\ at' = 1
  /\ interrupted' = FALSE
  /\ UNCHANGED <<count, timers, next_expiration, kernel, clock>>

\* One turn of the loop of etimer_process: a timer whose event the queue refuses
\* stays on the list, and the process asks to be polled again.
ScanEnd ==
  /\ pc = "scan" /\ at > Len(timerlist)
  /\ pc' = "idle" /\ at' = 1
  /\ interrupted' = FALSE
  /\ UNCHANGED <<count, timers, next_expiration, polled, kernel, clock>>

ScanTimer ==
  /\ pc = "scan" /\ at <= Len(timerlist)
  /\ LET t == timerlist[at]
     IN \E now \in Reads :
          \/ /\ ~timer_expired(t, now)
             /\ at' = at + 1
             /\ UNCHANGED <<timerlist, owner, polled, pc, queue>>
          \/ /\ timer_expired(t, now) /\ Len(queue) = Capacity
             /\ polled' = TRUE
             /\ at' = at + 1
             /\ UNCHANGED <<timerlist, owner, pc, queue>>
          \/ /\ timer_expired(t, now)
             /\ Kernel!Post(t, owner[t])
             /\ owner' = [owner EXCEPT ![t] = NONE]
             /\ timerlist' = RemoveAt(timerlist, at)
             /\ pc' = "again"
             /\ UNCHANGED <<polled, at>>
  /\ interrupted' = FALSE
  /\ UNCHANGED <<count, start, interval, next_expiration, running, clock>>

\* add_timer(t), called by process p: a timer that is on the list stays where it is,
\* for the process that it already belongs to.
AlreadyListedByOwner(t) == owner[t] = NONE /\ t \in Listed
AlreadyListed(t) == owner[t] # NONE /\ t \in Listed

add_timer(p, t) ==
  /\ polled' = TRUE
  /\ IF AlreadyListed(t)
     THEN UNCHANGED <<timerlist, owner>>
     ELSE owner' = [owner EXCEPT ![t] = p] /\ timerlist' = <<t>> \o timerlist
  /\ pc' = "update"
  /\ interrupted' = FALSE
  /\ UNCHANGED <<count, next_expiration, at, kernel>>

\* A running process calls etimer.c.  The timer has been set before, and recently
\* enough for the wrapping clock, when it is reset or adjusted.
Calls(p, operation) == pc = "idle" /\ p \in running /\ operation \in Operation
WasSet(t) == interval[t] # 0 /\ left[t] > -MaxLate

\* timer_set() and timer_restart() store what clock_time() returns.
StartNow(t) ==
  \E now \in Reads :
    /\ start' = [start EXCEPT ![t] = now]
    /\ astray' = IF now = count THEN astray \ {t} ELSE astray \cup {t}

etimer_set(p, t, i) ==
  /\ Calls(p, "set")
  /\ interval' = [interval EXCEPT ![t] = i]
  /\ StartNow(t)
  /\ left' = [left EXCEPT ![t] = i]
  /\ add_timer(p, t)

etimer_reset(p, t) ==
  /\ Calls(p, "reset") /\ WasSet(t)
  /\ left[t] + interval[t] <= MaxLeft
  /\ start' = [start EXCEPT ![t] = (@ + interval[t]) % Wrap]
  /\ left' = [left EXCEPT ![t] = @ + interval[t]]
  /\ add_timer(p, t)
  /\ UNCHANGED <<interval, astray>>

etimer_restart(p, t) ==
  /\ Calls(p, "restart") /\ WasSet(t)
  /\ StartNow(t)
  /\ left' = [left EXCEPT ![t] = interval[t]]
  /\ add_timer(p, t)
  /\ UNCHANGED interval

\* etimer_adjust() does not ask for a poll.
etimer_adjust(p, t, d) ==
  /\ Calls(p, "adjust") /\ WasSet(t)
  /\ left[t] + d <= MaxLeft /\ left[t] + d > -MaxLate
  /\ start' = [start EXCEPT ![t] = (@ + Wrap + d) % Wrap]
  /\ left' = [left EXCEPT ![t] = @ + d]
  /\ pc' = "update"
  /\ interrupted' = FALSE
  /\ UNCHANGED <<count, timerlist, interval, owner, next_expiration, polled, at, kernel, astray>>

etimer_stop(p, t) ==
  /\ Calls(p, "stop")
  /\ timerlist' = Only(timerlist, Timer \ {t})
  /\ owner' = [owner EXCEPT ![t] = NONE]
  /\ pc' = IF t \in Listed THEN "update" ELSE "idle"
  /\ interrupted' = FALSE
  /\ UNCHANGED <<count, start, interval, next_expiration, polled, at, kernel, clock>>

--------------------------------------------------------------------------------
(* The kernel and the clock interrupt, as far as etimer.c sees them.            *)

\* etimer_process is called with EXITED: the timers of p leave the list and keep
\* their owner; next_expiration is not updated.
RemovedHead(p) ==
  IF timerlist # <<>> /\ owner[timerlist[1]] = p THEN Tail(timerlist) ELSE timerlist
Removed(p) == Only(timerlist, {t \in Timer : owner[t] # p})

process_exit(p) ==
  /\ Calls(p, "exit")
  /\ timerlist' = Removed(p)
  /\ Kernel!Retire(p)
  /\ running' = running \ {p}
  /\ interrupted' = FALSE
  /\ UNCHANGED <<count, start, interval, owner, next_expiration, polled, pc, at, clock>>

process_start(p) ==
  /\ pc = "idle" /\ p \notin running
  /\ running' = running \cup {p}
  /\ interrupted' = FALSE
  /\ UNCHANGED <<count, timers, next_expiration, polled, pc, at, queue, clock>>

process_post(ev, p) ==
  /\ pc = "idle"
  /\ Kernel!Post(ev, p)
  /\ interrupted' = FALSE
  /\ UNCHANGED <<count, timers, next_expiration, polled, pc, at, running, clock>>

do_event ==
  /\ pc = "idle"
  /\ Kernel!Take
  /\ interrupted' = FALSE
  /\ UNCHANGED <<count, timers, next_expiration, polled, pc, at, running, clock>>

\* When the interrupt handler polls: the MICAz whenever a timer is pending, the
\* MSP430 if "etimer_next_expiration_time() - count - 1 > MAX_TICKS", half the range.
PollIfNone(now) == timerlist = <<>>
PollDue(now) ==
  timerlist # <<>> /\
  (Tickless => (next_expiration + Wrap - now - 1) % Wrap > (Wrap - 1) \div 2)

Tick ==
  /\ \A t \in Listed \ astray : left[t] > -MaxLate
  /\ count' = (count + 1) % Wrap
  /\ polled' = (polled \/ PollDue(count'))
  /\ left' = [t \in Timer |-> IF left[t] > -MaxLate THEN left[t] - 1 ELSE left[t]]
  /\ interrupted' = (TornReads /\ count' % Byte = 0)
  /\ UNCHANGED <<timers, next_expiration, pc, at, kernel, astray>>

--------------------------------------------------------------------------------
Etimer == Update \/ PollEtimer \/ ScanEnd \/ ScanTimer

\* Process p uses timer t.
Use(p, t) ==
  \/ \E i \in Interval : etimer_set(p, t, i)
  \/ etimer_reset(p, t) \/ etimer_restart(p, t) \/ etimer_stop(p, t)
  \/ \E d \in Adjustment : etimer_adjust(p, t, d)

Program ==
  \/ \E p \in Proc, t \in Timer : Use(p, t)
  \/ \E p \in Proc : process_exit(p) \/ process_start(p)
  \/ \E ev \in OtherEvent, p \in running : process_post(ev, p)

Next == Tick \/ Etimer \/ do_event \/ Program

Spec == Init /\ [][Next]_vars

--------------------------------------------------------------------------------
(* Properties.                                                                  *)

TypeOK ==
  /\ count \in Clock
  /\ timerlist \in Seq(Timer)
  /\ start \in [Timer -> Clock] /\ interval \in [Timer -> Interval \cup {0}]
  /\ owner \in [Timer -> Proc \cup {NONE}]
  /\ next_expiration \in Clock
  /\ polled \in BOOLEAN
  /\ pc \in {"idle", "update", "scan", "again"} /\ at \in Nat
  /\ queue \in Seq(Kernel!Item) /\ Len(queue) <= Capacity
  /\ running \subseteq Proc
  /\ interrupted \in BOOLEAN
  /\ left \in [Timer -> -MaxLate..MaxLeft] /\ astray \subseteq Timer

\* The list of timers stays a list of distinct timers of running processes: no timer
\* is linked twice, which would close the list into a cycle, and none is left behind
\* by a process that exited, whatever the order of its timers on the list.
TimersBelongToProcesses ==
  /\ \A i, j \in DOMAIN timerlist : timerlist[i] = timerlist[j] => i = j
  /\ \A t \in Listed : owner[t] \in running

\* A TIMER event is posted only when the interval of its timer has really passed,
\* across the wrap of the clock, unless the interrupt wrapped the low byte inside one
\* of the two readings of the clock that count: the one that set the timer, or the one
\* that finds it expired.
Torn(t) == t \in astray \/ Reads # {count}
NeverEarly ==
  [][\A t \in Timer :
       Len(queue') > Len(queue) /\ Last(queue').ev = t => left[t] <= 0 \/ Torn(t)]_vars

\* A timer that is due is noticed: etimer_process has a poll pending, or is in its
\* loop and has still to reach the timer, or a call of etimer.c is about to compute
\* when to poll, or the next tick polls.
DueIsNoticed ==
  \A i \in DOMAIN timerlist :
    left[timerlist[i]] <= 0 =>
      \/ polled
      \/ pc \in {"update", "again"}
      \/ pc = "scan" /\ at <= i
      \/ PollDue((count + 1) % Wrap)
===============================================================================
