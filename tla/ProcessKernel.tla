----------------------------- MODULE ProcessKernel -----------------------------
(***************************************************************************)
(* The Contiki process kernel, core/sys/process.c: the process list, the   *)
(* ring of asynchronous events, poll requests raised by interrupt          *)
(* handlers, synchronous calls and the exit protocol.                      *)
(*                                                                         *)
(* Everything runs on one C stack.  A kernel function that calls a process *)
(* thread can be interrupted in the middle of a loop by whatever that      *)
(* thread calls, so the stack is explicit: each element of `stack' is an   *)
(* activation of do_poll(), of the broadcast loop of do_event(), of        *)
(* exit_process(), or of a process thread.  A thread may make any sequence *)
(* of at most MaxCalls kernel calls before it returns.  Only process_poll()*)
(* runs in an interrupt handler, between any two steps.                    *)
(***************************************************************************)
EXTENDS Naturals, Sequences, FiniteSets, SequencesExt

CONSTANTS Proc,       \* the process structures
          NULL,       \* the null pointer, which is also PROCESS_BROADCAST
          ZOMBIE,     \* PROCESS_ZOMBIE
          NumEvents,  \* PROCESS_CONF_NUMEVENTS, the size of the event ring
          Posted,     \* the events threads post
          Calls,      \* the kernel calls threads make
          Polled,     \* the processes that process_poll() is called for
          MaxCalls,   \* bound: kernel calls of one activation of a thread
          MaxDepth    \* bound: no kernel call from a stack this deep

ASSUME PointerAssumption == NULL \notin Proc /\ ZOMBIE \notin Proc /\ NULL # ZOMBIE

\* process_num_events_t is an unsigned char.
ASSUME RingAssumption == NumEvents \in 1..255

ASSUME BoundAssumption == MaxCalls \in Nat /\ MaxDepth \in Nat

\* "exit" is process_exit() of a process that runs and is not on the stack,
\* "exit_any" that of any other.
ASSUME ProgramAssumption ==
  /\ Posted \subseteq {"USER", "EXIT", "INIT"}
  /\ Calls \subseteq {"post", "post_synch", "start", "exit", "exit_any"}
  /\ Polled \subseteq Proc

VARIABLES
  process_list,     \* the listed processes, from the head of the list
  next,             \* the next pointer of the processes that are not listed
  state,            \* p->state
  needspoll,        \* p->needspoll
  poll_requested,
  events,           \* the ring; `live' is auxiliary, see Slot
  fevent,           \* index of the oldest event
  nevents,          \* number of queued events
  process_current,
  stack,            \* activations, the innermost last
  main,             \* what the main program does when the stack is empty
  owed,             \* auxiliary: listed processes with an unanswered process_poll()
  awaited,          \* auxiliary: listed processes the broadcast has still to reach
  stray             \* auxiliary: processes that exited in the middle of their own calls

vars == <<process_list, next, state, needspoll, poll_requested, events, fevent,
          nevents, process_current, stack, main, owed, awaited, stray>>

ring == <<events, fevent, nevents>>
polls == <<needspoll, poll_requested, owed>>

Pointer == Proc \cup {NULL}
Event == {"USER", "EXIT", "INIT", "EXITED", "POLL", "none"}

\* `live' records that the receiver was on the list when the event was posted.
Slot == [ev : Event, p : Pointer \cup {ZOMBIE}, live : BOOLEAN]
EmptySlot == [ev |-> "none", p |-> NULL, live |-> FALSE]

\* The value of `back' in an activation that does not restore process_current.
KEEP == "keep"
ASSUME KeepAssumption == KEEP \notin Pointer

PollFrame == [kind : {"do_poll"}, at : Pointer, pc : {"clear", "walk"}]
BroadcastFrame ==
  {f \in [kind : {"do_event"}, ev : Event, at : Pointer, pc : {"walk", "call"}] :
     f.pc = "call" => f.at # NULL}
\* "thread" is run by call_process(), "exit_thread" by exit_process().
ThreadFrame == [kind : {"thread", "exit_thread"}, p : Proc, ev : Event,
                back : Pointer \cup {KEEP}, calls : 0..MaxCalls]
ExitFrame == [kind : {"exit_process"}, p : Proc, from : Pointer, at : Pointer,
              back : Pointer, pc : {"walk", "unlink"}]
Frame == PollFrame \cup BroadcastFrame \cup ThreadFrame \cup ExitFrame

ThreadKind == {"thread", "exit_thread"}

Listed == {process_list[i] : i \in DOMAIN process_list}

Position(p) == CHOOSE j \in DOMAIN process_list : process_list[j] = p

\* The loop "for(q = process_list; q != NULL; q = q->next)" advanced from `at',
\* where NULL stands for a loop that has not started.  A process that left the
\* list keeps its next pointer.
After(at) ==
  IF at = NULL
  THEN IF process_list = <<>> THEN NULL ELSE process_list[1]
  ELSE IF at \in Listed
  THEN IF Position(at) = Len(process_list) THEN NULL ELSE process_list[Position(at) + 1]
  ELSE next[at]

Top == stack[Len(stack)]
Callers == SubSeq(stack, 1, Len(stack) - 1)
TopIs(kind) == stack # <<>> /\ Top.kind = kind
TopAt(kind, pc) == TopIs(kind) /\ Top.pc = pc

\* A process whose thread is somewhere on the stack.
Active(p) == \E i \in DOMAIN stack : stack[i].kind \in ThreadKind /\ stack[i].p = p

\* The processes that process_exit() finds running and outside their own thread.  It may
\* also be called for the one that executes, which some programs do to exit themselves.
Exitable(p) == state[p] # "NONE" /\ ~Active(p)

\* A thread or an exit_process() of p is one of these activations.
Busy(frames, p) ==
  \E i \in DOMAIN frames : frames[i].kind \in ThreadKind \cup {"exit_process"} /\ frames[i].p = p

\* A stray process: process_exit() was called for it while its thread or its exit_process()
\* was on the stack, or it was made RUNNING off the list; and it did not exit otherwise since.
Exited(p) == IF p \in Listed /\ ~Busy(stack, p) THEN stray ELSE stray \cup {p}
Revived(p) == IF p \in Listed THEN stray ELSE stray \cup {p}
Left(p) == IF state[p] = "NONE" /\ ~Busy(Callers, p) THEN stray \ {p} ELSE stray

Thread(kind, p, ev, back) ==
  [kind |-> kind, p |-> p, ev |-> ev, back |-> back, calls |-> 0]

StartPoll == [kind |-> "do_poll", at |-> NULL, pc |-> "clear"]

--------------------------------------------------------------------------------
(* The functions of process.c.  `frames' is the stack of the caller.            *)

\* "p->state & PROCESS_STATE_RUNNING"
CallableIfActive(st, p) == st[p] # "NONE"
CallableAlways(st, p) == TRUE
Callable(st, p) == st[p] = "RUNNING"

\* call_process(p, ev) with process states st: only a RUNNING process is called.
\* `back' is what process_post_synch() writes to process_current afterwards.
call_process(st, frames, p, ev, back) ==
  IF Callable(st, p)
  THEN /\ process_current' = p
       /\ state' = [st EXCEPT ![p] = "CALLED"]
       /\ stack' = Append(frames, Thread("thread", p, ev, back))
  ELSE /\ state' = st
       /\ stack' = frames
       /\ UNCHANGED process_current

RingFullTooLate == nevents = NumEvents + 1
RingFull == nevents = NumEvents

FreeSlotFromZero == nevents % NumEvents
FreeSlot == (fevent + nevents) % NumEvents

\* process_post(p, ev): refused when the ring is full.
process_post(p, ev) ==
  IF RingFull
  THEN UNCHANGED ring
  ELSE /\ events' = [events EXCEPT ![FreeSlot] =
                       [ev |-> ev, p |-> p, live |-> p \in Listed]]
       /\ nevents' = nevents + 1
       /\ UNCHANGED fevent

\* The search of process_start().
OnListByState(p) == state[p] # "NONE"
OnList(p) == p \in Listed

\* process_start(p): a listed process is left alone, another one becomes the
\* head of the list, RUNNING, and is called with INIT.  needspoll is not reset.
process_start(frames, p) ==
  IF OnList(p)
  THEN /\ stack' = frames
       /\ UNCHANGED <<process_list, next, state, process_current>>
  ELSE /\ process_list' = <<p>> \o process_list
       /\ call_process([state EXCEPT ![p] = "RUNNING"], frames, p, "INIT", process_current)
       /\ UNCHANGED next

\* exit_process(p, from) up to its first loop.  A process that is not running
\* goes straight to the unlinking.
exit_process(frames, p, from, back) ==
  /\ state' = [state EXCEPT ![p] = "NONE"]
  /\ stack' = Append(frames,
       [kind |-> "exit_process", p |-> p, from |-> from, at |-> NULL, back |-> back,
        pc |-> IF state[p] = "NONE" THEN "unlink" ELSE "walk"])

\* The slots that hold a queued event.
QueuedSlotsFromZero == 0..(nevents - 1)
QueuedSlots == {(fevent + n) % NumEvents : n \in 0..(nevents - 1)}

\* The events for p that are in the ring lose their receiver.
Zombified(p) ==
  [i \in 0..(NumEvents - 1) |->
     IF events[i].p = p /\ i \in QueuedSlots
     THEN [events[i] EXCEPT !.p = ZOMBIE]
     ELSE events[i]]

\* The next pointer of a process that leaves the list is not changed.
NextCleared(p) == NULL
NextKept(p) == After(p)

\* The end of exit_process(p): p leaves the list keeping its next pointer, its
\* events are retired and process_current is restored.
unlink(p, back) ==
  /\ IF p \in Listed
     THEN /\ next' = [next EXCEPT ![p] = NextKept(p)]
          /\ process_list' = RemoveAt(process_list, Position(p))
     ELSE UNCHANGED <<process_list, next>>
  /\ events' = Zombified(p)
  /\ owed' = owed \ {p}
  /\ awaited' = awaited \ {p}
  /\ stray' = Left(p)
  /\ process_current' = back
  /\ stack' = Callers
  /\ UNCHANGED <<state, needspoll, poll_requested, fevent, nevents, main>>

--------------------------------------------------------------------------------
Init ==
  /\ process_list = <<>>
  /\ next = [p \in Proc |-> NULL]
  /\ state = [p \in Proc |-> "NONE"]
  /\ needspoll = [p \in Proc |-> FALSE]
  /\ poll_requested = FALSE
  /\ events = [i \in 0..(NumEvents - 1) |-> EmptySlot]
  /\ fevent = 0
  /\ nevents = 0
  /\ process_current = NULL
  /\ stack = <<>>
  /\ main = "boot"
  /\ owed = {}
  /\ awaited = {}
  /\ stray = {}

\* main() starts processes before it enters its loop.
BootStart(p) ==
  /\ main = "boot" /\ stack = <<>>
  /\ process_start(stack, p)
  /\ UNCHANGED <<ring, polls, main, awaited, stray>>

BootDone ==
  /\ main = "boot" /\ stack = <<>>
  /\ main' = "poll"
  /\ UNCHANGED <<process_list, next, state, polls, ring, process_current, stack, awaited, stray>>

\* After the poll handlers, process_run() always goes on to do_event().
AfterPollHandlersFirst == IF poll_requested THEN "poll" ELSE "event"
AfterPoll == "event"

\* process_run(): "if(poll_requested) do_poll()", then do_event().
RunPoll ==
  /\ main = "poll" /\ stack = <<>>
  /\ main' = AfterPoll
  /\ stack' = IF poll_requested THEN <<StartPoll>> ELSE <<>>
  /\ UNCHANGED <<process_list, next, state, polls, ring, process_current, awaited, stray>>

\* do_poll(): "poll_requested = 0" and then the loop over the list.
PollClear ==
  /\ TopAt("do_poll", "clear")
  /\ poll_requested' = FALSE
  /\ stack' = Append(Callers, [Top EXCEPT !.pc = "walk"])
  /\ UNCHANGED <<process_list, next, state, needspoll, owed, ring, process_current, main, awaited, stray>>

\* Requests that arrive during the loop of do_poll() stay set for the next one.
RequestClearedLate == FALSE
RequestedAfterLoop == poll_requested

\* One turn of the loop of do_poll(): a process with needspoll is made RUNNING
\* and is called.
PollWalk ==
  /\ TopAt("do_poll", "walk")
  /\ LET p == After(Top.at)
         frames == Append(Callers, [Top EXCEPT !.at = p])
     IN \/ /\ p = NULL
           /\ stack' = Callers
           /\ poll_requested' = RequestedAfterLoop
           /\ UNCHANGED <<state, needspoll, owed, process_current, stray>>
        \/ /\ p # NULL /\ ~needspoll[p]
           /\ stack' = frames
           /\ UNCHANGED <<state, needspoll, poll_requested, owed, process_current, stray>>
        \/ /\ p # NULL /\ needspoll[p]
           /\ needspoll' = [needspoll EXCEPT ![p] = FALSE]
           /\ owed' = owed \ {p}
           /\ call_process([state EXCEPT ![p] = "RUNNING"], frames, p, "POLL", KEEP)
           /\ stray' = Revived(p)
           /\ UNCHANGED poll_requested
  /\ UNCHANGED <<process_list, next, ring, main, awaited>>

\* The head of do_event(): the oldest event leaves the ring.  The slot it leaves
\* is blanked; no code reads it before process_post() writes it again.
Take ==
  /\ main = "event" /\ stack = <<>> /\ nevents > 0
  /\ main' = "poll"
  /\ events' = [events EXCEPT ![fevent] = EmptySlot]
  /\ fevent' = (fevent + 1) % NumEvents
  /\ nevents' = nevents - 1
  /\ UNCHANGED <<process_list, next, polls>>

NoEvent ==
  /\ main = "event" /\ stack = <<>> /\ nevents = 0
  /\ main' = "poll"
  /\ UNCHANGED <<process_list, next, state, polls, ring, process_current, stack, awaited, stray>>

TakeBroadcast ==
  /\ Take
  /\ events[fevent].p = NULL
  /\ stack' = <<[kind |-> "do_event", ev |-> events[fevent].ev, at |-> NULL, pc |-> "walk"]>>
  /\ awaited' = Listed
  /\ UNCHANGED <<state, process_current, stray>>

TakeZombie ==
  /\ Take
  /\ events[fevent].p = ZOMBIE
  /\ UNCHANGED <<state, process_current, stack, awaited, stray>>

\* An event for one process; INIT makes the receiver RUNNING first.
TakeUnicast ==
  /\ Take
  /\ LET p == events[fevent].p
         ev == events[fevent].ev
     IN /\ p \in Proc
        /\ call_process(IF ev = "INIT" THEN [state EXCEPT ![p] = "RUNNING"] ELSE state,
                        <<>>, p, ev, KEEP)
        /\ stray' = IF ev = "INIT" THEN Revived(p) ELSE stray
  /\ UNCHANGED awaited

\* One turn of the broadcast loop of do_event(): poll handlers go first.
BroadcastWalk ==
  /\ TopAt("do_event", "walk")
  /\ LET p == After(Top.at)
         frames == Append(Callers, [Top EXCEPT !.at = p, !.pc = "call"])
     IN stack' = IF p = NULL THEN Callers
                 ELSE IF poll_requested THEN Append(frames, StartPoll)
                 ELSE frames
  /\ UNCHANGED <<process_list, next, state, polls, ring, process_current, main, awaited, stray>>

BroadcastCall ==
  /\ TopAt("do_event", "call")
  /\ call_process(state, Append(Callers, [Top EXCEPT !.pc = "walk"]), Top.at, Top.ev, KEEP)
  /\ awaited' = IF Callable(state, Top.at) THEN awaited \ {Top.at} ELSE awaited
  /\ UNCHANGED <<process_list, next, polls, ring, main, stray>>

--------------------------------------------------------------------------------
(* Process threads.                                                             *)

\* The running thread may make one more kernel call, of the kind `call'.
MayCall(call) ==
  /\ call \in Calls
  /\ stack # <<>>
  /\ Top.kind \in ThreadKind
  /\ Top.calls < MaxCalls
  /\ Len(stack) < MaxDepth

Caller == Append(Callers, [Top EXCEPT !.calls = @ + 1])

ThreadPost(p, ev) ==
  /\ MayCall("post")
  /\ process_post(p, ev)
  /\ stack' = Caller
  /\ UNCHANGED <<process_list, next, state, polls, process_current, main, awaited, stray>>

ThreadPostSynch(p, ev) ==
  /\ MayCall("post_synch")
  /\ call_process(state, Caller, p, ev, process_current)
  /\ UNCHANGED <<process_list, next, polls, ring, main, awaited, stray>>

ThreadStart(p) ==
  /\ MayCall("start")
  /\ process_start(Caller, p)
  /\ UNCHANGED <<polls, ring, main, awaited, stray>>

\* process_exit(p), called by the process PROCESS_CURRENT().
ThreadExit(p) ==
  /\ \/ MayCall("exit") /\ Exitable(p)
     \/ MayCall("exit_any") /\ ~Exitable(p)
  /\ exit_process(Caller, p, process_current, process_current)
  /\ stray' = Exited(p)
  /\ UNCHANGED <<process_list, next, polls, ring, process_current, main, awaited>>

\* process_post_synch() writes the caller back to process_current.
NotRestored(back) == process_current
Restored(back) == IF back = KEEP THEN process_current ELSE back

\* The end of call_process() after the thread waits or yields.
ThreadYields ==
  /\ TopIs("thread") /\ Top.ev # "EXIT"
  /\ state' = [state EXCEPT ![Top.p] = "RUNNING"]
  /\ process_current' = Restored(Top.back)
  /\ stack' = Callers
  /\ UNCHANGED <<process_list, next, polls, ring, main, awaited, stray>>

\* The end of call_process() after the thread exited, ended or was told to EXIT.
ThreadEnds ==
  /\ TopIs("thread")
  /\ exit_process(Callers, Top.p, Top.p, Restored(Top.back))
  /\ UNCHANGED <<process_list, next, polls, ring, process_current, main, awaited, stray>>

\* exit_process() ignores what the thread it called returns.
ExitThreadReturns ==
  /\ TopIs("exit_thread")
  /\ stack' = Callers
  /\ UNCHANGED <<process_list, next, state, polls, ring, process_current, main, awaited, stray>>

\* One turn of the loop of exit_process(): every other process is called with
\* EXITED.  After the loop p itself is called with EXIT, unless it is the caller.
ExitWalk ==
  /\ TopAt("exit_process", "walk")
  /\ LET q == After(Top.at)
         looping == Append(Callers, [Top EXCEPT !.at = q])
         leaving == Append(Callers, [Top EXCEPT !.pc = "unlink"])
     IN \/ /\ q = NULL /\ Top.p # Top.from
           /\ process_current' = Top.p
           /\ stack' = Append(leaving, Thread("exit_thread", Top.p, "EXIT", KEEP))
           /\ UNCHANGED state
        \/ /\ q = NULL /\ Top.p = Top.from
           /\ stack' = leaving
           /\ UNCHANGED <<state, process_current>>
        \/ /\ q # NULL /\ q = Top.p
           /\ stack' = looping
           /\ UNCHANGED <<state, process_current>>
        \/ /\ q # NULL /\ q # Top.p
           /\ call_process(state, looping, q, "EXITED", KEEP)
  /\ UNCHANGED <<process_list, next, polls, ring, main, awaited, stray>>

ExitUnlink ==
  /\ TopAt("exit_process", "unlink")
  /\ unlink(Top.p, Top.back)

--------------------------------------------------------------------------------
\* process_poll(p), in an interrupt handler or in a thread.
process_poll(p) ==
  /\ state[p] \in {"RUNNING", "CALLED"}
  /\ needspoll' = [needspoll EXCEPT ![p] = TRUE]
  /\ poll_requested' = TRUE
  /\ owed' = owed \cup ({p} \cap Listed)
  /\ UNCHANGED <<process_list, next, state, ring, process_current, stack, main, awaited, stray>>

MainLoop == BootDone \/ RunPoll \/ NoEvent \/ TakeBroadcast \/ TakeZombie \/ TakeUnicast

Walk == PollClear \/ PollWalk \/ BroadcastWalk \/ BroadcastCall \/ ExitWalk \/ ExitUnlink

ThreadStep ==
  \/ \E p \in Pointer, ev \in Posted : ThreadPost(p, ev)
  \/ \E p \in Proc, ev \in Posted : ThreadPostSynch(p, ev)
  \/ \E p \in Proc : ThreadStart(p) \/ ThreadExit(p)
  \/ ThreadYields \/ ThreadEnds \/ ExitThreadReturns

Next ==
  \/ \E p \in Proc : BootStart(p)
  \/ \E p \in Polled : process_poll(p)
  \/ MainLoop
  \/ Walk
  \/ ThreadStep

\* The CPU keeps executing: the main loop, the kernel and the threads it calls
\* take steps for ever, and main(), which starts a fixed list of processes, reaches
\* its loop.  Nothing obliges an interrupt to occur.
Fairness ==
  SF_vars(BootDone) /\ WF_vars(MainLoop) /\ WF_vars(Walk) /\ WF_vars(ThreadStep)

Spec == Init /\ [][Next]_vars
FairSpec == Spec /\ Fairness
================================================================================
