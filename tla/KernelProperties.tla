--------------------------- MODULE KernelProperties ---------------------------
(***************************************************************************)
(* What the process kernel guarantees to the programs that run on it.      *)
(***************************************************************************)
EXTENDS ProcessKernel

ProcessState == {"NONE", "RUNNING", "CALLED"}

\* Every variable has its type: the ring indices stay inside the ring, and the
\* list and the stack hold processes and activations.
TypeOK ==
  /\ process_list \in Seq(Proc)
  /\ next \in [Proc -> Pointer]
  /\ state \in [Proc -> ProcessState]
  /\ needspoll \in [Proc -> BOOLEAN]
  /\ poll_requested \in BOOLEAN
  /\ events \in [0..(NumEvents - 1) -> Slot]
  /\ fevent \in 0..(NumEvents - 1)
  /\ nevents \in 0..NumEvents
  /\ process_current \in Pointer
  /\ stack \in Seq(Frame)
  /\ main \in {"boot", "poll", "event"}
  /\ owed \subseteq Proc
  /\ awaited \subseteq Proc
  /\ stray \subseteq Proc

\* Whatever nested calls, starts and exits a thread caused, PROCESS_CURRENT() names
\* the process whose thread is executing: etimer_set(), ctimer_set() and the uIP
\* calls take the owner of what they allocate from it.
CurrentIsExecuting ==
  (TopIs("thread") \/ TopIs("exit_thread")) => process_current = Top.p

\* What makes that inductive: every activation that a thread called, directly or
\* through exit_process(), writes that thread back to process_current when it ends.
Returns(s) ==
  \A i \in 2..Len(s) :
    s[i - 1].kind \in ThreadKind =>
      s[i].kind \in {"thread", "exit_process"} /\ s[i].back = s[i - 1].p
ReturnsToCaller == Returns(stack)

\* No process is on the list twice, however it exited and was started again.
ListedOnce ==
  \A i, j \in DOMAIN process_list : process_list[i] = process_list[j] => i = j

Queued(n) == events[(fevent + n) % NumEvents]

\* An event posted to a listed process never outlives it: when the process leaves
\* the list its queued events are retired, so that a process structure that is
\* started again, or reused, receives nothing meant for its earlier life.
EventsDieWithReceiver ==
  \A n \in 0..(nevents - 1) :
    Queued(n).live /\ Queued(n).p \in Proc => Queued(n).p \in Listed

\* The processes the loop at `at' has still to reach: those in every set that holds the
\* one after `at' and, with each process, the one after it.
AfterClosed(S) == \A q \in S \ {NULL} : After(q) \in S
Ahead(at) ==
  {p \in Proc : \A S \in SUBSET Pointer : After(at) \in S /\ AfterClosed(S) => p \in S}

\* A poll request is never lost: as long as the process is on the list and has not
\* been called with POLL, either poll_requested is set, or a do_poll() is running
\* that has still to reach the process, also when the processes its loop stands on
\* exit or are started again.
NoPollLost ==
  \A p \in owed :
    /\ p \in Listed /\ needspoll[p]
    /\ \/ poll_requested
       \/ \E i \in DOMAIN stack :
            /\ stack[i].kind = "do_poll"
            /\ stack[i].pc = "clear" \/ p \in Ahead(stack[i].at)

\* process_is_running() is true exactly of the listed processes, those in the middle of
\* exit_process() apart, and those that exited in the middle of their own calls: a process
\* that exits itself and then waits is RUNNING and not on the list (process.c:204).
RunningIffListed ==
  \A p \in Proc :
    /\ state[p] # "NONE" => p \in Listed \/ p \in stray
    /\ p \in Listed /\ state[p] = "NONE" =>
         \E i \in DOMAIN stack : stack[i].kind = "exit_process" /\ stack[i].p = p

\* A protothread keeps its place in a single variable, so its thread must not be
\* entered while an activation of it is on the stack.  It is not, unless the process
\* exited in the middle of its own calls: started again, it is called again.
NotReentered ==
  \A i, j \in DOMAIN stack :
    /\ stack[i].kind \in ThreadKind /\ stack[j].kind \in ThreadKind
    /\ stack[i].p = stack[j].p /\ stack[i].p \notin stray
    => i = j

\* A broadcast reaches every process that was on the list when it was taken from
\* the ring and that does not exit: whatever processes exit, start or are polled
\* during the broadcast, its loop never steps past one it has not called.
BroadcastReachesAll ==
  \A p \in awaited :
    /\ p \in Listed
    /\ stack # <<>> /\ stack[1].kind = "do_event"
    /\ (stack[1].pc = "call" /\ stack[1].at = p) \/ p \in Ahead(stack[1].at)

Queue == [n \in 1..nevents |-> [ev |-> Queued(n - 1).ev, p |-> Queued(n - 1).p]]

Q == INSTANCE EventQueue WITH Receiver <- Pointer, Capacity <- NumEvents, queue <- Queue

\* The ring, its index arithmetic and its zombie marks implement the bounded
\* first-in first-out queue of EventQueue.
RingIsQueue == Q!Spec

\* Every event that is accepted is taken from the ring: the oldest one does not
\* stay there for ever.
OldestIsTaken ==
  \A i \in 0..(NumEvents - 1) :
    (nevents > 0 /\ fevent = i) ~> (nevents = 0 \/ fevent # i)

\* Every process that is polled is called with POLL, or exits.
PollAnswered == \A p \in Proc : p \in owed ~> p \notin owed
================================================================================
