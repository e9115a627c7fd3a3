------------------------------ MODULE EventQueue ------------------------------
(***************************************************************************)
(* What the event queue of the process kernel promises to its users: a     *)
(* bounded first-in first-out queue of (event, receiver) pairs in which    *)
(* the events of a process that exits stay in place but lose their         *)
(* receiver.  core/sys/process.c implements it with a ring buffer; the     *)
(* module ProcessKernel is shown to implement this one.                    *)
(***************************************************************************)
EXTENDS Naturals, Sequences

CONSTANTS Event,     \* the event identifiers
          Receiver,  \* the processes, and the address of a broadcast
          ZOMBIE,    \* PROCESS_ZOMBIE, the receiver of a retired event
          Capacity   \* PROCESS_CONF_NUMEVENTS

VARIABLE queue

Item == [ev : Event, p : Receiver \cup {ZOMBIE}]

Init == queue = <<>>

\* process_post(): a full queue refuses the event.
Post(ev, p) ==
  /\ Len(queue) < Capacity
  /\ queue' = Append(queue, [ev |-> ev, p |-> p])

\* do_event(): the oldest event is taken.
Take ==
  /\ queue # <<>>
  /\ queue' = Tail(queue)

\* exit_process(): the events for p keep their place and lose their receiver.
Retire(p) ==
  queue' = [i \in DOMAIN queue |->
              IF queue[i].p = p THEN [queue[i] EXCEPT !.p = ZOMBIE] ELSE queue[i]]

Next ==
  \/ \E ev \in Event, p \in Receiver : Post(ev, p)
  \/ Take
  \/ \E p \in Receiver : Retire(p)

Spec == Init /\ [][Next]_queue
===============================================================================
