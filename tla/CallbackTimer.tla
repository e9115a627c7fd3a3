----------------------------- MODULE CallbackTimer -----------------------------
(***************************************************************************)
(* Callback timers, core/net/rime/ctimer.c, on the event timers of         *)
(* EventTimer.  The timer of a callback timer is its etimer, which always  *)
(* belongs to ctimer_process; a callback timer waits on ctimer_list until  *)
(* ctimer_process receives the TIMER event of its etimer.                  *)
(*                                                                         *)
(* The clock interrupt does not touch ctimer_list, so the changes of the   *)
(* list are part of the first step of the etimer operation they go with.   *)
(* What a callback calls is called by CtimerProgram.  The other timers of  *)
(* Timer are used by other processes, as in EventTimer.                    *)
(***************************************************************************)
EXTENDS EventTimer

CONSTANTS Ctimer,          \* the callback timers
          ctimer_process

ASSUME CtimerAssumption == Ctimer \subseteq Timer /\ ctimer_process \in Proc

VARIABLES
  ctimer_list,   \* from the head of the list
  initialized

ctimer == <<ctimer_list, initialized>>

Waiting == {ctimer_list[i] : i \in DOMAIN ctimer_list}

CtimerInit == Init /\ ctimer_list = <<>> /\ initialized = FALSE

\* list_remove(), and list_add() at the tail.
list_remove(c) == Only(ctimer_list, Ctimer \ {c})
list_add(c) == Append(list_remove(c), c)

\* ctimer_init() empties the list before it starts ctimer_process, whose first loop
\* therefore finds no timer to set.
ctimer_init ==
  /\ pc = "idle" /\ ~initialized
  /\ initialized' = TRUE
  /\ ctimer_list' = <<>>
  /\ UNCHANGED vars

\* ctimer_set(), which before ctimer_init() only notes the interval.
ctimer_set(c, i) ==
  /\ \/ initialized /\ etimer_set(ctimer_process, c, i)
     \/ /\ ~initialized /\ Calls(ctimer_process, "set")
        /\ interval' = [interval EXCEPT ![c] = i]
        /\ interrupted' = FALSE
        /\ UNCHANGED <<count, timerlist, start, owner, next_expiration, polled, pc, at, kernel, clock>>
  /\ ctimer_list' = list_add(c)
  /\ UNCHANGED initialized

ctimer_reset(c) ==
  /\ \/ initialized /\ etimer_reset(ctimer_process, c)
     \/ ~initialized /\ Calls(ctimer_process, "reset") /\ UNCHANGED vars
  /\ ctimer_list' = list_add(c)
  /\ UNCHANGED initialized

\* ctimer_stop() does not take back a TIMER event that is already posted.
StopOnlyEtimer(c) == ctimer_list
StopRemoves(c) == list_remove(c)

ctimer_stop(c) ==
  /\ \/ initialized /\ etimer_stop(ctimer_process, c)
     \/ ~initialized /\ Calls(ctimer_process, "stop") /\ UNCHANGED vars
  /\ ctimer_list' = StopRemoves(c)
  /\ UNCHANGED initialized

\* ctimer_process receives a TIMER event: a timer that is on the list leaves it and
\* its function is called.
Callback(c) == do_event /\ Head(queue).ev = c /\ c \in Waiting

Expire ==
  /\ do_event
  /\ ctimer_list' = list_remove(Head(queue).ev)
  /\ UNCHANGED initialized

CtimerProgram ==
  \/ \E c \in Ctimer :
       ctimer_reset(c) \/ ctimer_stop(c) \/ \E i \in Interval : ctimer_set(c, i)
  \/ ctimer_init

\* main() calls ctimer_init() before it starts the programs.
OtherProgram ==
  /\ initialized
  /\ \E p \in Proc \ {ctimer_process} :
       \/ \E t \in Timer \ Ctimer : Use(p, t)
       \/ process_exit(p) \/ process_start(p)

CtimerNext ==
  \/ (Tick \/ Etimer \/ OtherProgram) /\ UNCHANGED ctimer
  \/ Expire
  \/ CtimerProgram

\* The clock ticks, process_run() goes on polling and taking events, and main()
\* reaches ctimer_init().
CtimerSpec ==
  /\ CtimerInit /\ [][CtimerNext]_<<vars, ctimer>>
  /\ WF_<<vars, ctimer>>(Tick /\ UNCHANGED ctimer)
  /\ SF_<<vars, ctimer>>(PollEtimer /\ UNCHANGED ctimer)
  /\ WF_<<vars, ctimer>>(Etimer /\ UNCHANGED ctimer)
  /\ SF_<<vars, ctimer>>(Expire) /\ SF_<<vars, ctimer>>(ctimer_init)

--------------------------------------------------------------------------------
(* Properties.                                                                  *)

Posted == {queue[i].ev : i \in DOMAIN queue}

\* A callback timer on the list will be called: its etimer is running, or its TIMER
\* event is in the queue.  No sequence of sets, resets, stops and expirations leaves
\* a timer on the list that nothing will ever wake.
NoCallbackLost == initialized => Waiting \subseteq Listed \cup Posted

\* A callback timer that expires is called, unless it is set again, reset or stopped.
CallbackComes ==
  \A c \in Ctimer :
    initialized /\ c \in Waiting /\ left[c] <= 0 ~> c \notin Waiting \/ left[c] > 0

\* "The ctimer module provides a timer mechanism that calls a specified C function
\* when a ctimer expires": not before.
CalledWhenItExpires == [][\A c \in Ctimer : Callback(c) => left[c] <= 0]_vars
===============================================================================
