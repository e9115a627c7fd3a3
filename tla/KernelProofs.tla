----------------------------- MODULE KernelProofs -----------------------------
(***************************************************************************)
(* Theorems about the process kernel, for programs whose threads may make  *)
(* any of the modelled calls, in any nesting.                              *)
(*   - the event queue and the calls on the stack;                         *)
(*   - the loops that walk the list of processes, which the threads they   *)
(*     call change: no poll request is lost and no broadcast steps past a  *)
(*     process;                                                            *)
(*   - the exit protocol: what is RUNNING is listed, and no thread is      *)
(*     entered twice.  A process that exited in the middle of its own calls*)
(*     is excepted, as long as it does not exit otherwise (`stray').       *)
(***************************************************************************)
EXTENDS KernelProperties, SequenceTheorems, WellFoundedInduction, TLAPS

\* A set of numbers has a least one.
LEMMA LeastNumber ==
  ASSUME NEW T \in SUBSET Nat, T # {}
  PROVE  \E x \in T : \A y \in T : x <= y
<1> DEFINE R == {r \in Nat \X Nat : r[1] < r[2]}
<1>1. IsWellFoundedOn(R, Nat)
  BY NatLessThanWellFounded, Zenon DEF OpToRel
<1>2. \A x, y \in Nat : <<x, y>> \notin R => y <= x
  OBVIOUS
<1> HIDE DEF R
<1>3. PICK x \in T : \A y \in T : ~(<<y, x>> \in R)
  BY <1>1, WFMin
<1> QED BY <1>2, <1>3

--------------------------------------------------------------------------------
(* Facts about data.                                                            *)

\* A remainder is an index of the ring, and for less than two turns it is a
\* subtraction.
LEMMA ModRange == \A n \in Nat \ {0} : \A k \in Nat : k % n \in 0..(n - 1)
  BY SMT
LEMMA ModSmall == \A n \in Nat \ {0} : \A k \in 0..(n - 1) : k % n = k
  BY SMT
LEMMA ModLarge == \A n \in Nat \ {0} : \A k \in n..(2 * n - 1) : k % n = k - n
  BY SMT

\* A sequence that is not empty, without its last element.
LEMMA WithoutLast ==
  ASSUME NEW S, NEW s \in Seq(S), s # <<>>
  PROVE  /\ Len(s) \in Nat \ {0}
         /\ s[Len(s)] \in S
         /\ SubSeq(s, 1, Len(s) - 1) \in Seq(S)
         /\ Len(SubSeq(s, 1, Len(s) - 1)) = Len(s) - 1
         /\ \A i \in 1..(Len(s) - 1) : SubSeq(s, 1, Len(s) - 1)[i] = s[i]
<1>1. Len(s) \in Nat \ {0} /\ DOMAIN s = 1..Len(s)
  BY EmptySeq, LenProperties
<1>2. \A i \in 1..Len(s) : s[i] \in S
  BY ElementOfSeq
<1>3. \A i \in 1..(Len(s) - 1) : s[i] \in S
  BY <1>1, <1>2
<1>4. /\ SubSeq(s, 1, Len(s) - 1) \in Seq(S)
      /\ Len(SubSeq(s, 1, Len(s) - 1)) = IF 1 <= Len(s) - 1 THEN Len(s) - 1 - 1 + 1 ELSE 0
      /\ \A i \in 1..(Len(s) - 1 - 1 + 1) : SubSeq(s, 1, Len(s) - 1)[i] = s[1 + i - 1]
  BY <1>1, <1>3, SubSeqProperties
<1> QED
  BY <1>1, <1>2, <1>4

\* A sequence without its i-th element.
LEMMA RemoveAtFacts ==
  ASSUME NEW S, NEW s \in Seq(S), NEW i \in 1..Len(s)
  PROVE  /\ RemoveAt(s, i) \in Seq(S)
         /\ Len(RemoveAt(s, i)) = Len(s) - 1
         /\ \A j \in 1..(Len(s) - 1) :
              RemoveAt(s, i)[j] = IF j < i THEN s[j] ELSE s[j + 1]
<1> DEFINE a == SubSeq(s, 1, i - 1)
           b == SubSeq(s, i + 1, Len(s))
<1>1. Len(s) \in Nat /\ \A j \in 1..Len(s) : s[j] \in S
  BY LenProperties, ElementOfSeq
<1>2. /\ a \in Seq(S) /\ Len(a) = i - 1
      /\ \A j \in 1..(i - 1) : a[j] = s[j]
  <2>1. \A j \in 1..(i - 1) : s[j] \in S
    BY <1>1
  <2>2. /\ a \in Seq(S)
        /\ Len(a) = IF 1 <= i - 1 THEN i - 1 - 1 + 1 ELSE 0
        /\ \A j \in 1..(i - 1 - 1 + 1) : a[j] = s[1 + j - 1]
    BY <1>1, <2>1, SubSeqProperties
  <2> QED BY <1>1, <2>2
<1>3. /\ b \in Seq(S) /\ Len(b) = Len(s) - i
      /\ \A j \in 1..(Len(s) - i) : b[j] = s[i + j]
  <2>1. \A j \in (i + 1)..Len(s) : s[j] \in S
    BY <1>1
  <2>2. /\ b \in Seq(S)
        /\ Len(b) = IF i + 1 <= Len(s) THEN Len(s) - (i + 1) + 1 ELSE 0
        /\ \A j \in 1..(Len(s) - (i + 1) + 1) : b[j] = s[i + 1 + j - 1]
    BY <1>1, <2>1, SubSeqProperties
  <2> QED BY <1>1, <2>2
<1>4. RemoveAt(s, i) = a \o b
  BY DEF RemoveAt
<1>5. /\ a \o b \in Seq(S) /\ Len(a \o b) = Len(a) + Len(b)
      /\ \A j \in 1..(Len(a) + Len(b)) :
           (a \o b)[j] = IF j <= Len(a) THEN a[j] ELSE b[j - Len(a)]
  BY <1>2, <1>3, ConcatProperties
<1> HIDE DEF a, b
<1> QED
  <2>1. RemoveAt(s, i) \in Seq(S) /\ Len(RemoveAt(s, i)) = Len(s) - 1
    BY <1>1, <1>2, <1>3, <1>4, <1>5
  <2>2. ASSUME NEW j \in 1..(Len(s) - 1)
        PROVE  RemoveAt(s, i)[j] = IF j < i THEN s[j] ELSE s[j + 1]
    <3>1. CASE j < i
      BY <1>1, <1>2, <1>3, <1>4, <1>5, <3>1
    <3>2. CASE j >= i
      BY <1>1, <1>2, <1>3, <1>4, <1>5, <3>2
    <3> QED BY <1>1, <3>1, <3>2
  <2> QED BY <2>1, <2>2

--------------------------------------------------------------------------------
(* Type correctness.                                                            *)

LEMMA TopTyped ==
  ASSUME stack \in Seq(Frame), stack # <<>>
  PROVE  Top \in Frame /\ Callers \in Seq(Frame)
  BY WithoutLast DEF Top, Callers

\* The fields of an activation, by its kind.
LEMMA FrameFields ==
  ASSUME NEW f \in Frame
  PROVE  /\ f.kind = "do_poll" =>
              f \in PollFrame /\ f.at \in Pointer
         /\ f.kind = "do_event" =>
              f \in BroadcastFrame /\ f.at \in Pointer /\ f.ev \in Event
              /\ (f.pc = "call" => f.at \in Proc)
         /\ f.kind \in ThreadKind =>
              f \in ThreadFrame /\ f.p \in Proc /\ f.ev \in Event
              /\ f.back \in Pointer \cup {KEEP} /\ f.calls \in 0..MaxCalls
         /\ f.kind = "exit_process" =>
              f \in ExitFrame /\ f.p \in Proc /\ f.from \in Pointer
              /\ f.at \in Pointer /\ f.back \in Pointer
  BY DEF Frame, PollFrame, BroadcastFrame, ThreadFrame, ExitFrame, ThreadKind, Pointer

LEMMA PositionTyped ==
  ASSUME process_list \in Seq(Proc), NEW p, p \in Listed
  PROVE  Position(p) \in 1..Len(process_list) /\ process_list[Position(p)] = p
<1>1. DOMAIN process_list = 1..Len(process_list)
  BY LenProperties
<1>2. \E j \in DOMAIN process_list : process_list[j] = p
  BY DEF Listed
<1> QED BY <1>1, <1>2 DEF Position

LEMMA AfterTyped ==
  ASSUME TypeOK, NEW at \in Pointer
  PROVE  After(at) \in Pointer
<1>1. \A j \in 1..Len(process_list) : process_list[j] \in Proc
  BY ElementOfSeq DEF TypeOK
<1>2. Len(process_list) \in Nat /\ (process_list # <<>> => Len(process_list) >= 1)
  BY EmptySeq, LenProperties DEF TypeOK
<1>3. CASE at = NULL
  BY <1>1, <1>2, <1>3 DEF After, Pointer
<1>4. CASE at # NULL /\ at \in Listed
  <2>1. Position(at) \in 1..Len(process_list)
    BY <1>4, PositionTyped DEF TypeOK
  <2> QED BY <1>1, <1>2, <1>4, <2>1 DEF After, Pointer
<1>5. CASE at # NULL /\ at \notin Listed
  BY <1>5 DEF After, Pointer, TypeOK
<1> QED BY <1>3, <1>4, <1>5

LEMMA CallTyped ==
  ASSUME TypeOK, NEW st \in [Proc -> ProcessState], NEW frames \in Seq(Frame),
         NEW p \in Proc, NEW ev \in Event, NEW back \in Pointer \cup {KEEP},
         call_process(st, frames, p, ev, back)
  PROVE  /\ state' \in [Proc -> ProcessState]
         /\ stack' \in Seq(Frame)
         /\ process_current' \in Pointer
<1>1. Thread("thread", p, ev, back) \in Frame
  BY BoundAssumption DEF Thread, Frame, ThreadFrame
<1>2. Append(frames, Thread("thread", p, ev, back)) \in Seq(Frame)
  BY <1>1
<1>3. [st EXCEPT ![p] = "CALLED"] \in [Proc -> ProcessState]
  BY DEF ProcessState
<1> QED BY <1>2, <1>3 DEF call_process, TypeOK, Pointer

LEMMA InitTyped == Init => TypeOK
<1>1. EmptySlot \in Slot
  BY DEF EmptySlot, Slot, Event, Pointer
<1>2. <<>> \in Seq(Proc) /\ <<>> \in Seq(Frame)
  OBVIOUS
<1>3. 0 \in 0..(NumEvents - 1) /\ 0 \in 0..NumEvents
  BY RingAssumption
<1> QED BY <1>1, <1>2, <1>3 DEF Init, TypeOK, Pointer, ProcessState

LEMMA StartTyped ==
  ASSUME TypeOK, NEW frames \in Seq(Frame), NEW p \in Proc, process_start(frames, p)
  PROVE  /\ process_list' \in Seq(Proc)
         /\ next' = next
         /\ state' \in [Proc -> ProcessState]
         /\ stack' \in Seq(Frame)
         /\ process_current' \in Pointer
<1>1. CASE OnList(p)
  BY <1>1 DEF process_start, TypeOK
<1>2. CASE ~OnList(p)
  <2>1. process_list' = <<p>> \o process_list
    BY <1>2 DEF process_start
  <2>2. <<p>> \in Seq(Proc)
    OBVIOUS
  <2>3. process_list' \in Seq(Proc)
    BY <2>1, <2>2, ConcatProperties DEF TypeOK
  <2>4. [state EXCEPT ![p] = "RUNNING"] \in [Proc -> ProcessState]
    BY DEF TypeOK, ProcessState
  <2>5. "INIT" \in Event /\ process_current \in Pointer \cup {KEEP}
    BY DEF Event, TypeOK
  <2>6. call_process([state EXCEPT ![p] = "RUNNING"], frames, p, "INIT", process_current)
        /\ next' = next
    BY <1>2 DEF process_start
  <2> QED BY <2>3, <2>4, <2>5, <2>6, CallTyped
<1> QED BY <1>1, <1>2

LEMMA ExitTyped ==
  ASSUME TypeOK, NEW frames \in Seq(Frame), NEW p \in Proc,
         NEW from \in Pointer, NEW back \in Pointer,
         exit_process(frames, p, from, back)
  PROVE  state' \in [Proc -> ProcessState] /\ stack' \in Seq(Frame)
<1> DEFINE f == [kind |-> "exit_process", p |-> p, from |-> from, at |-> NULL, back |-> back,
                 pc |-> IF state[p] = "NONE" THEN "unlink" ELSE "walk"]
<1>1. f \in Frame
  BY DEF Frame, ExitFrame, Pointer
<1>2. stack' = Append(frames, f)
  BY DEF exit_process
<1>3. stack' \in Seq(Frame)
  BY <1>1, <1>2
<1>4. state' \in [Proc -> ProcessState]
  BY DEF exit_process, TypeOK, ProcessState
<1> QED BY <1>3, <1>4

LEMMA ZombifiedTyped ==
  ASSUME TypeOK, NEW p \in Proc
  PROVE  Zombified(p) \in [0..(NumEvents - 1) -> Slot]
<1>1. ASSUME NEW i \in 0..(NumEvents - 1)
      PROVE  Zombified(p)[i] \in Slot
  <2>1. events[i] \in Slot
    BY DEF TypeOK
  <2>2. [events[i] EXCEPT !.p = ZOMBIE] \in Slot
    BY <2>1 DEF Slot
  <2> QED BY <2>1, <2>2 DEF Zombified
<1> QED BY <1>1 DEF Zombified

LEMMA StrayTyped ==
  ASSUME TypeOK, NEW p \in Proc
  PROVE  Exited(p) \subseteq Proc /\ Revived(p) \subseteq Proc /\ Left(p) \subseteq Proc
  BY DEF TypeOK, Exited, Revived, Left

LEMMA BootTyped ==
  ASSUME TypeOK, NEW p \in Proc, BootStart(p) \/ process_poll(p)
  PROVE  TypeOK'
<1>1. CASE BootStart(p)
  BY <1>1, StartTyped DEF BootStart, TypeOK, ring, polls
<1>2. CASE process_poll(p)
  BY <1>2 DEF process_poll, TypeOK, ring
<1> QED BY <1>1, <1>2

LEMMA TakeTyped ==
  ASSUME TypeOK, Take
  PROVE  /\ process_list' \in Seq(Proc)
         /\ next' \in [Proc -> Pointer]
         /\ needspoll' \in [Proc -> BOOLEAN]
         /\ poll_requested' \in BOOLEAN
         /\ events' \in [0..(NumEvents - 1) -> Slot]
         /\ fevent' \in 0..(NumEvents - 1)
         /\ nevents' \in 0..NumEvents
         /\ main' \in {"boot", "poll", "event"}
         /\ owed' \subseteq Proc
         /\ events[fevent] \in Slot
<1>1. EmptySlot \in Slot
  BY DEF EmptySlot, Slot, Event, Pointer
<1>2. (fevent + 1) % NumEvents \in 0..(NumEvents - 1)
  BY RingAssumption, ModRange DEF TypeOK
<1> QED BY <1>1, <1>2, RingAssumption DEF Take, TypeOK, polls

LEMMA MainTyped ==
  ASSUME TypeOK, MainLoop
  PROVE  TypeOK'
<1>0. StartPoll \in Frame
  BY DEF StartPoll, Frame, PollFrame, Pointer
<1>1. CASE BootDone
  BY <1>1 DEF BootDone, TypeOK, polls, ring
<1>2. CASE RunPoll
  <2>1. <<StartPoll>> \in Seq(Frame) /\ <<>> \in Seq(Frame)
    BY <1>0
  <2> QED BY <1>2, <2>1 DEF RunPoll, AfterPoll, TypeOK, polls, ring
<1>3. CASE NoEvent
  BY <1>3 DEF NoEvent, TypeOK, polls, ring
<1>4. CASE TakeBroadcast
  <2> DEFINE f == [kind |-> "do_event", ev |-> events[fevent].ev, at |-> NULL, pc |-> "walk"]
  <2>1. Take /\ stack' = <<f>> /\ awaited' = Listed /\ UNCHANGED <<state, process_current, stray>>
    BY <1>4 DEF TakeBroadcast
  <2>2. f \in Frame
    BY <2>1, TakeTyped DEF Slot, Frame, BroadcastFrame, Pointer
  <2>3. <<f>> \in Seq(Frame)
    BY <2>2
  <2>4. Listed \subseteq Proc
    BY ElementOfSeq, LenProperties DEF Listed, TypeOK
  <2> HIDE DEF f
  <2> QED BY <2>1, <2>3, <2>4, TakeTyped DEF TypeOK
<1>5. CASE TakeZombie
  BY <1>5, TakeTyped DEF TakeZombie, TypeOK
<1>6. CASE TakeUnicast
  <2> DEFINE p == events[fevent].p
             st == IF events[fevent].ev = "INIT" THEN [state EXCEPT ![p] = "RUNNING"] ELSE state
  <2>1. Take /\ p \in Proc /\ call_process(st, <<>>, p, events[fevent].ev, KEEP)
        /\ awaited' = awaited /\ stray' \in {stray, Revived(p)}
    BY <1>6 DEF TakeUnicast
  <2>6. stray' \subseteq Proc
    BY <2>1, StrayTyped DEF TypeOK
  <2>2. st \in [Proc -> ProcessState]
    BY DEF TypeOK, ProcessState
  <2>3. events[fevent].ev \in Event
    BY <2>1, TakeTyped DEF Slot
  <2>4. <<>> \in Seq(Frame)
    OBVIOUS
  <2> HIDE DEF p, st
  <2>5. /\ state' \in [Proc -> ProcessState] /\ stack' \in Seq(Frame)
        /\ process_current' \in Pointer
    BY <2>1, <2>2, <2>3, <2>4, CallTyped
  <2> QED BY <2>1, <2>5, <2>6, TakeTyped DEF TypeOK
<1> QED BY <1>1, <1>2, <1>3, <1>4, <1>5, <1>6 DEF MainLoop

\* Replacing the top of the stack, and calling from it.
LEMMA ReplaceTop ==
  ASSUME stack \in Seq(Frame), stack # <<>>, NEW f \in Frame
  PROVE  Append(Callers, f) \in Seq(Frame)
  BY TopTyped

LEMMA WalkTyped ==
  ASSUME TypeOK, Walk
  PROVE  TypeOK'
<1>0. stack \in Seq(Frame)
  BY DEF TypeOK
<1>1. CASE PollClear
  <2>1. Top \in PollFrame /\ stack # <<>>
    BY <1>0, <1>1, TopTyped, FrameFields DEF PollClear, TopAt, TopIs
  <2>2. [Top EXCEPT !.pc = "walk"] \in Frame
    BY <2>1 DEF Frame, PollFrame
  <2> QED BY <1>0, <1>1, <2>1, <2>2, ReplaceTop DEF PollClear, TypeOK, ring
<1>2. CASE PollWalk
  <2> DEFINE p == After(Top.at)
             frames == Append(Callers, [Top EXCEPT !.at = p])
  <2>1. Top \in PollFrame /\ stack # <<>> /\ Top.at \in Pointer
    BY <1>0, <1>2, TopTyped, FrameFields DEF PollWalk, TopAt, TopIs
  <2>2. p \in Pointer
    BY <2>1, AfterTyped
  <2>3. [Top EXCEPT !.at = p] \in Frame
    BY <2>1, <2>2 DEF Frame, PollFrame
  <2>4. frames \in Seq(Frame) /\ Callers \in Seq(Frame)
    BY <1>0, <2>1, <2>3, ReplaceTop, TopTyped
  <2>5. UNCHANGED <<process_list, next, ring, main, awaited>>
    BY <1>2 DEF PollWalk
  <2>6. CASE p = NULL
    BY <1>2, <2>4, <2>5, <2>6 DEF PollWalk, RequestedAfterLoop, TypeOK, ring
  <2>7. CASE p # NULL /\ ~needspoll[p]
    BY <1>2, <2>4, <2>5, <2>7 DEF PollWalk, TypeOK, ring
  <2>8. CASE p # NULL /\ needspoll[p]
    <3>1. p \in Proc
      BY <2>2, <2>8 DEF Pointer
    <3>2. [state EXCEPT ![p] = "RUNNING"] \in [Proc -> ProcessState]
      BY DEF TypeOK, ProcessState
    <3>3. /\ call_process([state EXCEPT ![p] = "RUNNING"], frames, p, "POLL", KEEP)
          /\ needspoll' = [needspoll EXCEPT ![p] = FALSE]
          /\ owed' = owed \ {p} /\ stray' = Revived(p)
          /\ UNCHANGED poll_requested
      BY <1>2, <2>8 DEF PollWalk
    <3> HIDE DEF p, frames
    <3>5. stray' \subseteq Proc
      BY <3>1, <3>3, StrayTyped
    <3>4. /\ state' \in [Proc -> ProcessState] /\ stack' \in Seq(Frame)
          /\ process_current' \in Pointer
      BY <2>4, <3>1, <3>2, <3>3, CallTyped DEF Event
    <3> QED BY <2>5, <3>3, <3>4, <3>5 DEF TypeOK, ring
  <2> QED BY <2>6, <2>7, <2>8
<1>3. CASE BroadcastWalk
  <2> DEFINE p == After(Top.at)
             frames == Append(Callers, [Top EXCEPT !.at = p, !.pc = "call"])
  <2>1. Top \in BroadcastFrame /\ stack # <<>> /\ Top.at \in Pointer
    BY <1>0, <1>3, TopTyped, FrameFields DEF BroadcastWalk, TopAt, TopIs
  <2>2. p \in Pointer /\ Callers \in Seq(Frame)
    BY <1>0, <2>1, AfterTyped, TopTyped
  <2>3. CASE p = NULL
    BY <1>3, <2>2, <2>3 DEF BroadcastWalk, TypeOK, polls, ring
  <2>4. CASE p # NULL
    <3>1. [Top EXCEPT !.at = p, !.pc = "call"] \in Frame
      BY <2>1, <2>2, <2>4 DEF Frame, BroadcastFrame
    <3>2. StartPoll \in Frame
      BY DEF StartPoll, Frame, PollFrame, Pointer
    <3>3. frames \in Seq(Frame) /\ Append(frames, StartPoll) \in Seq(Frame)
      BY <2>2, <3>1, <3>2
    <3> QED BY <1>3, <2>4, <3>3 DEF BroadcastWalk, TypeOK, polls, ring
  <2> QED BY <2>3, <2>4
<1>4. CASE BroadcastCall
  <2> DEFINE frames == Append(Callers, [Top EXCEPT !.pc = "walk"])
  <2>1. Top \in BroadcastFrame /\ stack # <<>> /\ Top.at \in Proc /\ Top.ev \in Event
    BY <1>0, <1>4, TopTyped, FrameFields DEF BroadcastCall, TopAt, TopIs
  <2>2. [Top EXCEPT !.pc = "walk"] \in Frame
    BY <2>1 DEF Frame, BroadcastFrame
  <2>3. frames \in Seq(Frame)
    BY <1>0, <2>1, <2>2, ReplaceTop
  <2>4. call_process(state, frames, Top.at, Top.ev, KEEP)
    BY <1>4 DEF BroadcastCall
  <2> HIDE DEF frames
  <2>5. /\ state' \in [Proc -> ProcessState] /\ stack' \in Seq(Frame)
        /\ process_current' \in Pointer
    BY <2>1, <2>3, <2>4, CallTyped DEF TypeOK
  <2>6. /\ awaited' \subseteq awaited
        /\ UNCHANGED <<process_list, next, polls, ring, main, stray>>
    BY <1>4 DEF BroadcastCall
  <2> QED BY <2>5, <2>6 DEF TypeOK, polls, ring
<1>5. CASE ExitWalk
  <2> DEFINE q == After(Top.at)
             looping == Append(Callers, [Top EXCEPT !.at = q])
             leaving == Append(Callers, [Top EXCEPT !.pc = "unlink"])
  <2>1. Top \in ExitFrame /\ stack # <<>> /\ Top.at \in Pointer /\ Top.p \in Proc
    BY <1>0, <1>5, TopTyped, FrameFields DEF ExitWalk, TopAt, TopIs
  <2>2. q \in Pointer
    BY <2>1, AfterTyped
  <2>3. [Top EXCEPT !.at = q] \in Frame /\ [Top EXCEPT !.pc = "unlink"] \in Frame
    BY <2>1, <2>2 DEF Frame, ExitFrame
  <2>4. looping \in Seq(Frame) /\ leaving \in Seq(Frame)
    BY <1>0, <2>1, <2>3, ReplaceTop
  <2>5. UNCHANGED <<process_list, next, polls, ring, main, awaited, stray>>
    BY <1>5 DEF ExitWalk
  <2>6. CASE q = NULL /\ Top.p # Top.from
    <3>1. Thread("exit_thread", Top.p, "EXIT", KEEP) \in Frame
      BY <2>1, BoundAssumption DEF Thread, Frame, ThreadFrame, Event
    <3>2. Append(leaving, Thread("exit_thread", Top.p, "EXIT", KEEP)) \in Seq(Frame)
      BY <2>4, <3>1
    <3> QED BY <1>5, <2>1, <2>5, <2>6, <3>2 DEF ExitWalk, TypeOK, Pointer, polls, ring
  <2>7. CASE q = NULL /\ Top.p = Top.from
    BY <1>5, <2>4, <2>5, <2>7 DEF ExitWalk, TypeOK, polls, ring
  <2>8. CASE q # NULL /\ q = Top.p
    BY <1>5, <2>4, <2>5, <2>8 DEF ExitWalk, TypeOK, polls, ring
  <2>9. CASE q # NULL /\ q # Top.p
    <3>1. q \in Proc
      BY <2>2, <2>9 DEF Pointer
    <3>2. call_process(state, looping, q, "EXITED", KEEP)
      BY <1>5, <2>9 DEF ExitWalk
    <3> HIDE DEF q, looping
    <3>3. /\ state' \in [Proc -> ProcessState] /\ stack' \in Seq(Frame)
          /\ process_current' \in Pointer
      BY <2>4, <3>1, <3>2, CallTyped DEF Event, TypeOK
    <3> QED BY <2>5, <3>3 DEF TypeOK, polls, ring
  <2> QED BY <2>6, <2>7, <2>8, <2>9
<1>6. CASE ExitUnlink
  <2>1. Top \in ExitFrame /\ stack # <<>> /\ Top.back \in Pointer /\ Top.p \in Proc
    BY <1>0, <1>6, TopTyped, FrameFields DEF ExitUnlink, TopAt, TopIs
  <2>2. unlink(Top.p, Top.back)
    BY <1>6 DEF ExitUnlink
  <2>3. Zombified(Top.p) \in [0..(NumEvents - 1) -> Slot] /\ Callers \in Seq(Frame)
    BY <1>0, <2>1, ZombifiedTyped, TopTyped
  <2>4. process_list' \in Seq(Proc) /\ next' \in [Proc -> Pointer]
    <3>1. CASE Top.p \in Listed
      <4>1. Position(Top.p) \in 1..Len(process_list)
        BY <3>1, PositionTyped DEF TypeOK
      <4>2. RemoveAt(process_list, Position(Top.p)) \in Seq(Proc)
        BY <4>1, RemoveAtFacts DEF TypeOK
      <4>3. After(Top.p) \in Pointer
        BY <2>1, AfterTyped DEF Pointer
      <4> QED BY <2>1, <2>2, <3>1, <4>2, <4>3 DEF unlink, NextKept, TypeOK
    <3>2. CASE Top.p \notin Listed
      BY <2>2, <3>2 DEF unlink, TypeOK
    <3> QED BY <3>1, <3>2
  <2>5. /\ events' = Zombified(Top.p) /\ owed' \subseteq owed /\ awaited' \subseteq awaited
        /\ process_current' = Top.back /\ stack' = Callers /\ stray' = Left(Top.p)
        /\ UNCHANGED <<state, needspoll, poll_requested, fevent, nevents, main>>
    BY <2>2 DEF unlink
  <2>6. stray' \subseteq Proc
    BY <2>1, <2>5, StrayTyped
  <2> QED BY <2>1, <2>3, <2>4, <2>5, <2>6 DEF TypeOK
<1> QED BY <1>1, <1>2, <1>3, <1>4, <1>5, <1>6 DEF Walk

LEMMA CallerTyped ==
  ASSUME TypeOK, NEW call, MayCall(call)
  PROVE  Caller \in Seq(Frame) /\ stack # <<>> /\ Top \in ThreadFrame
<1>1. stack \in Seq(Frame) /\ stack # <<>> /\ Top \in ThreadFrame
  BY TopTyped, FrameFields DEF TypeOK, MayCall
<1>2. [Top EXCEPT !.calls = Top.calls + 1] \in Frame
  BY <1>1, BoundAssumption DEF MayCall, Frame, ThreadFrame
<1> QED BY <1>1, <1>2, ReplaceTop DEF Caller

LEMMA PostTyped ==
  ASSUME TypeOK, NEW p \in Pointer, NEW ev \in Posted, process_post(p, ev)
  PROVE  /\ events' \in [0..(NumEvents - 1) -> Slot]
         /\ fevent' \in 0..(NumEvents - 1)
         /\ nevents' \in 0..NumEvents
<1>1. CASE RingFull
  BY <1>1 DEF process_post, ring, TypeOK
<1>2. CASE ~RingFull
  <2>1. [ev |-> ev, p |-> p, live |-> p \in Listed] \in Slot
    BY ProgramAssumption DEF Slot, Event
  <2>2. nevents + 1 \in 0..NumEvents
    BY <1>2, RingAssumption DEF RingFull, TypeOK
  <2> QED BY <1>2, <2>1, <2>2 DEF process_post, TypeOK
<1> QED BY <1>1, <1>2

LEMMA RestoredTyped ==
  ASSUME TypeOK, NEW back \in Pointer \cup {KEEP}
  PROVE  Restored(back) \in Pointer
  BY DEF Restored, TypeOK

LEMMA ThreadTyped ==
  ASSUME TypeOK, ThreadStep
  PROVE  TypeOK'
<1>0. stack \in Seq(Frame) /\ process_current \in Pointer /\ Posted \subseteq Event
  BY ProgramAssumption DEF TypeOK, Event
<1>1. CASE \E p \in Pointer, ev \in Posted : ThreadPost(p, ev)
  <2>1. PICK p \in Pointer, ev \in Posted : ThreadPost(p, ev)
    BY <1>1
  <2>2. stack' \in Seq(Frame)
    BY <2>1, CallerTyped DEF ThreadPost
  <2> QED BY <2>1, <2>2, PostTyped DEF ThreadPost, TypeOK, polls
<1>2. CASE \E p \in Proc, ev \in Posted : ThreadPostSynch(p, ev)
  <2>1. PICK p \in Proc, ev \in Posted : ThreadPostSynch(p, ev)
    BY <1>2
  <2>2. Caller \in Seq(Frame)
    BY <2>1, CallerTyped DEF ThreadPostSynch
  <2>3. call_process(state, Caller, p, ev, process_current)
    BY <2>1 DEF ThreadPostSynch
  <2>4. /\ state' \in [Proc -> ProcessState] /\ stack' \in Seq(Frame)
        /\ process_current' \in Pointer
    BY <1>0, <2>2, <2>3, CallTyped DEF TypeOK
  <2> QED BY <2>1, <2>4 DEF ThreadPostSynch, TypeOK, polls, ring
<1>3. CASE \E p \in Proc : ThreadStart(p)
  <2>1. PICK p \in Proc : ThreadStart(p)
    BY <1>3
  <2>2. Caller \in Seq(Frame) /\ process_start(Caller, p)
    BY <2>1, CallerTyped DEF ThreadStart
  <2> QED BY <2>1, <2>2, StartTyped DEF ThreadStart, TypeOK, polls, ring
<1>4. CASE \E p \in Proc : ThreadExit(p)
  <2>1. PICK p \in Proc : ThreadExit(p)
    BY <1>4
  <2>2. /\ Caller \in Seq(Frame)
        /\ exit_process(Caller, p, process_current, process_current)
    BY <2>1, CallerTyped DEF ThreadExit
  <2>3. state' \in [Proc -> ProcessState] /\ stack' \in Seq(Frame)
    BY <1>0, <2>2, ExitTyped
  <2>4. stray' = Exited(p) /\ Exited(p) \subseteq Proc
    BY <2>1, StrayTyped DEF ThreadExit
  <2> QED BY <2>1, <2>3, <2>4 DEF ThreadExit, TypeOK, polls, ring
<1>5. CASE ThreadYields
  <2>1. Top \in ThreadFrame /\ Top.p \in Proc /\ Top.back \in Pointer \cup {KEEP}
    BY <1>0, <1>5, TopTyped, FrameFields DEF ThreadYields, TopIs, ThreadKind
  <2>2. Restored(Top.back) \in Pointer /\ Callers \in Seq(Frame)
    BY <1>0, <1>5, <2>1, RestoredTyped, TopTyped DEF ThreadYields, TopIs
  <2>3. [state EXCEPT ![Top.p] = "RUNNING"] \in [Proc -> ProcessState]
    BY DEF TypeOK, ProcessState
  <2> QED BY <1>5, <2>2, <2>3 DEF ThreadYields, TypeOK, polls, ring
<1>6. CASE ThreadEnds
  <2>1. Top \in ThreadFrame /\ Top.p \in Proc /\ Top.back \in Pointer \cup {KEEP}
    BY <1>0, <1>6, TopTyped, FrameFields DEF ThreadEnds, TopIs, ThreadKind
  <2>2. Restored(Top.back) \in Pointer /\ Callers \in Seq(Frame) /\ Top.p \in Pointer
    BY <1>0, <1>6, <2>1, RestoredTyped, TopTyped DEF ThreadEnds, TopIs, Pointer
  <2>3. exit_process(Callers, Top.p, Top.p, Restored(Top.back))
    BY <1>6 DEF ThreadEnds
  <2>4. state' \in [Proc -> ProcessState] /\ stack' \in Seq(Frame)
    BY <2>1, <2>2, <2>3, ExitTyped
  <2> QED BY <1>6, <2>4 DEF ThreadEnds, TypeOK, polls, ring
<1>7. CASE ExitThreadReturns
  <2>1. Callers \in Seq(Frame)
    BY <1>0, <1>7, TopTyped DEF ExitThreadReturns, TopIs
  <2> QED BY <1>7, <2>1 DEF ExitThreadReturns, TypeOK, polls, ring
<1> QED BY <1>1, <1>2, <1>3, <1>4, <1>5, <1>6, <1>7 DEF ThreadStep

\* Every variable keeps its type, for any number of processes, any ring and any
\* program.
THEOREM TypeCorrect == Spec => []TypeOK
<1>1. Init => TypeOK
  BY InitTyped
<1>2. TypeOK /\ [Next]_vars => TypeOK'
  <2> SUFFICES ASSUME TypeOK, [Next]_vars PROVE TypeOK'
    OBVIOUS
  <2>1. CASE \E p \in Proc : BootStart(p)
    BY <2>1, BootTyped
  <2>2. CASE \E p \in Polled : process_poll(p)
    BY <2>2, BootTyped, ProgramAssumption
  <2>3. CASE MainLoop
    BY <2>3, MainTyped
  <2>4. CASE Walk
    BY <2>4, WalkTyped
  <2>5. CASE ThreadStep
    BY <2>5, ThreadTyped
  <2>6. CASE UNCHANGED vars
    BY <2>6 DEF vars, TypeOK
  <2> QED BY <2>1, <2>2, <2>3, <2>4, <2>5, <2>6 DEF Next
<1> QED BY <1>1, <1>2, PTL DEF Spec

--------------------------------------------------------------------------------
(* The list and the ring.                                                       *)

\* Every step leaves the ring alone and at most puts one process at the head of the
\* list, or is one of the three operations on the ring.
LEMMA StepCases ==
  ASSUME TypeOK, [Next]_vars
  PROVE  \/ /\ UNCHANGED ring
            /\ \/ UNCHANGED process_list
               \/ \E p \in Proc : p \notin Listed /\ process_list' = <<p>> \o process_list
         \/ /\ UNCHANGED process_list
            /\ \E p \in Pointer, ev \in Posted : process_post(p, ev)
         \/ UNCHANGED process_list /\ Take
         \/ \E p \in Proc, back \in Pointer : unlink(p, back)
<1>1. ASSUME NEW frames, NEW p \in Proc, process_start(frames, p)
      PROVE  \/ UNCHANGED process_list
             \/ p \notin Listed /\ process_list' = <<p>> \o process_list
  BY <1>1 DEF process_start, OnList
<1>2. CASE \E p \in Proc : BootStart(p)
  BY <1>1, <1>2 DEF BootStart
<1>3. CASE \E p \in Polled : process_poll(p)
  BY <1>3 DEF process_poll
<1>4. CASE MainLoop
  BY <1>4 DEF MainLoop, BootDone, RunPoll, NoEvent, TakeBroadcast, TakeZombie, TakeUnicast, Take
<1>5. CASE Walk
  <2>1. CASE ExitUnlink
    <3>1. Top.p \in Proc /\ Top.back \in Pointer
      BY <2>1, TopTyped, FrameFields DEF ExitUnlink, TopAt, TopIs, TypeOK
    <3> QED BY <2>1, <3>1 DEF ExitUnlink
  <2>2. CASE ~ExitUnlink
    BY <1>5, <2>2 DEF Walk, PollClear, PollWalk, BroadcastWalk, BroadcastCall, ExitWalk
  <2> QED BY <2>1, <2>2
<1>6. CASE ThreadStep
  <2>1. CASE \E p \in Pointer, ev \in Posted : ThreadPost(p, ev)
    BY <2>1 DEF ThreadPost
  <2>2. CASE \E p \in Proc, ev \in Posted : ThreadPostSynch(p, ev)
    BY <2>2 DEF ThreadPostSynch
  <2>3. CASE \E p \in Proc : ThreadStart(p)
    BY <1>1, <2>3 DEF ThreadStart
  <2>4. CASE (\E p \in Proc : ThreadExit(p)) \/ ThreadYields \/ ThreadEnds \/ ExitThreadReturns
    BY <2>4 DEF ThreadExit, ThreadYields, ThreadEnds, ExitThreadReturns
  <2> QED BY <1>6, <2>1, <2>2, <2>3, <2>4 DEF ThreadStep
<1>7. CASE UNCHANGED vars
  BY <1>7 DEF vars, ring
<1> QED BY <1>2, <1>3, <1>4, <1>5, <1>6, <1>7 DEF Next

\* A process that starts becomes the first element, the others move up by one.
LEMMA Pushed ==
  ASSUME process_list \in Seq(Proc), NEW p \in Proc, process_list' = <<p>> \o process_list
  PROVE  /\ DOMAIN process_list' = 1..(Len(process_list) + 1)
         /\ \A i \in 1..(Len(process_list) + 1) :
              process_list'[i] = IF i = 1 THEN p ELSE process_list[i - 1]
<1>1. <<p>> \in Seq(Proc) /\ Len(<<p>>) = 1 /\ <<p>>[1] = p
  OBVIOUS
<1>2. /\ process_list' \in Seq(Proc)
      /\ Len(process_list') = 1 + Len(process_list)
      /\ \A i \in 1..(1 + Len(process_list)) :
           process_list'[i] = IF i <= 1 THEN <<p>>[i] ELSE process_list[i - 1]
  BY <1>1, ConcatProperties
<1>3. Len(process_list) \in Nat /\ DOMAIN process_list' = 1..Len(process_list')
  BY <1>2, LenProperties
<1> QED BY <1>1, <1>2, <1>3

LEMMA ListedOnceStep ==
  ASSUME TypeOK, ListedOnce, [Next]_vars
  PROVE  ListedOnce'
<1>0. /\ process_list \in Seq(Proc) /\ Len(process_list) \in Nat
      /\ DOMAIN process_list = 1..Len(process_list)
  BY LenProperties DEF TypeOK
<1>1. CASE UNCHANGED process_list
  BY <1>1 DEF ListedOnce
<1>2. ASSUME NEW p \in Proc, p \notin Listed, process_list' = <<p>> \o process_list
      PROVE  ListedOnce'
  <2>1. \A i \in 1..Len(process_list) : process_list[i] # p
    BY <1>0, <1>2 DEF Listed
  <2>2. /\ DOMAIN process_list' = 1..(Len(process_list) + 1)
        /\ \A i \in 1..(Len(process_list) + 1) :
             process_list'[i] = IF i = 1 THEN p ELSE process_list[i - 1]
    BY <1>0, <1>2, Pushed
  <2> SUFFICES ASSUME NEW i \in 1..(Len(process_list) + 1), NEW j \in 1..(Len(process_list) + 1),
                      process_list'[i] = process_list'[j]
               PROVE  i = j
    BY <2>2 DEF ListedOnce
  <2>3. CASE i = 1 \/ j = 1
    BY <1>0, <2>1, <2>2, <2>3
  <2>4. CASE i # 1 /\ j # 1
    <3>1. /\ i - 1 \in DOMAIN process_list /\ j - 1 \in DOMAIN process_list
          /\ process_list[i - 1] = process_list[j - 1]
      BY <1>0, <2>2, <2>4
    <3>2. i - 1 = j - 1
      BY <3>1 DEF ListedOnce
    <3> QED BY <1>0, <3>2
  <2> QED BY <2>3, <2>4
<1>3. ASSUME NEW p \in Proc, NEW back, unlink(p, back)
      PROVE  ListedOnce'
  <2>1. CASE p \notin Listed
    BY <1>3, <2>1 DEF unlink, ListedOnce
  <2>2. CASE p \in Listed
    <3> DEFINE k == Position(p)
    <3>1. k \in 1..Len(process_list)
      BY <1>0, <2>2, PositionTyped
    <3>2. process_list' = RemoveAt(process_list, k)
      BY <1>3, <2>2 DEF unlink
    <3> HIDE DEF k
    <3>3. /\ process_list' \in Seq(Proc) /\ Len(process_list') = Len(process_list) - 1
          /\ \A j \in 1..(Len(process_list) - 1) :
               process_list'[j] = IF j < k THEN process_list[j] ELSE process_list[j + 1]
      BY <1>0, <3>1, <3>2, RemoveAtFacts
    <3>4. DOMAIN process_list' = 1..(Len(process_list) - 1)
      BY <3>3, LenProperties
    <3> DEFINE old(i) == IF i < k THEN i ELSE i + 1
    <3>5. \A i \in 1..(Len(process_list) - 1) :
            old(i) \in DOMAIN process_list /\ process_list'[i] = process_list[old(i)]
      BY <1>0, <3>1, <3>3
    <3> SUFFICES ASSUME NEW i \in 1..(Len(process_list) - 1), NEW j \in 1..(Len(process_list) - 1),
                        process_list'[i] = process_list'[j]
                 PROVE  i = j
      BY <3>4 DEF ListedOnce
    <3>6. old(i) = old(j)
      <4> HIDE DEF old
      <4> QED BY <3>5 DEF ListedOnce
    <3> QED BY <1>0, <3>1, <3>6
  <2> QED BY <2>1, <2>2
<1> QED BY <1>1, <1>2, <1>3, StepCases DEF Take

\* No process is ever on the list twice.
THEOREM NeverListedTwice == Spec => []ListedOnce
<1>1. Init => ListedOnce
  BY DEF Init, ListedOnce
<1>2. TypeOK /\ ListedOnce /\ [Next]_vars => ListedOnce'
  BY ListedOnceStep
<1> QED BY <1>1, <1>2, TypeCorrect, PTL DEF Spec

\* The slots of the queued events, in order.
LEMMA RingIndex ==
  ASSUME TypeOK
  PROVE  /\ \A n \in 0..(NumEvents - 1) :
              /\ (fevent + n) % NumEvents =
                   IF fevent + n < NumEvents THEN fevent + n ELSE fevent + n - NumEvents
              /\ (fevent + n) % NumEvents \in 0..(NumEvents - 1)
         /\ (fevent + NumEvents) % NumEvents = fevent
<1>1. NumEvents \in Nat \ {0} /\ fevent \in 0..(NumEvents - 1)
  BY RingAssumption DEF TypeOK
<1>2. ASSUME NEW n \in 0..NumEvents
      PROVE  (fevent + n) % NumEvents =
               IF fevent + n < NumEvents THEN fevent + n ELSE fevent + n - NumEvents
  <2>1. CASE fevent + n < NumEvents
    <3>1. fevent + n \in 0..(NumEvents - 1)
      BY <1>1, <2>1
    <3> QED BY <1>1, <2>1, <3>1, ModSmall
  <2>2. CASE fevent + n >= NumEvents
    <3>1. fevent + n \in NumEvents..(2 * NumEvents - 1)
      BY <1>1, <2>2
    <3>2. (fevent + n) % NumEvents = fevent + n - NumEvents
      BY <1>1, <3>1, ModLarge
    <3> QED BY <1>1, <2>2, <3>2
  <2> QED BY <1>1, <2>1, <2>2
<1>3. (fevent + NumEvents) % NumEvents = fevent
  BY <1>1, <1>2
<1> QED BY <1>1, <1>2, <1>3

\* process_post() adds one event behind the queued ones, which it leaves in place.
LEMMA PostFacts ==
  ASSUME TypeOK, NEW p \in Pointer, NEW ev \in Posted, process_post(p, ev), ~RingFull
  PROVE  /\ nevents' = nevents + 1
         /\ nevents < NumEvents
         /\ \A n \in 0..nevents :
              Queued(n)' = IF n = nevents THEN [ev |-> ev, p |-> p, live |-> p \in Listed]
                           ELSE Queued(n)
<1>1. /\ nevents \in 0..NumEvents /\ nevents # NumEvents /\ NumEvents \in 1..255
      /\ fevent \in 0..(NumEvents - 1) /\ DOMAIN events = 0..(NumEvents - 1)
  BY RingAssumption DEF TypeOK, RingFull
<1>2. /\ events' = [events EXCEPT ![FreeSlot] = [ev |-> ev, p |-> p, live |-> p \in Listed]]
      /\ nevents' = nevents + 1 /\ fevent' = fevent
  BY DEF process_post
<1>3. FreeSlot = (fevent + nevents) % NumEvents /\ FreeSlot \in 0..(NumEvents - 1)
  BY <1>1, RingIndex DEF FreeSlot
<1>4. ASSUME NEW n \in 0..nevents
      PROVE  /\ (fevent + n) % NumEvents \in 0..(NumEvents - 1)
             /\ n # nevents => (fevent + n) % NumEvents # FreeSlot
  <2>1. n \in 0..(NumEvents - 1) /\ nevents \in 0..(NumEvents - 1)
    BY <1>1
  <2>2. /\ (fevent + n) % NumEvents \in 0..(NumEvents - 1)
        /\ (fevent + n) % NumEvents =
             IF fevent + n < NumEvents THEN fevent + n ELSE fevent + n - NumEvents
    BY <2>1, RingIndex
  <2>3. FreeSlot =
          IF fevent + nevents < NumEvents THEN fevent + nevents ELSE fevent + nevents - NumEvents
    BY <1>3, <2>1, RingIndex
  <2> QED BY <1>1, <2>1, <2>2, <2>3
<1> DEFINE e == [ev |-> ev, p |-> p, live |-> p \in Listed]
<1>5. ASSUME NEW n \in 0..nevents
      PROVE  Queued(n)' = IF n = nevents THEN e ELSE Queued(n)
  <2> DEFINE i == (fevent + n) % NumEvents
  <2>1. Queued(n)' = events'[i] /\ Queued(n) = events[i]
    BY <1>2 DEF Queued
  <2>2. i \in 0..(NumEvents - 1) /\ (n # nevents => i # FreeSlot) /\ (n = nevents => i = FreeSlot)
    BY <1>3, <1>4
  <2> HIDE DEF i, e
  <2>3. events' = [events EXCEPT ![FreeSlot] = e]
    BY <1>2 DEF e
  <2>4. events'[i] = IF i = FreeSlot THEN e ELSE events[i]
    BY <1>1, <2>2, <2>3
  <2> QED BY <2>1, <2>2, <2>4
<1> QED BY <1>1, <1>2, <1>5

\* do_event() takes the oldest event; the others move up.
LEMMA TakeFacts ==
  ASSUME TypeOK, Take
  PROVE  /\ nevents > 0
         /\ nevents' = nevents - 1
         /\ \A n \in 0..(nevents - 2) : Queued(n)' = Queued(n + 1)
<1>1. /\ nevents \in 1..NumEvents /\ NumEvents \in 1..255
      /\ fevent \in 0..(NumEvents - 1) /\ DOMAIN events = 0..(NumEvents - 1)
  BY RingAssumption DEF TypeOK, Take
<1>2. /\ events' = [events EXCEPT ![fevent] = EmptySlot]
      /\ fevent' = (fevent + 1) % NumEvents
      /\ nevents' = nevents - 1
  BY DEF Take
<1>3. fevent' = IF fevent + 1 < NumEvents THEN fevent + 1 ELSE 0
  BY <1>1, <1>2, RingIndex
<1>4. ASSUME NEW n \in 0..(nevents - 2)
      PROVE  Queued(n)' = Queued(n + 1)
  <2>1. n + 1 \in 0..(NumEvents - 1) /\ n \in 0..(NumEvents - 1)
    BY <1>1
  <2>2. /\ (fevent + (n + 1)) % NumEvents \in 0..(NumEvents - 1)
        /\ (fevent + (n + 1)) % NumEvents =
             IF fevent + (n + 1) < NumEvents THEN fevent + (n + 1) ELSE fevent + (n + 1) - NumEvents
    BY <2>1, RingIndex
  <2>3. (fevent + (n + 1)) % NumEvents # fevent
    BY <1>1, <2>1, <2>2
  <2>4. (fevent' + n) % NumEvents = (fevent + (n + 1)) % NumEvents
    <3>1. CASE fevent + 1 < NumEvents
      BY <1>1, <1>3, <3>1
    <3>2. CASE fevent + 1 = NumEvents
      <4>1. fevent' = 0 /\ (fevent + (n + 1)) % NumEvents = n
        BY <1>1, <1>3, <2>1, <2>2, <3>2
      <4>2. n % NumEvents = n /\ 0 + n = n
        BY <1>1, <2>1, ModSmall
      <4> QED BY <4>1, <4>2
    <3> QED BY <1>1, <3>1, <3>2
  <2> QED BY <1>1, <1>2, <2>2, <2>3, <2>4 DEF Queued
<1> QED BY <1>1, <1>2, <1>4

\* exit_process() retires the queued events for p and no others.
LEMMA RetireFacts ==
  ASSUME TypeOK, NEW p \in Proc, NEW back, unlink(p, back)
  PROVE  /\ nevents' = nevents
         /\ \A n \in 0..(nevents - 1) :
              Queued(n)' = IF Queued(n).p = p THEN [Queued(n) EXCEPT !.p = ZOMBIE] ELSE Queued(n)
<1>1. /\ nevents \in 0..NumEvents /\ NumEvents \in 1..255
      /\ nevents' = nevents /\ fevent' = fevent /\ events' = Zombified(p)
  BY RingAssumption DEF TypeOK, unlink
<1>2. ASSUME NEW n \in 0..(nevents - 1)
      PROVE  Queued(n)' = IF Queued(n).p = p THEN [Queued(n) EXCEPT !.p = ZOMBIE] ELSE Queued(n)
  <2>1. (fevent + n) % NumEvents \in 0..(NumEvents - 1) /\ (fevent + n) % NumEvents \in QueuedSlots
    BY <1>1, RingIndex DEF QueuedSlots
  <2> DEFINE i == (fevent + n) % NumEvents
  <2>2. events'[i] = IF events[i].p = p THEN [events[i] EXCEPT !.p = ZOMBIE] ELSE events[i]
    BY <1>1, <2>1 DEF Zombified
  <2> QED BY <1>1, <2>2 DEF Queued
<1> QED BY <1>1, <1>2

\* The processes on the list after a start and after an exit.
LEMMA ListedAfter ==
  ASSUME TypeOK, ListedOnce
  PROVE  /\ \A p \in Proc : process_list' = <<p>> \o process_list => Listed \subseteq Listed'
         /\ \A p \in Proc, back \in Pointer : unlink(p, back) => Listed \ {p} \subseteq Listed'
<1>0. /\ process_list \in Seq(Proc) /\ Len(process_list) \in Nat
      /\ DOMAIN process_list = 1..Len(process_list)
  BY LenProperties DEF TypeOK
<1>1. ASSUME NEW p \in Proc, process_list' = <<p>> \o process_list, NEW q \in Listed
      PROVE  q \in Listed'
  <2>1. PICK i \in 1..Len(process_list) : process_list[i] = q
    BY <1>0 DEF Listed
  <2>2. i + 1 \in DOMAIN process_list' /\ process_list'[i + 1] = q
    BY <1>0, <1>1, <2>1, Pushed
  <2> QED BY <2>2 DEF Listed
<1>2. ASSUME NEW p \in Proc, NEW back \in Pointer, unlink(p, back), NEW q \in Listed \ {p}
      PROVE  q \in Listed'
  <2>1. CASE p \notin Listed
    BY <1>2, <2>1 DEF unlink, Listed
  <2>2. CASE p \in Listed
    <3> DEFINE k == Position(p)
    <3>1. k \in 1..Len(process_list) /\ process_list[k] = p
      BY <1>0, <2>2, PositionTyped
    <3>2. process_list' = RemoveAt(process_list, k)
      BY <1>2, <2>2 DEF unlink
    <3> HIDE DEF k
    <3>3. /\ process_list' \in Seq(Proc) /\ Len(process_list') = Len(process_list) - 1
          /\ \A j \in 1..(Len(process_list) - 1) :
               process_list'[j] = IF j < k THEN process_list[j] ELSE process_list[j + 1]
      BY <1>0, <3>1, <3>2, RemoveAtFacts
    <3>4. DOMAIN process_list' = 1..(Len(process_list) - 1)
      BY <3>3, LenProperties
    <3>5. PICK i \in 1..Len(process_list) : process_list[i] = q
      BY <1>0 DEF Listed
    <3>6. i # k
      BY <1>2, <3>1, <3>5
    <3>7. CASE i < k
      <4>1. i \in DOMAIN process_list' /\ process_list'[i] = q
        BY <1>0, <3>1, <3>3, <3>4, <3>5, <3>7
      <4> QED BY <4>1 DEF Listed
    <3>8. CASE i > k
      <4>1. i - 1 \in 1..(Len(process_list) - 1) /\ ~(i - 1 < k) /\ i - 1 + 1 = i
        BY <1>0, <3>1, <3>5, <3>8
      <4>2. i - 1 \in DOMAIN process_list' /\ process_list'[i - 1] = q
        BY <3>3, <3>4, <3>5, <4>1
      <4> QED BY <4>2 DEF Listed
    <3> QED BY <1>0, <3>1, <3>5, <3>6, <3>7, <3>8
  <2> QED BY <2>1, <2>2
<1> QED BY <1>1, <1>2

LEMMA EventsDieStep ==
  ASSUME TypeOK, ListedOnce, EventsDieWithReceiver, [Next]_vars
  PROVE  EventsDieWithReceiver'
<1>0. nevents \in 0..NumEvents /\ NumEvents \in 1..255
  BY RingAssumption DEF TypeOK
<1>1. ASSUME UNCHANGED ring, Listed \subseteq Listed'
      PROVE  EventsDieWithReceiver'
  BY <1>1 DEF EventsDieWithReceiver, Queued, ring
<1>2. ASSUME UNCHANGED process_list, NEW p \in Pointer, NEW ev \in Posted, process_post(p, ev)
      PROVE  EventsDieWithReceiver'
  <2>0. Listed' = Listed
    BY <1>2 DEF Listed
  <2>1. CASE RingFull
    BY <1>1, <1>2, <2>0, <2>1 DEF process_post
  <2>2. CASE ~RingFull
    <3>1. /\ nevents' = nevents + 1
          /\ \A n \in 0..nevents :
               Queued(n)' = IF n = nevents THEN [ev |-> ev, p |-> p, live |-> p \in Listed]
                            ELSE Queued(n)
      BY <1>2, <2>2, PostFacts
    <3> SUFFICES ASSUME NEW n \in 0..nevents, Queued(n)'.live, Queued(n)'.p \in Proc
                 PROVE  Queued(n)'.p \in Listed
      BY <1>0, <2>0, <3>1 DEF EventsDieWithReceiver
    <3>2. CASE n = nevents
      <4>1. Queued(n)' = [ev |-> ev, p |-> p, live |-> p \in Listed]
        BY <3>1, <3>2
      <4>2. Queued(n)'.p = p
        BY <4>1
      <4>3. Queued(n)'.live = (p \in Listed)
        <5> DEFINE b == p \in Listed
        <5>1. Queued(n)' = [ev |-> ev, p |-> p, live |-> b] /\ b \in BOOLEAN
          BY <4>1
        <5> HIDE DEF b
        <5>2. Queued(n)'.live = b
          BY <5>1
        <5> QED BY <5>2 DEF b
      <4> QED BY <4>2, <4>3
    <3>3. CASE n # nevents
      <4>1. n \in 0..(nevents - 1) /\ Queued(n)' = Queued(n)
        BY <1>0, <3>1, <3>3
      <4> QED BY <4>1 DEF EventsDieWithReceiver
    <3> QED BY <3>2, <3>3
  <2> QED BY <2>1, <2>2
<1>3. ASSUME UNCHANGED process_list, Take
      PROVE  EventsDieWithReceiver'
  <2>1. nevents' = nevents - 1 /\ \A n \in 0..(nevents - 2) : Queued(n)' = Queued(n + 1)
    BY <1>3, TakeFacts
  <2>2. \A n \in 0..(nevents - 2) : n + 1 \in 0..(nevents - 1)
    BY <1>0
  <2>3. Listed' = Listed
    BY <1>3 DEF Listed
  <2> SUFFICES ASSUME NEW n \in 0..(nevents - 2), Queued(n)'.live, Queued(n)'.p \in Proc
               PROVE  Queued(n)'.p \in Listed
    BY <1>0, <2>1, <2>3 DEF EventsDieWithReceiver
  <2> QED BY <2>1, <2>2 DEF EventsDieWithReceiver
<1>4. ASSUME NEW p \in Proc, NEW back \in Pointer, unlink(p, back)
      PROVE  EventsDieWithReceiver'
  <2>1. /\ nevents' = nevents
        /\ \A n \in 0..(nevents - 1) :
             Queued(n)' = IF Queued(n).p = p THEN [Queued(n) EXCEPT !.p = ZOMBIE] ELSE Queued(n)
    BY <1>4, RetireFacts
  <2>2. Listed \ {p} \subseteq Listed'
    BY <1>4, ListedAfter
  <2> SUFFICES ASSUME NEW n \in 0..(nevents - 1), Queued(n)'.live, Queued(n)'.p \in Proc
               PROVE  Queued(n)'.p \in Listed'
    BY <2>1 DEF EventsDieWithReceiver
  <2>3. Queued(n) \in Slot
    BY RingIndex, <1>0 DEF Queued, TypeOK
  <2>4. CASE Queued(n).p = p
    <3>1. Queued(n)'.p = ZOMBIE
      BY <2>1, <2>3, <2>4 DEF Slot
    <3> QED BY <3>1, PointerAssumption
  <2>5. CASE Queued(n).p # p
    BY <2>1, <2>2, <2>5 DEF EventsDieWithReceiver
  <2> QED BY <2>4, <2>5
<1>5. UNCHANGED process_list => Listed \subseteq Listed'
  BY DEF Listed
<1> QED BY <1>1, <1>2, <1>3, <1>4, <1>5, ListedAfter, StepCases

\* Events posted to a listed process are retired before it leaves the list, so they
\* never reach a later life of the process.
THEOREM NoEventOutlivesReceiver == Spec => []EventsDieWithReceiver
<1>1. Init => EventsDieWithReceiver
  BY DEF Init, EventsDieWithReceiver
<1>2. TypeOK /\ ListedOnce /\ EventsDieWithReceiver /\ [Next]_vars => EventsDieWithReceiver'
  BY EventsDieStep
<1> QED BY <1>1, <1>2, TypeCorrect, NeverListedTwice, PTL DEF Spec

--------------------------------------------------------------------------------
(* The ring implements the abstract queue.                                      *)

QueueFacts ==
  /\ Queue \in Seq(Q!Item)
  /\ Len(Queue) = nevents
  /\ \A n \in 0..(nevents - 1) : Queued(n) \in Slot

LEMMA QueueTyped == TypeOK => QueueFacts
<1> SUFFICES ASSUME TypeOK PROVE QueueFacts
  OBVIOUS
<1>1. nevents \in 0..NumEvents /\ NumEvents \in 1..255
  BY RingAssumption DEF TypeOK
<1>2. \A n \in 0..(nevents - 1) : Queued(n) \in Slot
  BY RingIndex, <1>1 DEF Queued, TypeOK
<1>3. \A n \in 1..nevents : n - 1 \in 0..(nevents - 1)
  BY <1>1
<1>4. \A n \in 1..nevents : [ev |-> Queued(n - 1).ev, p |-> Queued(n - 1).p] \in Q!Item
  BY <1>2, <1>3 DEF Slot, Q!Item
<1>5. Queue \in Seq(Q!Item) /\ Len(Queue) = nevents
  BY <1>1, <1>4 DEF Queue
<1> QED BY <1>2, <1>5 DEF QueueFacts

LEMMA QueueTypedNext == TypeOK' => QueueFacts'
  BY QueueTyped, PTL

LEMMA QueueStep ==
  ASSUME TypeOK, TypeOK', [Next]_vars
  PROVE  [Q!Next]_Queue
<1>0. /\ nevents \in 0..NumEvents /\ NumEvents \in 1..255
      /\ Queue \in Seq(Q!Item) /\ Len(Queue) = nevents
      /\ \A n \in 0..(nevents - 1) : Queued(n) \in Slot
      /\ Queue' \in Seq(Q!Item) /\ Len(Queue') = nevents'
  BY RingAssumption, QueueTyped, QueueTypedNext DEF TypeOK, QueueFacts
<1>1. CASE UNCHANGED ring
  BY <1>1 DEF Queue, Queued, ring
<1>2. ASSUME NEW p \in Pointer, NEW ev \in Posted, process_post(p, ev)
      PROVE  [Q!Next]_Queue
  <2>1. CASE RingFull
    BY <1>1, <1>2, <2>1 DEF process_post
  <2>2. CASE ~RingFull
    <3>1. /\ nevents' = nevents + 1 /\ nevents < NumEvents
          /\ \A n \in 0..nevents :
               Queued(n)' = IF n = nevents THEN [ev |-> ev, p |-> p, live |-> p \in Listed]
                            ELSE Queued(n)
      BY <1>2, <2>2, PostFacts
    <3> DEFINE item == [ev |-> ev, p |-> p]
    <3>2. item \in Q!Item /\ ev \in Event
      BY ProgramAssumption DEF Q!Item, Event
    <3>3. /\ Append(Queue, item) \in Seq(Q!Item) /\ Len(Append(Queue, item)) = nevents + 1
          /\ \A n \in 1..(nevents + 1) :
               Append(Queue, item)[n] = IF n = nevents + 1 THEN item ELSE Queue[n]
      <4> HIDE DEF item
      <4> QED BY <1>0, <3>2
    <3>4. ASSUME NEW n \in 1..(nevents + 1)
          PROVE  Queue'[n] = Append(Queue, item)[n]
      <4>1. Queue'[n] = [ev |-> Queued(n - 1)'.ev, p |-> Queued(n - 1)'.p]
        BY <1>0, <3>1 DEF Queue
      <4>2. CASE n = nevents + 1
        <5>1. n - 1 = nevents /\ n - 1 \in 0..nevents
          BY <1>0, <4>2
        <5>2. Queued(n - 1)' = [ev |-> ev, p |-> p, live |-> p \in Listed]
          BY <3>1, <5>1
        <5>3. Queued(n - 1)'.ev = ev /\ Queued(n - 1)'.p = p
          BY <5>2
        <5> QED BY <3>3, <4>1, <4>2, <5>3
      <4>3. CASE n # nevents + 1
        <5>1. n - 1 \in 0..nevents /\ n - 1 # nevents /\ n \in 1..nevents
          BY <1>0, <4>3
        <5>2. Queued(n - 1)' = Queued(n - 1)
          BY <3>1, <5>1
        <5>3. Queue[n] = [ev |-> Queued(n - 1).ev, p |-> Queued(n - 1).p]
          BY <5>1 DEF Queue
        <5> QED BY <3>3, <4>1, <4>3, <5>2, <5>3
      <4> QED BY <4>2, <4>3
    <3>5. Queue' = Append(Queue, item)
      <4> HIDE DEF item
      <4> QED BY <1>0, <3>1, <3>3, <3>4, SeqEqual
    <3>6. Q!Post(ev, p)
      BY <1>0, <3>1, <3>5 DEF Q!Post
    <3> QED BY <3>2, <3>6 DEF Q!Next
  <2> QED BY <2>1, <2>2
<1>3. CASE Take
  <2>1. /\ nevents > 0 /\ nevents' = nevents - 1
        /\ \A n \in 0..(nevents - 2) : Queued(n)' = Queued(n + 1)
    BY <1>3, TakeFacts
  <2>2. Queue # <<>>
    BY <1>0, <2>1
  <2>3. /\ Tail(Queue) \in Seq(Q!Item) /\ Len(Tail(Queue)) = nevents - 1
        /\ \A n \in 1..(nevents - 1) : Tail(Queue)[n] = Queue[n + 1]
    BY <1>0, <2>2, HeadTailProperties
  <2>4. ASSUME NEW n \in 1..(nevents - 1)
        PROVE  Queue'[n] = Tail(Queue)[n]
    <3>1. n - 1 \in 0..(nevents - 2) /\ n - 1 + 1 = n /\ n + 1 \in 1..nevents /\ n + 1 - 1 = n
      BY <1>0
    <3>2. Queue'[n] = [ev |-> Queued(n - 1)'.ev, p |-> Queued(n - 1)'.p]
      BY <1>0, <2>1 DEF Queue
    <3>3. Queue[n + 1] = [ev |-> Queued(n).ev, p |-> Queued(n).p]
      BY <3>1 DEF Queue
    <3>4. Queued(n - 1)' = Queued(n)
      BY <2>1, <3>1
    <3> QED BY <2>3, <3>2, <3>3, <3>4
  <2>5. Queue' = Tail(Queue)
    BY <1>0, <2>1, <2>3, <2>4, SeqEqual
  <2> QED BY <2>2, <2>5 DEF Q!Next, Q!Take
<1>4. ASSUME NEW p \in Proc, NEW back \in Pointer, unlink(p, back)
      PROVE  [Q!Next]_Queue
  <2>1. /\ nevents' = nevents
        /\ \A n \in 0..(nevents - 1) :
             Queued(n)' = IF Queued(n).p = p THEN [Queued(n) EXCEPT !.p = ZOMBIE] ELSE Queued(n)
    BY <1>4, RetireFacts
  <2> DEFINE retired == [i \in DOMAIN Queue |->
                IF Queue[i].p = p THEN [Queue[i] EXCEPT !.p = ZOMBIE] ELSE Queue[i]]
  <2>2. DOMAIN Queue = 1..nevents /\ DOMAIN Queue' = 1..nevents
    BY <2>1 DEF Queue
  <2>3. ASSUME NEW n \in 1..nevents
        PROVE  Queue'[n] = IF Queue[n].p = p THEN [Queue[n] EXCEPT !.p = ZOMBIE] ELSE Queue[n]
    <3>1. n - 1 \in 0..(nevents - 1)
      BY <1>0
    <3>2. Queue'[n] = [ev |-> Queued(n - 1)'.ev, p |-> Queued(n - 1)'.p]
      BY <1>0, <2>1 DEF Queue
    <3>3. Queue[n] = [ev |-> Queued(n - 1).ev, p |-> Queued(n - 1).p]
      BY DEF Queue
    <3>4. Queued(n - 1) \in Slot
      BY <1>0, <3>1
    <3>5. Queued(n - 1)' = IF Queued(n - 1).p = p THEN [Queued(n - 1) EXCEPT !.p = ZOMBIE]
                           ELSE Queued(n - 1)
      BY <2>1, <3>1
    <3>6. CASE Queued(n - 1).p = p
      <4>1. Queued(n - 1)'.ev = Queued(n - 1).ev /\ Queued(n - 1)'.p = ZOMBIE
        BY <3>4, <3>5, <3>6 DEF Slot
      <4> QED BY <3>2, <3>3, <3>6, <4>1
    <3>7. CASE Queued(n - 1).p # p
      BY <3>2, <3>3, <3>5, <3>7
    <3> QED BY <3>6, <3>7
  <2>4. Queue' = retired
    <3>1. Queue' = [n \in 1..nevents |-> Queue'[n]]
      BY <2>1 DEF Queue
    <3> QED BY <2>2, <2>3, <3>1
  <2> QED BY <2>4 DEF Q!Next, Q!Retire, Pointer
<1> QED BY <1>1, <1>2, <1>3, <1>4, StepCases

\* The ring of process.c, with its index arithmetic, wrap-around and zombie marks,
\* implements the bounded first-in first-out queue of EventQueue.
THEOREM RingImplementsQueue == Spec => RingIsQueue
<1>1. Init => Q!Init
  BY DEF Init, Q!Init, Queue
<1>2. TypeOK /\ TypeOK' /\ [Next]_vars => [Q!Next]_Queue
  BY QueueStep
<1> QED BY <1>1, <1>2, TypeCorrect, PTL DEF Spec, RingIsQueue, Q!Spec

--------------------------------------------------------------------------------
(* PROCESS_CURRENT().                                                           *)

\* Returns is kept when the stack loses its top, and when a thread is below the new
\* top only if the new top writes it back.
LEMMA ReturnsPop ==
  ASSUME NEW s \in Seq(Frame), s # <<>>, Returns(s)
  PROVE  Returns(SubSeq(s, 1, Len(s) - 1))
  BY WithoutLast DEF Returns

LEMMA ReturnsPush ==
  ASSUME NEW s \in Seq(Frame), NEW f \in Frame, Returns(s),
         s # <<>> /\ s[Len(s)].kind \in ThreadKind =>
           f.kind \in {"thread", "exit_process"} /\ f.back = s[Len(s)].p
  PROVE  Returns(Append(s, f))
<1>1. /\ Len(Append(s, f)) = Len(s) + 1 /\ Len(s) \in Nat
      /\ \A i \in 1..Len(s) : Append(s, f)[i] = s[i]
      /\ Append(s, f)[Len(s) + 1] = f
  OBVIOUS
<1> SUFFICES ASSUME NEW i \in 2..(Len(s) + 1), Append(s, f)[i - 1].kind \in ThreadKind
             PROVE  /\ Append(s, f)[i].kind \in {"thread", "exit_process"}
                    /\ Append(s, f)[i].back = Append(s, f)[i - 1].p
  BY <1>1 DEF Returns
<1>2. CASE i = Len(s) + 1
  <2>1. i - 1 = Len(s) /\ i - 1 \in 1..Len(s) /\ s # <<>>
    BY <1>1, <1>2
  <2> QED BY <1>1, <1>2, <2>1
<1>3. CASE i # Len(s) + 1
  <2>1. i \in 2..Len(s) /\ i - 1 \in 1..Len(s) /\ i \in 1..Len(s)
    BY <1>1, <1>3
  <2> QED BY <1>1, <2>1 DEF Returns
<1> QED BY <1>2, <1>3

\* What is below the top of the stack.
LEMMA BelowTop ==
  ASSUME TypeOK, ReturnsToCaller, stack # <<>>
  PROVE  /\ Callers \in Seq(Frame) /\ Returns(Callers) /\ Top \in Frame
         /\ Callers # <<>> /\ Callers[Len(Callers)].kind \in ThreadKind =>
              /\ Top.kind \in {"thread", "exit_process"}
              /\ Top.back = Callers[Len(Callers)].p
              /\ Callers[Len(Callers)].p \in Proc
<1>1. /\ Len(stack) \in Nat \ {0} /\ Callers \in Seq(Frame) /\ Len(Callers) = Len(stack) - 1
      /\ \A i \in 1..(Len(stack) - 1) : Callers[i] = stack[i]
  BY WithoutLast DEF Callers, TypeOK
<1>2. Returns(Callers)
  BY ReturnsPop DEF Callers, ReturnsToCaller, TypeOK
<1>3. Top \in Frame
  BY TopTyped DEF TypeOK
<1>4. ASSUME Callers # <<>>, Callers[Len(Callers)].kind \in ThreadKind
      PROVE  /\ Top.kind \in {"thread", "exit_process"}
             /\ Top.back = Callers[Len(Callers)].p
             /\ Callers[Len(Callers)].p \in Proc
  <2>1. Len(Callers) >= 1
    BY <1>1, <1>4, EmptySeq
  <2>2. /\ Len(stack) \in 2..Len(stack) /\ Callers[Len(Callers)] = stack[Len(stack) - 1]
        /\ stack[Len(stack) - 1] \in Frame
    BY <1>1, <2>1, ElementOfSeq DEF TypeOK
  <2> QED BY <1>4, <2>2, FrameFields DEF ReturnsToCaller, Returns, Top
<1> QED BY <1>1, <1>2, <1>3, <1>4

\* The top of a stack that something was pushed on.
LEMMA PushTop ==
  ASSUME NEW s \in Seq(Frame), NEW f \in Frame, stack' = Append(s, f)
  PROVE  Top' = f /\ stack' # <<>>
  BY DEF Top

\* The top replaced by another state of the same activation.
LEMMA ReturnsReplace ==
  ASSUME TypeOK, ReturnsToCaller, stack # <<>>, NEW f \in Frame,
         Top.kind \in {"thread", "exit_process"} =>
           f.kind \in {"thread", "exit_process"} /\ f.back = Top.back
  PROVE  /\ Append(Callers, f) \in Seq(Frame) /\ Returns(Append(Callers, f))
         /\ Append(Callers, f) # <<>>
         /\ Append(Callers, f)[Len(Append(Callers, f))] = f
<1>1. /\ Callers \in Seq(Frame) /\ Returns(Callers)
      /\ Callers # <<>> /\ Callers[Len(Callers)].kind \in ThreadKind =>
           /\ Top.kind \in {"thread", "exit_process"}
           /\ Top.back = Callers[Len(Callers)].p
  BY BelowTop
<1>2. Returns(Append(Callers, f))
  BY <1>1, ReturnsPush
<1> QED BY <1>1, <1>2

CurrentInv == ReturnsToCaller /\ CurrentIsExecuting

\* call_process() from a stack whose top, if it is a thread, is written back.
LEMMA CurrentCall ==
  ASSUME NEW st, NEW frames \in Seq(Frame), Returns(frames),
         NEW p \in Proc, NEW ev \in Event, NEW back \in Pointer \cup {KEEP},
         call_process(st, frames, p, ev, back),
         frames # <<>> /\ frames[Len(frames)].kind \in ThreadKind =>
           process_current = frames[Len(frames)].p /\ back = process_current
  PROVE  CurrentInv'
<1>1. CASE Callable(st, p)
  <2> DEFINE f == Thread("thread", p, ev, back)
  <2>1. f \in Frame /\ f.kind = "thread" /\ f.back = back /\ f.p = p
    BY BoundAssumption DEF Thread, Frame, ThreadFrame
  <2>2. stack' = Append(frames, f) /\ process_current' = p
    BY <1>1 DEF call_process
  <2> HIDE DEF f
  <2>3. Returns(stack') /\ Top' = f
    BY <2>1, <2>2, ReturnsPush, PushTop
  <2> QED BY <2>1, <2>2, <2>3 DEF CurrentInv, ReturnsToCaller, CurrentIsExecuting, TopIs, Returns
<1>2. CASE ~Callable(st, p)
  <2>1. stack' = frames /\ process_current' = process_current
    BY <1>2 DEF call_process
  <2>2. Returns(stack') /\ (stack' # <<>> /\ Top'.kind \in ThreadKind => process_current' = Top'.p)
    BY <2>1 DEF Top
  <2> QED BY <2>2 DEF CurrentInv, ReturnsToCaller, CurrentIsExecuting, TopIs, ThreadKind, Returns
<1> QED BY <1>1, <1>2

\* exit_process() pushes an activation that is not a thread.
LEMMA CurrentExit ==
  ASSUME TypeOK, NEW frames \in Seq(Frame), Returns(frames),
         NEW p \in Proc, NEW from \in Pointer, NEW back \in Pointer,
         exit_process(frames, p, from, back),
         frames # <<>> /\ frames[Len(frames)].kind \in ThreadKind => back = frames[Len(frames)].p
  PROVE  CurrentInv'
<1> DEFINE f == [kind |-> "exit_process", p |-> p, from |-> from, at |-> NULL, back |-> back,
                 pc |-> IF state[p] = "NONE" THEN "unlink" ELSE "walk"]
<1>1. f \in Frame /\ f.kind = "exit_process" /\ f.back = back
  BY DEF Frame, ExitFrame, Pointer
<1>2. stack' = Append(frames, f)
  BY DEF exit_process
<1> HIDE DEF f
<1>3. Returns(stack') /\ Top' = f
  BY <1>1, <1>2, ReturnsPush, PushTop
<1> QED BY <1>1, <1>3 DEF CurrentInv, ReturnsToCaller, CurrentIsExecuting, TopIs, Returns

\* An activation ends and process_current becomes what it restores.
LEMMA CurrentReturn ==
  ASSUME TypeOK, CurrentInv, stack # <<>>, stack' = Callers,
         Top.kind \in {"thread", "exit_process"} /\ Top.back # KEEP => process_current' = Top.back
  PROVE  CurrentInv'
<1>1. /\ Callers \in Seq(Frame) /\ Returns(Callers)
      /\ Callers # <<>> /\ Callers[Len(Callers)].kind \in ThreadKind =>
           /\ Top.kind \in {"thread", "exit_process"}
           /\ Top.back = Callers[Len(Callers)].p
           /\ Callers[Len(Callers)].p \in Proc
  BY BelowTop DEF CurrentInv
<1>2. Returns(stack') /\ Top' = Callers[Len(Callers)]
  BY <1>1 DEF Top
<1>3. stack' # <<>> /\ Top'.kind \in ThreadKind => process_current' = Top'.p
  BY <1>1, <1>2, KeepAssumption DEF Pointer
<1> QED BY <1>2, <1>3 DEF CurrentInv, ReturnsToCaller, CurrentIsExecuting, TopIs, ThreadKind, Returns

\* A step that leaves something else than a thread on top.
LEMMA CurrentOther ==
  ASSUME NEW frames, stack' = frames, Returns(frames),
         frames # <<>> => frames[Len(frames)].kind \notin ThreadKind
  PROVE  CurrentInv'
  BY DEF CurrentInv, ReturnsToCaller, CurrentIsExecuting, TopIs, Top, ThreadKind, Returns

\* The thread on top makes a kernel call.
LEMMA CurrentCaller ==
  ASSUME TypeOK, CurrentInv, NEW call, MayCall(call)
  PROVE  /\ Caller \in Seq(Frame) /\ Returns(Caller) /\ Caller # <<>>
         /\ Caller[Len(Caller)].kind = Top.kind
         /\ Caller[Len(Caller)].p = process_current
         /\ Top.kind \in ThreadKind
<1> DEFINE f == [Top EXCEPT !.calls = Top.calls + 1]
<1>1. stack # <<>> /\ Top \in ThreadFrame /\ Top.kind \in ThreadKind
  BY CallerTyped DEF MayCall
<1>2. f \in Frame
  BY <1>1, BoundAssumption DEF MayCall, Frame, ThreadFrame
<1>3. f.kind = Top.kind /\ f.p = Top.p /\ f.back = Top.back
  BY <1>1 DEF ThreadFrame
<1>4. process_current = Top.p
  BY <1>1 DEF CurrentInv, CurrentIsExecuting, TopIs, ThreadKind
<1>5. Caller = Append(Callers, f)
  BY DEF Caller
<1> HIDE DEF f
<1>6. /\ Caller \in Seq(Frame) /\ Returns(Caller) /\ Caller # <<>>
      /\ Caller[Len(Caller)] = f
  BY <1>1, <1>2, <1>3, <1>5, ReturnsReplace DEF CurrentInv
<1> QED BY <1>1, <1>3, <1>4, <1>6

LEMMA CurrentThread ==
  ASSUME TypeOK, CurrentInv, ThreadStep
  PROVE  CurrentInv'
<1>0. process_current \in Pointer \cup {KEEP} /\ Posted \subseteq Event
  BY ProgramAssumption DEF TypeOK, Event
<1>1. CASE \E p \in Pointer, ev \in Posted : ThreadPost(p, ev)
  <2>1. MayCall("post") /\ stack' = Caller /\ process_current' = process_current
    BY <1>1 DEF ThreadPost
  <2>2. /\ Returns(stack') /\ Top' = Caller[Len(Caller)]
        /\ Caller[Len(Caller)].p = process_current
    BY <2>1, CurrentCaller DEF Top
  <2> QED BY <2>1, <2>2 DEF CurrentInv, ReturnsToCaller, CurrentIsExecuting, TopIs, Returns
<1>2. CASE \E p \in Proc, ev \in Posted : ThreadPostSynch(p, ev)
  <2>1. PICK p \in Proc, ev \in Posted : ThreadPostSynch(p, ev)
    BY <1>2
  <2>2. MayCall("post_synch") /\ call_process(state, Caller, p, ev, process_current)
    BY <2>1 DEF ThreadPostSynch
  <2> QED BY <1>0, <2>2, CurrentCaller, CurrentCall
<1>3. CASE \E p \in Proc : ThreadStart(p)
  <2>1. PICK p \in Proc : ThreadStart(p)
    BY <1>3
  <2>2. MayCall("start") /\ process_start(Caller, p)
    BY <2>1 DEF ThreadStart
  <2>3. CASE OnList(p)
    <3>1. stack' = Caller /\ process_current' = process_current
      BY <2>2, <2>3 DEF process_start
    <3>2. /\ Returns(stack') /\ Top' = Caller[Len(Caller)]
          /\ Caller[Len(Caller)].p = process_current
      BY <2>2, <3>1, CurrentCaller DEF Top
    <3> QED BY <3>1, <3>2 DEF CurrentInv, ReturnsToCaller, CurrentIsExecuting, TopIs, Returns
  <2>4. CASE ~OnList(p)
    <3>1. call_process([state EXCEPT ![p] = "RUNNING"], Caller, p, "INIT", process_current)
      BY <2>2, <2>4 DEF process_start
    <3> QED BY <1>0, <2>2, <3>1, CurrentCaller, CurrentCall DEF Event
  <2> QED BY <2>3, <2>4
<1>4. CASE \E p \in Proc : ThreadExit(p)
  <2>1. PICK p \in Proc : ThreadExit(p)
    BY <1>4
  <2>2. /\ MayCall("exit") \/ MayCall("exit_any")
        /\ exit_process(Caller, p, process_current, process_current)
    BY <2>1 DEF ThreadExit
  <2> QED BY <2>2, CurrentCaller, CurrentExit DEF TypeOK
<1>5. CASE ThreadYields
  <2>1. /\ stack # <<>> /\ stack' = Callers
        /\ Top.back # KEEP => process_current' = Top.back
    BY <1>5 DEF ThreadYields, TopIs, Restored
  <2> QED BY <2>1, CurrentReturn
<1>6. CASE ThreadEnds
  <2>1. stack # <<>> /\ Top.kind = "thread"
    BY <1>6 DEF ThreadEnds, TopIs
  <2>2. Top \in ThreadFrame /\ Top.p \in Proc /\ Top.back \in Pointer \cup {KEEP}
    BY <2>1, TopTyped, FrameFields DEF TypeOK, ThreadKind
  <2>3. exit_process(Callers, Top.p, Top.p, Restored(Top.back))
    BY <1>6 DEF ThreadEnds
  <2>4. /\ Callers \in Seq(Frame) /\ Returns(Callers)
        /\ Callers # <<>> /\ Callers[Len(Callers)].kind \in ThreadKind =>
             /\ Top.back = Callers[Len(Callers)].p
             /\ Callers[Len(Callers)].p \in Proc
    BY <2>1, BelowTop DEF CurrentInv
  <2>5. Callers # <<>> /\ Callers[Len(Callers)].kind \in ThreadKind =>
          Restored(Top.back) = Callers[Len(Callers)].p
    BY <2>4, KeepAssumption DEF Restored, Pointer
  <2>6. Restored(Top.back) \in Pointer /\ Top.p \in Pointer
    BY <2>2, RestoredTyped DEF Pointer
  <2> QED BY <2>2, <2>3, <2>4, <2>5, <2>6, CurrentExit
<1>7. CASE ExitThreadReturns
  <2>1. stack # <<>> /\ stack' = Callers /\ Top.kind = "exit_thread"
    BY <1>7 DEF ExitThreadReturns, TopIs
  <2> QED BY <2>1, CurrentReturn
<1> QED BY <1>1, <1>2, <1>3, <1>4, <1>5, <1>6, <1>7 DEF ThreadStep

LEMMA CurrentMain ==
  ASSUME TypeOK, CurrentInv, MainLoop \/ (\E p \in Proc : BootStart(p))
  PROVE  CurrentInv'
<1>0. <<>> \in Seq(Frame) /\ Returns(<<>>) /\ KEEP \in Pointer \cup {KEEP}
  BY DEF Returns
<1>1. ASSUME NEW f, stack' = <<f>> \/ stack' = <<>>, f.kind \notin ThreadKind
      PROVE  CurrentInv'
  <2>1. Returns(<<f>>) /\ <<f>>[Len(<<f>>)] = f
    BY DEF Returns
  <2> QED BY <1>0, <1>1, <2>1, CurrentOther
<1>2. CASE \E p \in Proc : BootStart(p)
  <2>1. PICK p \in Proc : BootStart(p)
    BY <1>2
  <2>2. stack = <<>> /\ process_start(<<>>, p)
    BY <2>1 DEF BootStart
  <2>3. CASE OnList(p)
    BY <1>0, <2>2, <2>3, CurrentOther DEF process_start
  <2>4. CASE ~OnList(p)
    <3>1. call_process([state EXCEPT ![p] = "RUNNING"], <<>>, p, "INIT", process_current)
      BY <2>2, <2>4 DEF process_start
    <3>2. "INIT" \in Event /\ process_current \in Pointer \cup {KEEP}
      BY DEF Event, TypeOK
    <3> QED BY <1>0, <3>1, <3>2, CurrentCall
  <2> QED BY <2>3, <2>4
<1>3. CASE BootDone \/ NoEvent
  BY <1>0, <1>3, CurrentOther DEF BootDone, NoEvent
<1>4. CASE RunPoll
  BY <1>1, <1>4 DEF RunPoll, StartPoll, ThreadKind
<1>5. CASE TakeBroadcast
  BY <1>1, <1>5 DEF TakeBroadcast, ThreadKind
<1>6. CASE TakeZombie
  BY <1>0, <1>6, CurrentOther DEF TakeZombie, Take
<1>7. CASE TakeUnicast
  <2>1. PICK st : /\ events[fevent].p \in Proc /\ Take
                  /\ call_process(st, <<>>, events[fevent].p, events[fevent].ev, KEEP)
    BY <1>7 DEF TakeUnicast
  <2>2. events[fevent].ev \in Event
    BY <2>1, TakeTyped DEF Slot
  <2> QED BY <1>0, <2>1, <2>2, CurrentCall
<1> QED BY <1>2, <1>3, <1>4, <1>5, <1>6, <1>7 DEF MainLoop

\* A loop of the kernel continues with its activation replaced by f.
LEMMA CurrentLoop ==
  ASSUME TypeOK, CurrentInv, stack # <<>>, Top.kind \notin ThreadKind,
         NEW f \in Frame, f.kind = Top.kind, Top.kind = "exit_process" => f.back = Top.back,
         NEW frames, frames = Append(Callers, f)
  PROVE  /\ frames \in Seq(Frame) /\ Returns(frames) /\ frames # <<>>
         /\ frames[Len(frames)].kind \notin ThreadKind
         /\ stack' = frames => CurrentInv'
<1>1. /\ frames \in Seq(Frame) /\ Returns(frames) /\ frames # <<>>
      /\ frames[Len(frames)] = f
  BY ReturnsReplace DEF CurrentInv, ThreadKind
<1>2. frames[Len(frames)].kind \notin ThreadKind
  BY <1>1
<1>3. stack' = frames => CurrentInv'
  BY <1>1, <1>2, CurrentOther
<1> QED BY <1>1, <1>2, <1>3

LEMMA CurrentWalk ==
  ASSUME TypeOK, CurrentInv, Walk
  PROVE  CurrentInv'
<1>0. stack \in Seq(Frame)
  BY DEF TypeOK
<1>1. CASE PollClear
  <2>1. Top \in PollFrame /\ stack # <<>> /\ Top.kind = "do_poll"
    BY <1>0, <1>1, TopTyped, FrameFields DEF PollClear, TopAt, TopIs
  <2>2. [Top EXCEPT !.pc = "walk"] \in Frame /\ [Top EXCEPT !.pc = "walk"].kind = "do_poll"
    BY <2>1 DEF Frame, PollFrame
  <2> QED BY <1>1, <2>1, <2>2, CurrentLoop DEF PollClear, ThreadKind
<1>2. CASE PollWalk
  <2> DEFINE p == After(Top.at)
             f == [Top EXCEPT !.at = p]
  <2>1. Top \in PollFrame /\ stack # <<>> /\ Top.at \in Pointer /\ Top.kind = "do_poll"
    BY <1>0, <1>2, TopTyped, FrameFields DEF PollWalk, TopAt, TopIs
  <2>2. p \in Pointer
    BY <2>1, AfterTyped
  <2>3. f \in Frame /\ f.kind = "do_poll"
    BY <2>1, <2>2 DEF Frame, PollFrame
  <2>4. CASE p = NULL
    BY <1>2, <2>1, <2>4, CurrentReturn DEF PollWalk
  <2>5. CASE p # NULL /\ ~needspoll[p]
    BY <1>2, <2>1, <2>3, <2>5, CurrentLoop DEF PollWalk, ThreadKind
  <2>6. CASE p # NULL /\ needspoll[p]
    <3>1. p \in Proc
      BY <2>2, <2>6 DEF Pointer
    <3>2. call_process([state EXCEPT ![p] = "RUNNING"], Append(Callers, f), p, "POLL", KEEP)
      BY <1>2, <2>6 DEF PollWalk
    <3> DEFINE g == Append(Callers, f)
    <3> HIDE DEF f
    <3>3. g \in Seq(Frame) /\ Returns(g) /\ g[Len(g)].kind \notin ThreadKind
      BY <2>1, <2>3, CurrentLoop DEF ThreadKind
    <3> HIDE DEF p, g
    <3>4. call_process([state EXCEPT ![p] = "RUNNING"], g, p, "POLL", KEEP) /\ "POLL" \in Event
      BY <3>2 DEF g, Event
    <3> QED BY <3>1, <3>3, <3>4, CurrentCall
  <2> QED BY <2>4, <2>5, <2>6
<1>3. CASE BroadcastWalk
  <2> DEFINE p == After(Top.at)
             f == [Top EXCEPT !.at = p, !.pc = "call"]
  <2>1. Top \in BroadcastFrame /\ stack # <<>> /\ Top.at \in Pointer /\ Top.kind = "do_event"
    BY <1>0, <1>3, TopTyped, FrameFields DEF BroadcastWalk, TopAt, TopIs
  <2>2. p \in Pointer
    BY <2>1, AfterTyped
  <2>3. CASE p = NULL
    BY <1>3, <2>1, <2>3, CurrentReturn DEF BroadcastWalk
  <2>4. CASE p # NULL
    <3>1. f \in Frame /\ f.kind = "do_event"
      BY <2>1, <2>2, <2>4 DEF Frame, BroadcastFrame
    <3>2. StartPoll \in Frame /\ StartPoll.kind = "do_poll"
      BY DEF StartPoll, Frame, PollFrame, Pointer
    <3>3. stack' = Append(Callers, f) \/ stack' = Append(Append(Callers, f), StartPoll)
      BY <1>3, <2>4 DEF BroadcastWalk
    <3> DEFINE g == Append(Callers, f)
    <3> HIDE DEF f
    <3>4. /\ g \in Seq(Frame) /\ Returns(g) /\ g[Len(g)].kind \notin ThreadKind
          /\ stack' = g => CurrentInv'
      BY <2>1, <3>1, CurrentLoop DEF ThreadKind
    <3>7. stack' = g \/ stack' = Append(g, StartPoll)
      BY <3>3
    <3> HIDE DEF g
    <3>5. Returns(Append(g, StartPoll)) /\ Append(g, StartPoll)[Len(Append(g, StartPoll))] = StartPoll
      BY <3>2, <3>4, ReturnsPush
    <3>6. stack' = Append(g, StartPoll) => CurrentInv'
      BY <3>2, <3>5, CurrentOther DEF ThreadKind
    <3> QED BY <3>4, <3>6, <3>7
  <2> QED BY <2>3, <2>4
<1>4. CASE BroadcastCall
  <2> DEFINE f == [Top EXCEPT !.pc = "walk"]
  <2>1. /\ Top \in BroadcastFrame /\ stack # <<>> /\ Top.kind = "do_event"
        /\ Top.at \in Proc /\ Top.ev \in Event
    BY <1>0, <1>4, TopTyped, FrameFields DEF BroadcastCall, TopAt, TopIs
  <2>2. f \in Frame /\ f.kind = "do_event"
    BY <2>1 DEF Frame, BroadcastFrame
  <2>3. call_process(state, Append(Callers, f), Top.at, Top.ev, KEEP)
    BY <1>4 DEF BroadcastCall
  <2> DEFINE g == Append(Callers, f)
  <2> HIDE DEF f
  <2>4. g \in Seq(Frame) /\ Returns(g) /\ g[Len(g)].kind \notin ThreadKind
    BY <2>1, <2>2, CurrentLoop DEF ThreadKind
  <2>5. call_process(state, g, Top.at, Top.ev, KEEP)
    BY <2>3
  <2> HIDE DEF g
  <2> QED BY <2>1, <2>4, <2>5, CurrentCall
<1>5. CASE ExitWalk
  <2> DEFINE q == After(Top.at)
             looping == [Top EXCEPT !.at = q]
             leaving == [Top EXCEPT !.pc = "unlink"]
  <2>1. /\ Top \in ExitFrame /\ stack # <<>> /\ Top.at \in Pointer /\ Top.p \in Proc
        /\ Top.kind = "exit_process"
    BY <1>0, <1>5, TopTyped, FrameFields DEF ExitWalk, TopAt, TopIs
  <2>2. q \in Pointer
    BY <2>1, AfterTyped
  <2>3. /\ looping \in Frame /\ looping.kind = "exit_process" /\ looping.back = Top.back
        /\ leaving \in Frame /\ leaving.kind = "exit_process" /\ leaving.back = Top.back
    BY <2>1, <2>2 DEF Frame, ExitFrame
  <2>4. CASE q = NULL /\ Top.p # Top.from
    <3> DEFINE t == Thread("exit_thread", Top.p, "EXIT", KEEP)
               g == Append(Callers, leaving)
    <3>1. t \in Frame /\ t.kind = "exit_thread" /\ t.p = Top.p
      BY <2>1, BoundAssumption DEF Thread, Frame, ThreadFrame, Event
    <3>2. stack' = Append(g, t) /\ process_current' = Top.p
      BY <1>5, <2>4 DEF ExitWalk
    <3> HIDE DEF leaving
    <3>3. g \in Seq(Frame) /\ Returns(g) /\ g[Len(g)].kind \notin ThreadKind
      BY <2>1, <2>3, CurrentLoop DEF ThreadKind
    <3> HIDE DEF g, t
    <3>4. Returns(stack') /\ Top' = t
      BY <3>1, <3>2, <3>3, ReturnsPush, PushTop
    <3> QED BY <3>1, <3>2, <3>4 DEF CurrentInv, ReturnsToCaller, CurrentIsExecuting, TopIs, Returns
  <2>5. CASE q = NULL /\ Top.p = Top.from
    BY <1>5, <2>1, <2>3, <2>5, CurrentLoop DEF ExitWalk, ThreadKind
  <2>6. CASE q # NULL /\ q = Top.p
    BY <1>5, <2>1, <2>3, <2>6, CurrentLoop DEF ExitWalk, ThreadKind
  <2>7. CASE q # NULL /\ q # Top.p
    <3>1. q \in Proc
      BY <2>2, <2>7 DEF Pointer
    <3>2. call_process(state, Append(Callers, looping), q, "EXITED", KEEP)
      BY <1>5, <2>7 DEF ExitWalk
    <3> DEFINE g == Append(Callers, looping)
    <3> HIDE DEF looping
    <3>3. g \in Seq(Frame) /\ Returns(g) /\ g[Len(g)].kind \notin ThreadKind
      BY <2>1, <2>3, CurrentLoop DEF ThreadKind
    <3> HIDE DEF q, g
    <3>4. call_process(state, g, q, "EXITED", KEEP) /\ "EXITED" \in Event
      BY <3>2 DEF g, Event
    <3> QED BY <3>1, <3>3, <3>4, CurrentCall
  <2> QED BY <2>4, <2>5, <2>6, <2>7
<1>6. CASE ExitUnlink
  <2>1. stack # <<>> /\ stack' = Callers /\ process_current' = Top.back
    BY <1>6 DEF ExitUnlink, TopAt, TopIs, unlink
  <2> QED BY <2>1, CurrentReturn
<1> QED BY <1>1, <1>2, <1>3, <1>4, <1>5, <1>6 DEF Walk

\* PROCESS_CURRENT() is right in every program: while a thread executes, it names
\* the process of that thread.
THEOREM CurrentAlwaysRight == Spec => []CurrentIsExecuting
<1>1. Init => CurrentInv
  BY DEF Init, CurrentInv, ReturnsToCaller, Returns, CurrentIsExecuting, TopIs
<1>2. TypeOK /\ CurrentInv /\ [Next]_vars => CurrentInv'
  <2> SUFFICES ASSUME TypeOK, CurrentInv, [Next]_vars PROVE CurrentInv'
    OBVIOUS
  <2>1. CASE MainLoop \/ (\E p \in Proc : BootStart(p))
    BY <2>1, CurrentMain
  <2>2. CASE (\E p \in Polled : process_poll(p)) \/ UNCHANGED vars
    <3>1. UNCHANGED <<stack, process_current>>
      BY <2>2 DEF process_poll, vars
    <3> QED BY <3>1 DEF CurrentInv, ReturnsToCaller, Returns, CurrentIsExecuting, TopIs, Top
  <2>3. CASE Walk
    BY <2>3, CurrentWalk
  <2>4. CASE ThreadStep
    BY <2>4, CurrentThread
  <2> QED BY <2>1, <2>2, <2>3, <2>4 DEF Next
<1>3. CurrentInv => CurrentIsExecuting
  BY DEF CurrentInv
<1> QED BY <1>1, <1>2, <1>3, TypeCorrect, PTL DEF Spec

--------------------------------------------------------------------------------
(* The list.                                                                    *)

ListOK == TypeOK /\ ListedOnce

LEMMA ListTyped ==
  ASSUME process_list \in Seq(Proc)
  PROVE  /\ Len(process_list) \in Nat /\ DOMAIN process_list = 1..Len(process_list)
         /\ \A i \in 1..Len(process_list) : process_list[i] \in Proc /\ process_list[i] \in Listed
         /\ \A p \in Listed : p \in Proc /\ \E i \in 1..Len(process_list) : process_list[i] = p
<1>1. Len(process_list) \in Nat /\ DOMAIN process_list = 1..Len(process_list)
  BY LenProperties
<1>2. \A i \in 1..Len(process_list) : process_list[i] \in Proc
  BY ElementOfSeq
<1> QED BY <1>1, <1>2 DEF Listed

\* The one after each element of the list is the next element.
Chained ==
  /\ After(NULL) = IF Len(process_list) = 0 THEN NULL ELSE process_list[1]
  /\ \A i \in 1..Len(process_list) :
       After(process_list[i]) = IF i = Len(process_list) THEN NULL ELSE process_list[i + 1]

LEMMA ListIsChained == ListOK => Chained
<1> SUFFICES ASSUME ListOK PROVE Chained
  OBVIOUS
<1>1. process_list \in Seq(Proc)
  BY DEF ListOK, TypeOK
<1>2. After(NULL) = IF Len(process_list) = 0 THEN NULL ELSE process_list[1]
  BY <1>1, EmptySeq DEF After
<1>3. ASSUME NEW i \in 1..Len(process_list)
      PROVE  After(process_list[i]) = IF i = Len(process_list) THEN NULL ELSE process_list[i + 1]
  <2>1. process_list[i] \in Listed /\ process_list[i] # NULL
    BY <1>1, ListTyped, PointerAssumption
  <2>2. Position(process_list[i]) = i
    BY <1>1, <2>1, PositionTyped, ListTyped DEF ListOK, ListedOnce
  <2> QED BY <2>1, <2>2 DEF After
<1> QED BY <1>2, <1>3 DEF Chained

\* A loop that has not started reaches every listed process.
AllAhead == \A p \in Listed : p \in Ahead(NULL)

LEMMA HeadReaches == ListOK => AllAhead
<1> SUFFICES ASSUME ListOK, NEW p \in Listed,
                    NEW S \in SUBSET Pointer, After(NULL) \in S, AfterClosed(S)
             PROVE  p \in S
  BY ListTyped DEF AllAhead, Ahead, ListOK, TypeOK
<1>1. /\ Len(process_list) \in Nat /\ \A i \in 1..Len(process_list) : process_list[i] \in Proc
      /\ \E i \in 1..Len(process_list) : process_list[i] = p
  BY ListTyped DEF ListOK, TypeOK
<1> DEFINE Missed == {i \in 1..Len(process_list) : process_list[i] \notin S}
<1>2. CASE Missed = {}
  BY <1>1, <1>2
<1>3. CASE Missed # {}
  <2>1. PICK i \in Missed : \A j \in Missed : i <= j
    <3>1. Missed \in SUBSET Nat
      BY <1>1
    <3> HIDE DEF Missed
    <3> QED BY <1>3, <3>1, LeastNumber
  <2>2. CASE i = 1
    BY <1>1, <2>1, <2>2, ListIsChained DEF Chained
  <2>3. CASE i # 1
    <3>1. i - 1 \in 1..Len(process_list) /\ i - 1 # Len(process_list) /\ i - 1 \notin Missed
      BY <1>1, <2>1, <2>3
    <3>2. process_list[i - 1] \in S \ {NULL}
      BY <1>1, <3>1, PointerAssumption
    <3>3. After(process_list[i - 1]) = process_list[i]
      BY <1>1, <3>1, <2>1, ListIsChained DEF Chained
    <3> QED BY <2>1, <3>2, <3>3 DEF AfterClosed
  <2> QED BY <2>2, <2>3
<1> QED BY <1>2, <1>3

LEMMA ChainedNext == ListOK' => Chained' /\ AllAhead'
  BY ListIsChained, HeadReaches, PTL

--------------------------------------------------------------------------------
(* What the operations on the list do to the loops.                             *)

\* A process that starts comes before the head; nothing else changes.
LEMMA AfterStart ==
  ASSUME ListOK, ListOK', NEW x \in Proc, x \notin Listed,
         process_list' = <<x>> \o process_list, next' = next
  PROVE  /\ Listed' = Listed \cup {x}
         /\ After(NULL)' = x /\ After(x)' = After(NULL)
         /\ \A at \in Proc \ {x} : After(at)' = After(at)
<1> DEFINE n == Len(process_list)
<1>1. /\ process_list \in Seq(Proc) /\ process_list' \in Seq(Proc) /\ n \in Nat
      /\ DOMAIN process_list = 1..n /\ DOMAIN process_list' = 1..(n + 1)
      /\ \A i \in 1..(n + 1) : process_list'[i] = IF i = 1 THEN x ELSE process_list[i - 1]
      /\ Len(process_list') = n + 1
  BY ListTyped, Pushed, LenProperties DEF ListOK, TypeOK
<1> HIDE DEF n
<1>2. Listed' = Listed \cup {x}
  <2>1. \A p : (\E i \in 1..(n + 1) : process_list'[i] = p)
               <=> p = x \/ \E i \in 1..n : process_list[i] = p
    <3>1. ASSUME NEW i \in 1..n PROVE i + 1 \in 1..(n + 1) /\ process_list'[i + 1] = process_list[i]
      BY <1>1
    <3>2. ASSUME NEW i \in 1..(n + 1), i # 1
          PROVE  i - 1 \in 1..n /\ process_list'[i] = process_list[i - 1]
      BY <1>1, <3>2
    <3>3. 1 \in 1..(n + 1) /\ process_list'[1] = x
      BY <1>1
    <3> QED BY <3>1, <3>2, <3>3
  <2>2. Listed = {process_list[i] : i \in 1..n} /\ Listed' = {process_list'[i] : i \in 1..(n + 1)}
    BY <1>1 DEF Listed
  <2>3. \A p : p \in Listed' <=> p \in Listed \cup {x}
    BY <2>1, <2>2
  <2> QED BY <2>3
<1>3. Chained /\ Chained' /\ Len(process_list) = n
  BY ListIsChained, ChainedNext DEF n
<1>4. After(NULL)' = x
  BY <1>1, <1>3 DEF Chained
<1>5. After(x)' = After(NULL)
  <2>1. process_list'[1] = x /\ 1 \in 1..(n + 1)
    BY <1>1
  <2>2. After(x)' = IF 1 = n + 1 THEN NULL ELSE process_list'[1 + 1]
    BY <1>1, <1>3, <2>1 DEF Chained
  <2> QED BY <1>1, <1>3, <2>2 DEF Chained
<1>6. ASSUME NEW at \in Proc \ {x} PROVE After(at)' = After(at)
  <2>1. CASE at \in Listed
    <3>1. PICK i \in 1..n : process_list[i] = at
      BY <1>1, <2>1 DEF Listed
    <3>2. i + 1 \in 1..(n + 1) /\ process_list'[i + 1] = at
      BY <1>1, <3>1
    <3>3. After(at)' = IF i + 1 = n + 1 THEN NULL ELSE process_list'[i + 1 + 1]
      BY <1>1, <1>3, <3>2 DEF Chained
    <3>4. After(at) = IF i = n THEN NULL ELSE process_list[i + 1]
      BY <1>3, <3>1 DEF Chained
    <3> QED BY <1>1, <3>3, <3>4
  <2>2. CASE at \notin Listed
    BY <1>2, <2>2, PointerAssumption DEF After
  <2> QED BY <2>1, <2>2
<1> QED BY <1>2, <1>4, <1>5, <1>6

\* A process that is unlinked keeps its next pointer; who stood before it stands before
\* the one after it, unless it had left the list itself.
LEMMA AfterUnlink ==
  ASSUME ListOK, ListOK', NEW x \in Proc, NEW back, unlink(x, back)
  PROVE  /\ Listed' = Listed \ {x}
         /\ After(x)' = After(x)
         /\ \A at \in Pointer :
              After(at)' = After(at) \/ (After(at) = x /\ After(at)' = After(x))
<1> DEFINE n == Len(process_list)
           k == Position(x)
<1>0. /\ process_list \in Seq(Proc) /\ n \in Nat /\ DOMAIN process_list = 1..n
      /\ \A i \in 1..n : process_list[i] \in Proc
      /\ \A i, j \in 1..n : process_list[i] = process_list[j] => i = j
  BY ListTyped DEF ListOK, TypeOK, ListedOnce
<1>1. CASE x \notin Listed
  <2>1. process_list' = process_list /\ next' = next
    BY <1>1 DEF unlink
  <2> QED BY <1>1, <2>1 DEF Listed, After, Position
<1>2. CASE x \in Listed
  <2>1. k \in 1..n /\ process_list[k] = x
    BY <1>0, <1>2, PositionTyped
  <2>2. process_list' = RemoveAt(process_list, k) /\ next' = [next EXCEPT ![x] = After(x)]
    BY <1>2 DEF unlink, NextKept
  <2> HIDE DEF k
  <2>3. /\ process_list' \in Seq(Proc) /\ Len(process_list') = n - 1
        /\ \A j \in 1..(n - 1) :
             process_list'[j] = IF j < k THEN process_list[j] ELSE process_list[j + 1]
        /\ DOMAIN process_list' = 1..(n - 1)
    <3>1. /\ process_list' \in Seq(Proc) /\ Len(process_list') = n - 1
          /\ \A j \in 1..(n - 1) :
               process_list'[j] = IF j < k THEN process_list[j] ELSE process_list[j + 1]
      BY <1>0, <2>1, <2>2, RemoveAtFacts
    <3> QED BY <3>1, LenProperties
  <2>4. Chained /\ Chained' /\ Len(process_list) = n
    BY ListIsChained, ChainedNext DEF n
  <2> HIDE DEF n
  <2>5. Listed' = Listed \ {x}
    <3>1. \A p : (\E j \in 1..(n - 1) : process_list'[j] = p)
                <=> p # x /\ \E i \in 1..n : process_list[i] = p
      <4>1. ASSUME NEW j \in 1..(n - 1)
            PROVE  process_list'[j] # x /\ \E i \in 1..n : process_list[i] = process_list'[j]
        <5>1. PICK i \in 1..n : i # k /\ process_list'[j] = process_list[i]
          <6>1. j \in 1..n /\ j + 1 \in 1..n
            BY <1>0
          <6> QED BY <1>0, <2>1, <2>3, <6>1
        <5> QED BY <1>0, <2>1, <5>1
      <4>2. ASSUME NEW i \in 1..n, process_list[i] # x
            PROVE  \E j \in 1..(n - 1) : process_list'[j] = process_list[i]
        <5>1. CASE i < k
          BY <1>0, <2>1, <2>3, <5>1
        <5>2. CASE i > k
          <6>1. i - 1 \in 1..(n - 1) /\ process_list'[i - 1] = process_list[i]
            BY <1>0, <2>1, <2>3, <5>2
          <6> QED BY <6>1
        <5> QED BY <1>0, <2>1, <4>2, <5>1, <5>2
      <4> QED BY <4>1, <4>2
    <3>2. Listed = {process_list[i] : i \in 1..n} /\ Listed' = {process_list'[i] : i \in 1..(n - 1)}
      BY <1>0, <2>3 DEF Listed
    <3>3. \A p : p \in Listed' <=> p \in Listed \ {x}
      BY <3>1, <3>2
    <3> QED BY <3>3
  <2>6. next'[x] = After(x) /\ \A at \in Proc \ {x} : next'[at] = next[at]
    BY <2>2 DEF ListOK, TypeOK
  <2>7. x # NULL /\ After(x)' = After(x)
    BY <2>5, <2>6, PointerAssumption DEF After
  <2>8. After(x) = IF k = n THEN NULL ELSE process_list[k + 1]
    BY <2>1, <2>4 DEF Chained
  <2>9. After(NULL)' = After(NULL) \/ (After(NULL) = x /\ After(NULL)' = After(x))
    BY <1>0, <2>1, <2>3, <2>4, <2>8 DEF Chained
  <2>10. ASSUME NEW at \in Listed \ {x}
         PROVE  After(at)' = After(at) \/ (After(at) = x /\ After(at)' = After(x))
    <3>1. PICK i \in 1..n : process_list[i] = at /\ i # k
      BY <1>0, <2>1, <2>10 DEF Listed
    <3>2. After(at) = IF i = n THEN NULL ELSE process_list[i + 1]
      BY <2>4, <3>1 DEF Chained
    <3>3. CASE i < k
      <4>1. i \in 1..(n - 1) /\ process_list'[i] = at
        BY <1>0, <2>1, <2>3, <3>1, <3>3
      <4>2. After(at)' = IF i = n - 1 THEN NULL ELSE process_list'[i + 1]
        BY <2>3, <2>4, <4>1 DEF Chained
      <4> QED BY <1>0, <2>1, <2>3, <2>8, <3>1, <3>2, <3>3, <4>2
    <3>4. CASE i > k
      <4>1. i - 1 \in 1..(n - 1) /\ process_list'[i - 1] = at
        BY <1>0, <2>1, <2>3, <3>1, <3>4
      <4>2. After(at)' = IF i - 1 = n - 1 THEN NULL ELSE process_list'[i - 1 + 1]
        BY <2>3, <2>4, <4>1 DEF Chained
      <4> QED BY <1>0, <2>1, <2>3, <3>1, <3>2, <3>4, <4>2
    <3> QED BY <1>0, <2>1, <3>1, <3>3, <3>4
  <2>11. ASSUME NEW at \in Proc \ {x}, at \notin Listed
         PROVE  After(at)' = After(at)
    BY <2>5, <2>6, <2>11, PointerAssumption DEF After
  <2> QED BY <2>5, <2>7, <2>9, <2>10, <2>11 DEF Pointer
<1> QED BY <1>1, <1>2

\* Whatever a step does to the list, what a loop has still to reach and what stays listed is
\* still reached: a loop may stand on a process that has left the list.
LEMMA AheadAfterStart ==
  ASSUME ListOK, ListOK', NEW x \in Proc, x \notin Listed,
         process_list' = <<x>> \o process_list, next' = next,
         NEW at \in Pointer, NEW p \in Listed, p \in Ahead(at)
  PROVE  p \in Ahead(at)'
<1>1. /\ After(NULL)' = x /\ After(x)' = After(NULL) /\ p \in Listed'
      /\ \A q \in Proc \ {x} : After(q)' = After(q)
  BY AfterStart
<1> SUFFICES ASSUME NEW S \in SUBSET Pointer, After(at)' \in S, AfterClosed(S)'
             PROVE  p \in S
  BY DEF Ahead
<1>2. /\ \A q \in S \ {NULL} : After(q)' \in S
      /\ \A R \in SUBSET Pointer : After(NULL) \in R /\ AfterClosed(R) => p \in R
      /\ \A R \in SUBSET Pointer : After(at) \in R /\ AfterClosed(R) => p \in R
      /\ \A R \in SUBSET Pointer : After(NULL)' \in R /\ AfterClosed(R)' => p \in R
  <2>1. \A q \in S \ {NULL} : After(q)' \in S
    BY DEF AfterClosed
  <2>2. p \in Ahead(NULL) /\ p \in Ahead(NULL)'
    BY <1>1, HeadReaches, ChainedNext DEF AllAhead
  <2> QED BY <2>1, <2>2 DEF Ahead
<1>3. CASE x \in S
  BY <1>1, <1>2, <1>3
<1>4. CASE x \notin S
  <2>1. \A q \in S \ {NULL} : After(q) \in S
    BY <1>1, <1>2, <1>4 DEF Pointer
  <2>2. AfterClosed(S)
    BY <2>1 DEF AfterClosed
  <2>3. After(NULL) \in S \/ After(at) \in S
    BY <1>1, <1>4 DEF Pointer
  <2> QED BY <1>2, <2>2, <2>3
<1> QED BY <1>3, <1>4

LEMMA AheadAfterUnlink ==
  ASSUME ListOK, ListOK', NEW x \in Proc, NEW back, unlink(x, back),
         NEW at \in Pointer, NEW p \in Listed', p \in Ahead(at)
  PROVE  p \in Ahead(at)'
<1>1. /\ p # x /\ p \in Proc
      /\ \A q \in Pointer : After(q)' = After(q) \/ (After(q) = x /\ After(q)' = After(x))
  BY AfterUnlink DEF Ahead
<1> SUFFICES ASSUME NEW S \in SUBSET Pointer, After(at)' \in S, AfterClosed(S)'
             PROVE  p \in S
  BY <1>1 DEF Ahead
<1>2. /\ \A q \in S \ {NULL} : After(q)' \in S
      /\ \A R \in SUBSET Pointer : After(at) \in R /\ AfterClosed(R) => p \in R
  BY DEF AfterClosed, Ahead
<1>3. CASE After(x) \in S
  <2> DEFINE R == S \cup {x}
  <2>1. R \in SUBSET Pointer /\ After(at) \in R
    BY <1>1 DEF Pointer
  <2>2. \A q \in R \ {NULL} : After(q) \in R
    BY <1>1, <1>2, <1>3
  <2>3. AfterClosed(R)
    BY <2>2 DEF AfterClosed
  <2>4. p \in R
    <3> HIDE DEF R
    <3> QED BY <1>2, <2>1, <2>3
  <2> QED BY <1>1, <2>4
<1>4. CASE After(x) \notin S
  <2>1. After(at) \in S /\ \A q \in S \ {NULL} : After(q) \in S
    BY <1>1, <1>2, <1>4
  <2>2. AfterClosed(S)
    BY <2>1 DEF AfterClosed
  <2> QED BY <1>2, <2>1, <2>2
<1> QED BY <1>3, <1>4

LEMMA ListSteps ==
  ASSUME TypeOK, [Next]_vars
  PROVE  \/ UNCHANGED <<process_list, next>>
         \/ \E p \in Proc : p \notin Listed /\ process_list' = <<p>> \o process_list /\ next' = next
         \/ \E p \in Proc, back \in Pointer : unlink(p, back)
<1>1. ASSUME NEW frames, NEW p \in Proc, process_start(frames, p)
      PROVE  \/ UNCHANGED <<process_list, next>>
             \/ p \notin Listed /\ process_list' = <<p>> \o process_list /\ next' = next
  BY <1>1 DEF process_start, OnList
<1>2. CASE \E p \in Proc : BootStart(p)
  BY <1>1, <1>2 DEF BootStart
<1>3. CASE \E p \in Polled : process_poll(p)
  BY <1>3 DEF process_poll
<1>4. CASE MainLoop
  BY <1>4 DEF MainLoop, BootDone, RunPoll, NoEvent, TakeBroadcast, TakeZombie, TakeUnicast, Take
<1>5. CASE Walk
  <2>1. CASE ExitUnlink
    <3>1. Top.p \in Proc /\ Top.back \in Pointer
      BY <2>1, TopTyped, FrameFields DEF ExitUnlink, TopAt, TopIs, TypeOK
    <3> QED BY <2>1, <3>1 DEF ExitUnlink
  <2>2. CASE ~ExitUnlink
    BY <1>5, <2>2 DEF Walk, PollClear, PollWalk, BroadcastWalk, BroadcastCall, ExitWalk
  <2> QED BY <2>1, <2>2
<1>6. CASE ThreadStep
  <2>1. CASE \E p \in Proc : ThreadStart(p)
    BY <1>1, <2>1 DEF ThreadStart
  <2>2. CASE ~\E p \in Proc : ThreadStart(p)
    BY <1>6, <2>2 DEF ThreadStep, ThreadPost, ThreadPostSynch, ThreadExit, ThreadYields, ThreadEnds,
                      ExitThreadReturns
  <2> QED BY <2>1, <2>2
<1>7. CASE UNCHANGED vars
  BY <1>7 DEF vars
<1> QED BY <1>2, <1>3, <1>4, <1>5, <1>6, <1>7 DEF Next

LEMMA AheadKept ==
  ASSUME ListOK, ListOK', [Next]_vars,
         NEW at \in Pointer, NEW p \in Listed, p \in Listed', p \in Ahead(at)
  PROVE  p \in Ahead(at)'
<1>1. CASE UNCHANGED <<process_list, next>>
  <2>1. Listed' = Listed
    BY <1>1 DEF Listed
  <2>2. \A q \in Pointer : After(q)' = After(q)
    BY <1>1, <2>1 DEF After, Position
  <2> QED BY <2>2 DEF Ahead, AfterClosed
<1>2. CASE \E x \in Proc : x \notin Listed /\ process_list' = <<x>> \o process_list /\ next' = next
  <2>1. PICK x \in Proc : x \notin Listed /\ process_list' = <<x>> \o process_list /\ next' = next
    BY <1>2
  <2> QED BY <2>1, AheadAfterStart
<1>3. CASE \E x \in Proc, back \in Pointer : unlink(x, back)
  <2>1. PICK x \in Proc, back \in Pointer : unlink(x, back)
    BY <1>3
  <2> QED BY <2>1, AheadAfterUnlink
<1> QED BY <1>1, <1>2, <1>3, ListSteps DEF ListOK

\* One turn of a loop: what it still had to reach is where it now stands, or ahead.
LEMMA WalkOn ==
  ASSUME ListOK, NEW at \in Pointer, NEW p \in Ahead(at)
  PROVE  After(at) \in Proc /\ (p = After(at) \/ p \in Ahead(After(at)))
<1>1. /\ p \in Proc /\ After(at) \in Pointer
      /\ \A S \in SUBSET Pointer : After(at) \in S /\ AfterClosed(S) => p \in S
  BY AfterTyped DEF Ahead, ListOK
<1>2. After(at) # NULL
  <2>1. AfterClosed({NULL}) /\ {NULL} \in SUBSET Pointer
    BY DEF AfterClosed, Pointer
  <2> QED BY <1>1, <2>1, PointerAssumption
<1>3. ASSUME NEW S \in SUBSET Pointer, After(After(at)) \in S, AfterClosed(S), p # After(at)
      PROVE  p \in S
  <2> DEFINE R == S \cup {After(at)}
  <2>1. AfterClosed(R) /\ R \in SUBSET Pointer /\ After(at) \in R
    BY <1>1, <1>3 DEF AfterClosed
  <2>2. p \in R
    <3> HIDE DEF R
    <3> QED BY <1>1, <2>1
  <2> QED BY <1>3, <2>2
<1> QED BY <1>1, <1>2, <1>3 DEF Ahead, Pointer

--------------------------------------------------------------------------------
(* The stack.                                                                   *)

Frames(s) == {s[i] : i \in DOMAIN s}

\* The broadcast loop of do_event() is only run by the main program.
NoEventAbove(s) == \A i \in 2..Len(s) : s[i].kind # "do_event"

LEMMA Push ==
  ASSUME NEW s \in Seq(Frame), NEW f \in Frame
  PROVE  /\ Append(s, f) \in Seq(Frame) /\ Append(s, f) # <<>>
         /\ Frames(Append(s, f)) = Frames(s) \cup {f}
         /\ Append(s, f)[1] = IF s = <<>> THEN f ELSE s[1]
         /\ NoEventAbove(s) /\ (s = <<>> \/ f.kind # "do_event") => NoEventAbove(Append(s, f))
<1>1. /\ Append(s, f) \in Seq(Frame) /\ Len(s) \in Nat /\ Len(Append(s, f)) = Len(s) + 1
      /\ DOMAIN s = 1..Len(s) /\ DOMAIN Append(s, f) = 1..(Len(s) + 1)
      /\ \A i \in 1..Len(s) : Append(s, f)[i] = s[i]
      /\ Append(s, f)[Len(s) + 1] = f /\ (s = <<>> <=> Len(s) = 0)
  BY EmptySeq, LenProperties
<1>2. Frames(Append(s, f)) = Frames(s) \cup {f}
  <2>1. /\ Frames(s) = {s[i] : i \in 1..Len(s)}
        /\ Frames(Append(s, f)) = {Append(s, f)[i] : i \in 1..(Len(s) + 1)}
    BY <1>1 DEF Frames
  <2>2. \A g : g \in Frames(Append(s, f)) <=> g \in Frames(s) \cup {f}
    BY <1>1, <2>1
  <2> QED BY <2>2
<1>3. Append(s, f)[1] = IF s = <<>> THEN f ELSE s[1]
  BY <1>1
<1>4. ASSUME NoEventAbove(s), s = <<>> \/ f.kind # "do_event"
      PROVE  NoEventAbove(Append(s, f))
  <2> SUFFICES ASSUME NEW i \in 2..(Len(s) + 1) PROVE Append(s, f)[i].kind # "do_event"
    BY <1>1 DEF NoEventAbove
  <2>1. CASE i = Len(s) + 1
    BY <1>1, <1>4, <2>1
  <2>2. CASE i # Len(s) + 1
    BY <1>1, <1>4, <2>2 DEF NoEventAbove
  <2> QED BY <2>1, <2>2
<1> QED BY <1>1, <1>2, <1>3, <1>4

LEMMA Pop ==
  ASSUME stack \in Seq(Frame), stack # <<>>
  PROVE  /\ Callers \in Seq(Frame) /\ Top \in Frame
         /\ Frames(stack) = Frames(Callers) \cup {Top}
         /\ stack[1] = IF Callers = <<>> THEN Top ELSE Callers[1]
         /\ NoEventAbove(stack) => NoEventAbove(Callers) /\ (Callers = <<>> \/ Top.kind # "do_event")
<1>1. /\ Len(stack) \in Nat \ {0} /\ Callers \in Seq(Frame) /\ Len(Callers) = Len(stack) - 1
      /\ \A i \in 1..(Len(stack) - 1) : Callers[i] = stack[i]
      /\ DOMAIN stack = 1..Len(stack) /\ DOMAIN Callers = 1..(Len(stack) - 1)
      /\ Top = stack[Len(stack)] /\ (Callers = <<>> <=> Len(Callers) = 0)
  BY WithoutLast, EmptySeq, LenProperties DEF Callers, Top
<1>2. Frames(stack) = Frames(Callers) \cup {Top}
  <2>1. /\ Frames(stack) = {stack[i] : i \in 1..Len(stack)}
        /\ Frames(Callers) = {Callers[i] : i \in 1..(Len(stack) - 1)}
    BY <1>1 DEF Frames
  <2>2. \A g : g \in Frames(stack) <=> g \in Frames(Callers) \cup {Top}
    BY <1>1, <2>1
  <2> QED BY <2>2
<1>3. NoEventAbove(stack) => NoEventAbove(Callers) /\ (Callers = <<>> \/ Top.kind # "do_event")
  BY <1>1 DEF NoEventAbove
<1> QED BY <1>1, <1>2, <1>3, TopTyped

LEMMA FramesTyped == ASSUME stack \in Seq(Frame) PROVE Frames(stack) \subseteq Frame
  BY LenProperties, ElementOfSeq DEF Frames

\* What a step other than one of the loops makes of the stack: the loops stay as they are,
\* and at most a do_poll() begins.
Loop == {"do_poll", "do_event"}

Calm(s, t) ==
  /\ \A f \in Frames(s) : f.kind \in Loop => f \in Frames(t)
  /\ \A f \in Frames(t) : f.kind \in Loop => f \in Frames(s) \/ f = StartPoll
  /\ NoEventAbove(s) => NoEventAbove(t)
  /\ s # <<>> /\ s[1].kind = "do_event" => t # <<>> /\ t[1] = s[1]

LEMMA CalmChain ==
  ASSUME NEW r, NEW s, NEW t, Calm(r, s), Calm(s, t)
  PROVE  Calm(r, t)
  BY DEF Calm

LEMMA CalmSame == \A s : Calm(s, s)
  BY DEF Calm

LEMMA CalmPush ==
  ASSUME NEW s \in Seq(Frame), NEW f \in Frame, f.kind \notin Loop \/ f = StartPoll
  PROVE  Calm(s, Append(s, f))
<1>1. f.kind # "do_event"
  BY DEF StartPoll, Loop
<1> QED BY <1>1, Push DEF Calm

LEMMA CalmPop ==
  ASSUME stack \in Seq(Frame), stack # <<>>, Top.kind \notin Loop
  PROVE  Calm(stack, Callers)
<1>1. /\ Frames(stack) = Frames(Callers) \cup {Top}
      /\ stack[1] = IF Callers = <<>> THEN Top ELSE Callers[1]
      /\ NoEventAbove(stack) => NoEventAbove(Callers)
  BY Pop
<1> QED BY <1>1 DEF Calm, Loop

LEMMA CalmReplace ==
  ASSUME stack \in Seq(Frame), stack # <<>>, Top.kind \notin Loop,
         NEW f \in Frame, f.kind \notin Loop
  PROVE  Append(Callers, f) \in Seq(Frame) /\ Calm(stack, Append(Callers, f))
<1>1. Callers \in Seq(Frame) /\ Calm(stack, Callers)
  BY Pop, CalmPop
<1> QED BY <1>1, Push, CalmPush, CalmChain

LEMMA CalmCall ==
  ASSUME NEW st, NEW frames \in Seq(Frame), NEW p \in Proc, NEW ev \in Event,
         NEW back \in Pointer \cup {KEEP}, call_process(st, frames, p, ev, back)
  PROVE  Calm(frames, stack')
<1> DEFINE f == Thread("thread", p, ev, back)
<1>1. f \in Frame /\ f.kind \notin Loop
  BY BoundAssumption DEF Thread, Frame, ThreadFrame, Loop
<1>2. stack' = frames \/ stack' = Append(frames, f)
  BY DEF call_process
<1> HIDE DEF f
<1> QED BY <1>1, <1>2, CalmPush, CalmSame

LEMMA CalmStart ==
  ASSUME TypeOK, NEW frames \in Seq(Frame), NEW p \in Proc, process_start(frames, p)
  PROVE  Calm(frames, stack')
<1>1. process_current \in Pointer \cup {KEEP} /\ "INIT" \in Event
  BY DEF TypeOK, Event
<1> QED BY <1>1, CalmSame, CalmCall DEF process_start

LEMMA CalmExit ==
  ASSUME NEW frames \in Seq(Frame), NEW p \in Proc, NEW from \in Pointer, NEW back \in Pointer,
         exit_process(frames, p, from, back)
  PROVE  Calm(frames, stack')
<1> DEFINE f == [kind |-> "exit_process", p |-> p, from |-> from, at |-> NULL, back |-> back,
                 pc |-> IF state[p] = "NONE" THEN "unlink" ELSE "walk"]
<1>1. f \in Frame /\ f.kind \notin Loop
  BY DEF Frame, ExitFrame, Pointer, Loop
<1>2. stack' = Append(frames, f)
  BY DEF exit_process
<1> HIDE DEF f
<1> QED BY <1>1, <1>2, CalmPush

\* A thread that makes a call keeps its activation.
LEMMA CalmCaller ==
  ASSUME TypeOK, NEW call, MayCall(call)
  PROVE  /\ Caller \in Seq(Frame) /\ Calm(stack, Caller)
<1> DEFINE f == [Top EXCEPT !.calls = Top.calls + 1]
<1>1. stack \in Seq(Frame) /\ stack # <<>> /\ Top \in ThreadFrame
  BY CallerTyped DEF TypeOK
<1>2. f \in Frame /\ f.kind \notin Loop /\ Top.kind \notin Loop
  BY <1>1, BoundAssumption DEF MayCall, Frame, ThreadFrame, Loop
<1>3. Caller = Append(Callers, f)
  BY DEF Caller
<1> HIDE DEF f
<1> QED BY <1>1, <1>2, <1>3, CalmReplace

\* The steps that are not one of the loops, and no poll request.
Quiet ==
  /\ Calm(stack, stack')
  /\ UNCHANGED <<needspoll, poll_requested>> /\ owed' \subseteq owed
  /\ awaited' \subseteq awaited

LEMMA MainQuiet ==
  ASSUME TypeOK, MainLoop, ~TakeBroadcast
  PROVE  Quiet
<1>1. CASE BootDone
  BY <1>1, CalmSame DEF BootDone, Quiet, polls
<1>2. CASE RunPoll
  <2>1. StartPoll \in Frame /\ <<>> \in Seq(Frame) /\ <<StartPoll>> = Append(<<>>, StartPoll)
    BY DEF StartPoll, Frame, PollFrame, Pointer
  <2>2. Calm(<<>>, <<StartPoll>>)
    BY <2>1, CalmPush
  <2>3. stack = <<>> /\ (stack' = <<>> \/ stack' = <<StartPoll>>)
    BY <1>2 DEF RunPoll
  <2>4. Calm(stack, stack')
    BY <2>2, <2>3, CalmSame
  <2> QED BY <1>2, <2>4 DEF RunPoll, Quiet, polls
<1>3. CASE NoEvent
  BY <1>3, CalmSame DEF NoEvent, Quiet, polls
<1>4. CASE TakeZombie
  BY <1>4, CalmSame DEF TakeZombie, Take, Quiet, polls
<1>5. CASE TakeUnicast
  <2>1. events[fevent].ev \in Event /\ events[fevent].p \in Proc /\ <<>> \in Seq(Frame)
    BY <1>5, TakeTyped DEF TakeUnicast, Slot
  <2>2. /\ UNCHANGED <<polls, awaited>> /\ stack = <<>>
        /\ call_process(IF events[fevent].ev = "INIT"
                        THEN [state EXCEPT ![events[fevent].p] = "RUNNING"] ELSE state,
                        <<>>, events[fevent].p, events[fevent].ev, KEEP)
    BY <1>5 DEF TakeUnicast, Take
  <2>3. Calm(stack, stack')
    BY <2>1, <2>2, CalmCall
  <2> QED BY <2>2, <2>3 DEF Quiet, polls
<1> QED BY <1>1, <1>2, <1>3, <1>4, <1>5 DEF MainLoop

LEMMA ExitQuiet ==
  ASSUME TypeOK, ExitWalk \/ ExitUnlink
  PROVE  Quiet
<1>1. /\ stack \in Seq(Frame) /\ stack # <<>> /\ Top \in ExitFrame /\ Top \in Frame
      /\ Top.p \in Proc /\ Top.at \in Pointer /\ Top.kind \notin Loop /\ Callers \in Seq(Frame)
  BY TopTyped, FrameFields DEF ExitWalk, ExitUnlink, TopAt, TopIs, TypeOK, Loop
<1>2. CASE ExitUnlink
  <2>1. /\ stack' = Callers /\ UNCHANGED <<needspoll, poll_requested>>
        /\ owed' \subseteq owed /\ awaited' \subseteq awaited
    BY <1>2 DEF ExitUnlink, unlink
  <2> QED BY <1>1, <2>1, CalmPop DEF Quiet
<1>3. CASE ExitWalk
  <2> DEFINE q == After(Top.at)
             looping == Append(Callers, [Top EXCEPT !.at = q])
             leaving == Append(Callers, [Top EXCEPT !.pc = "unlink"])
             t == Thread("exit_thread", Top.p, "EXIT", KEEP)
  <2>1. /\ q \in Pointer
        /\ [Top EXCEPT !.at = q] \in Frame /\ [Top EXCEPT !.at = q].kind \notin Loop
        /\ [Top EXCEPT !.pc = "unlink"] \in Frame /\ [Top EXCEPT !.pc = "unlink"].kind \notin Loop
    BY <1>1, AfterTyped DEF Frame, ExitFrame
  <2>2. /\ Calm(stack, looping) /\ looping \in Seq(Frame)
        /\ Calm(stack, leaving) /\ leaving \in Seq(Frame)
    BY <1>1, <2>1, CalmReplace
  <2>3. t \in Frame /\ t.kind \notin Loop
    BY <1>1, BoundAssumption DEF Thread, Frame, ThreadFrame, Loop, Event
  <2>4. UNCHANGED <<needspoll, poll_requested, owed, awaited>>
    BY <1>3 DEF ExitWalk, polls
  <2>5. \/ stack' = Append(leaving, t) \/ stack' = leaving \/ stack' = looping
        \/ q \in Proc /\ call_process(state, looping, q, "EXITED", KEEP)
    BY <1>3, <2>1 DEF ExitWalk, Pointer
  <2> HIDE DEF q, looping, leaving, t
  <2>6. Calm(leaving, Append(leaving, t))
    BY <2>2, <2>3, CalmPush
  <2>7. q \in Proc /\ call_process(state, looping, q, "EXITED", KEEP) => Calm(looping, stack')
    BY <2>2, CalmCall DEF Event
  <2>8. Calm(stack, Append(leaving, t))
    BY <2>2, <2>6, CalmChain
  <2>9. Calm(looping, stack') => Calm(stack, stack')
    BY <2>2, CalmChain
  <2>10. Calm(stack, stack')
    <3>1. CASE stack' = Append(leaving, t)
      BY <2>8, <3>1
    <3>2. CASE stack' = leaving \/ stack' = looping
      BY <2>2, <3>2
    <3>3. CASE q \in Proc /\ call_process(state, looping, q, "EXITED", KEEP)
      BY <2>7, <2>9, <3>3
    <3> QED BY <2>5, <3>1, <3>2, <3>3
  <2> QED BY <2>4, <2>10 DEF Quiet
<1> QED BY <1>2, <1>3

LEMMA ThreadQuiet ==
  ASSUME TypeOK, ThreadStep
  PROVE  Quiet
<1>0. stack \in Seq(Frame) /\ process_current \in Pointer /\ Posted \subseteq Event
  BY ProgramAssumption DEF TypeOK, Event
<1>1. CASE \E p \in Pointer, ev \in Posted : ThreadPost(p, ev)
  BY <1>1, CalmCaller DEF ThreadPost, Quiet, polls
<1>2. CASE \E p \in Proc, ev \in Posted : ThreadPostSynch(p, ev)
  <2>1. PICK p \in Proc, ev \in Posted : ThreadPostSynch(p, ev)
    BY <1>2
  <2>2. Caller \in Seq(Frame) /\ Calm(stack, Caller)
    BY <2>1, CalmCaller DEF ThreadPostSynch
  <2>3. call_process(state, Caller, p, ev, process_current)
    BY <2>1 DEF ThreadPostSynch
  <2>4. Calm(stack, stack')
    BY <1>0, <2>2, <2>3, CalmCall, CalmChain
  <2> QED BY <2>1, <2>4 DEF ThreadPostSynch, Quiet, polls
<1>3. CASE \E p \in Proc : ThreadStart(p)
  <2>1. PICK p \in Proc : ThreadStart(p)
    BY <1>3
  <2>2. Caller \in Seq(Frame) /\ Calm(stack, Caller)
    BY <2>1, CalmCaller DEF ThreadStart
  <2>3. Calm(Caller, stack')
    BY <2>1, <2>2, CalmStart DEF ThreadStart
  <2>4. Calm(stack, stack')
    BY <2>2, <2>3, CalmChain
  <2> QED BY <2>1, <2>4 DEF ThreadStart, Quiet, polls
<1>4. CASE \E p \in Proc : ThreadExit(p)
  <2>1. PICK p \in Proc : ThreadExit(p)
    BY <1>4
  <2>2. Caller \in Seq(Frame) /\ Calm(stack, Caller)
    BY <2>1, CalmCaller DEF ThreadExit
  <2>3. Calm(Caller, stack')
    BY <1>0, <2>1, <2>2, CalmExit DEF ThreadExit
  <2>4. Calm(stack, stack')
    BY <2>2, <2>3, CalmChain
  <2> QED BY <2>1, <2>4 DEF ThreadExit, Quiet, polls
<1>5. CASE ThreadYields
  <2>1. Calm(stack, Callers)
    BY <1>0, <1>5, CalmPop DEF ThreadYields, TopIs, Loop
  <2> QED BY <1>5, <2>1 DEF ThreadYields, Quiet, polls
<1>6. CASE ThreadEnds
  <2>1. /\ Calm(stack, Callers) /\ Callers \in Seq(Frame) /\ Top.p \in Proc /\ Top.p \in Pointer
        /\ Restored(Top.back) \in Pointer
    BY <1>0, <1>6, CalmPop, TopTyped, FrameFields, RestoredTyped
       DEF ThreadEnds, TopIs, Loop, ThreadKind, Pointer
  <2>2. Calm(Callers, stack')
    BY <1>6, <2>1, CalmExit DEF ThreadEnds
  <2>3. Calm(stack, stack')
    BY <2>1, <2>2, CalmChain
  <2> QED BY <1>6, <2>3 DEF ThreadEnds, Quiet, polls
<1>7. CASE ExitThreadReturns
  <2>1. Calm(stack, Callers)
    BY <1>0, <1>7, CalmPop DEF ExitThreadReturns, TopIs, Loop
  <2> QED BY <1>7, <2>1 DEF ExitThreadReturns, Quiet, polls
<1> QED BY <1>1, <1>2, <1>3, <1>4, <1>5, <1>6, <1>7 DEF ThreadStep

LEMMA QuietOrLoop ==
  ASSUME TypeOK, [Next]_vars
  PROVE  \/ Quiet
         \/ PollClear \/ PollWalk \/ BroadcastWalk \/ BroadcastCall \/ TakeBroadcast
         \/ \E p \in Proc : process_poll(p)
<1>1. CASE \E p \in Proc : BootStart(p)
  <2>1. PICK p \in Proc : BootStart(p)
    BY <1>1
  <2>2. Calm(stack, stack')
    BY <2>1, CalmStart DEF BootStart, TypeOK
  <2> QED BY <2>1, <2>2 DEF BootStart, Quiet, polls
<1>2. CASE \E p \in Polled : process_poll(p)
  BY <1>2, ProgramAssumption
<1>3. CASE MainLoop
  BY <1>3, MainQuiet
<1>4. CASE Walk
  BY <1>4, ExitQuiet DEF Walk
<1>5. CASE ThreadStep
  BY <1>5, ThreadQuiet
<1>6. CASE UNCHANGED vars
  BY <1>6, CalmSame DEF vars, Quiet
<1> QED BY <1>1, <1>2, <1>3, <1>4, <1>5, <1>6 DEF Next

\* Nothing is owed to, or awaited of, a process that leaves the list.
LEMMA LeaversDropped ==
  ASSUME ListOK, ListOK', [Next]_vars, NEW p \in Listed, p \notin Listed'
  PROVE  p \notin owed' /\ p \notin awaited'
<1>1. CASE UNCHANGED <<process_list, next>>
  BY <1>1 DEF Listed
<1>2. CASE \E x \in Proc : x \notin Listed /\ process_list' = <<x>> \o process_list /\ next' = next
  <2>1. PICK x \in Proc : x \notin Listed /\ process_list' = <<x>> \o process_list /\ next' = next
    BY <1>2
  <2> QED BY <2>1, AfterStart
<1>3. CASE \E x \in Proc, back \in Pointer : unlink(x, back)
  <2>1. PICK x \in Proc, back \in Pointer : unlink(x, back)
    BY <1>3
  <2>2. Listed' = Listed \ {x}
    BY <2>1, AfterUnlink
  <2> QED BY <2>1, <2>2 DEF unlink
<1> QED BY <1>1, <1>2, <1>3, ListSteps DEF ListOK
--------------------------------------------------------------------------------
(* Poll requests.                                                               *)

\* A do_poll() that has not cleared poll_requested has not begun to walk the list.
PollsStart ==
  \A f \in Frames(stack) : f.kind = "do_poll" /\ f.pc = "clear" => f.at = NULL

\* A do_poll() is running that has still to reach p.
Coming(p) ==
  \E f \in Frames(stack) : f.kind = "do_poll" /\ (f.pc = "clear" \/ p \in Ahead(f.at))

Owes(p) == p \in Listed /\ needspoll[p] /\ (poll_requested \/ Coming(p))

LEMMA NoPollLostMeans == NoPollLost <=> \A p \in owed : Owes(p)
<1>1. \A p : Coming(p) <=>
        \E i \in DOMAIN stack :
          stack[i].kind = "do_poll" /\ (stack[i].pc = "clear" \/ p \in Ahead(stack[i].at))
  BY DEF Coming, Frames
<1> QED BY <1>1 DEF NoPollLost, Owes

\* What PollClear makes of the stack, and what PollWalk makes of it.
LEMMA PollClearStack ==
  ASSUME TypeOK, PollClear
  PROVE  /\ stack # <<>> /\ Top.kind = "do_poll" /\ Top.pc = "clear" /\ Top.at \in Pointer
         /\ Callers \in Seq(Frame)
         /\ \E f \in Frame :
              /\ f.kind = "do_poll" /\ f.pc = "walk" /\ f.at = Top.at
              /\ stack' = Append(Callers, f)
<1>1. /\ stack \in Seq(Frame) /\ stack # <<>> /\ Top.kind = "do_poll" /\ Top.pc = "clear"
      /\ Top \in PollFrame /\ Top.at \in Pointer /\ Callers \in Seq(Frame)
  BY TopTyped, FrameFields DEF PollClear, TopAt, TopIs, TypeOK
<1> DEFINE f == [Top EXCEPT !.pc = "walk"]
<1>2. f \in Frame /\ f.kind = "do_poll" /\ f.pc = "walk" /\ f.at = Top.at
  BY <1>1 DEF Frame, PollFrame
<1>3. stack' = Append(Callers, f)
  BY DEF PollClear
<1> HIDE DEF f
<1> QED BY <1>1, <1>2, <1>3

LEMMA PollWalkStack ==
  ASSUME TypeOK, PollWalk
  PROVE  /\ stack # <<>> /\ Top.kind = "do_poll" /\ Top.pc = "walk" /\ Top.at \in Pointer
         /\ Callers \in Seq(Frame)
         /\ \/ After(Top.at) = NULL /\ stack' = Callers
            \/ \E f \in Frame :
                 /\ f.kind = "do_poll" /\ f.pc = "walk" /\ f.at = After(Top.at)
                 /\ After(Top.at) \in Proc
                 /\ Append(Callers, f) \in Seq(Frame)
                 /\ Calm(Append(Callers, f), stack')
                 /\ \/ stack' = Append(Callers, f) /\ state' = state
                    \/ /\ needspoll[After(Top.at)]
                       /\ call_process([state EXCEPT ![After(Top.at)] = "RUNNING"],
                                       Append(Callers, f), After(Top.at), "POLL", KEEP)
<1> DEFINE p == After(Top.at)
           f == [Top EXCEPT !.at = p]
<1>1. /\ stack \in Seq(Frame) /\ stack # <<>> /\ Top.kind = "do_poll" /\ Top.pc = "walk"
      /\ Top \in PollFrame /\ Top.at \in Pointer /\ Callers \in Seq(Frame)
  BY TopTyped, FrameFields DEF PollWalk, TopAt, TopIs, TypeOK
<1>2. p \in Pointer
  BY <1>1, AfterTyped
<1>3. f \in Frame /\ f.kind = "do_poll" /\ f.pc = "walk" /\ f.at = p
  BY <1>1, <1>2 DEF Frame, PollFrame
<1>4. \/ p = NULL /\ stack' = Callers
      \/ p # NULL /\ stack' = Append(Callers, f) /\ state' = state
      \/ /\ p # NULL /\ needspoll[p]
         /\ call_process([state EXCEPT ![p] = "RUNNING"], Append(Callers, f), p, "POLL", KEEP)
  BY DEF PollWalk
<1>5. p # NULL => p \in Proc
  BY <1>2 DEF Pointer
<1> HIDE DEF f
<1>6. Append(Callers, f) \in Seq(Frame)
  BY <1>1, <1>3
<1>7. p \in Proc /\ call_process([state EXCEPT ![p] = "RUNNING"], Append(Callers, f), p, "POLL", KEEP)
      => Calm(Append(Callers, f), stack')
  BY <1>6, CalmCall DEF Event
<1> HIDE DEF p
<1>8. CASE p = NULL /\ stack' = Callers
  BY <1>1, <1>8 DEF p
<1>9. CASE p # NULL /\ stack' = Append(Callers, f) /\ state' = state
  BY <1>1, <1>3, <1>5, <1>6, <1>9, CalmSame DEF p
<1>10. CASE /\ p # NULL /\ needspoll[p]
            /\ call_process([state EXCEPT ![p] = "RUNNING"], Append(Callers, f), p, "POLL", KEEP)
  BY <1>1, <1>3, <1>5, <1>6, <1>7, <1>10 DEF p
<1> QED BY <1>4, <1>8, <1>9, <1>10

LEMMA BroadcastWalkStack ==
  ASSUME TypeOK, BroadcastWalk
  PROVE  /\ stack # <<>> /\ Top.kind = "do_event" /\ Top.pc = "walk" /\ Top.at \in Pointer
         /\ Callers \in Seq(Frame)
         /\ \/ After(Top.at) = NULL /\ stack' = Callers
            \/ \E f \in Frame :
                 /\ f.kind = "do_event" /\ f.pc = "call" /\ f.at = After(Top.at)
                 /\ Append(Callers, f) \in Seq(Frame)
                 /\ Calm(Append(Callers, f), stack')
                 /\ \/ stack' = Append(Callers, f)
                    \/ stack' = Append(Append(Callers, f), StartPoll)
<1> DEFINE p == After(Top.at)
           f == [Top EXCEPT !.at = p, !.pc = "call"]
<1>1. /\ stack \in Seq(Frame) /\ stack # <<>> /\ Top.kind = "do_event" /\ Top.pc = "walk"
      /\ Top \in BroadcastFrame /\ Top.at \in Pointer /\ Callers \in Seq(Frame)
  BY TopTyped, FrameFields DEF BroadcastWalk, TopAt, TopIs, TypeOK
<1>2. p \in Pointer /\ StartPoll \in Frame
  BY <1>1, AfterTyped DEF StartPoll, Frame, PollFrame, Pointer
<1>3. p # NULL => f \in Frame /\ f.kind = "do_event" /\ f.pc = "call" /\ f.at = p
  BY <1>1, <1>2 DEF Frame, BroadcastFrame
<1>4. \/ p = NULL /\ stack' = Callers
      \/ p # NULL /\ stack' = Append(Callers, f)
      \/ p # NULL /\ stack' = Append(Append(Callers, f), StartPoll)
  BY DEF BroadcastWalk
<1> HIDE DEF f, p
<1>5. p # NULL => /\ Append(Callers, f) \in Seq(Frame)
                  /\ Calm(Append(Callers, f), Append(Append(Callers, f), StartPoll))
  <2>1. StartPoll.kind = "do_poll" /\ (p # NULL => Append(Callers, f) \in Seq(Frame))
    BY <1>1, <1>3 DEF StartPoll
  <2>2. p # NULL => Calm(Append(Callers, f), Append(Append(Callers, f), StartPoll))
    BY <1>2, <2>1, CalmPush
  <2> QED BY <2>1, <2>2
<1>6. CASE p = NULL /\ stack' = Callers
  BY <1>1, <1>6 DEF p
<1>7. CASE p # NULL /\ stack' = Append(Callers, f)
  BY <1>1, <1>3, <1>5, <1>7, CalmSame DEF p
<1>8. CASE p # NULL /\ stack' = Append(Append(Callers, f), StartPoll)
  BY <1>1, <1>3, <1>5, <1>8 DEF p
<1> QED BY <1>4, <1>6, <1>7, <1>8

LEMMA BroadcastCallStack ==
  ASSUME TypeOK, BroadcastCall
  PROVE  /\ stack # <<>> /\ Top.kind = "do_event" /\ Top.pc = "call" /\ Top.at \in Proc
         /\ Callers \in Seq(Frame)
         /\ \E f \in Frame :
              /\ f.kind = "do_event" /\ f.pc = "walk" /\ f.at = Top.at
              /\ Append(Callers, f) \in Seq(Frame)
              /\ call_process(state, Append(Callers, f), Top.at, Top.ev, KEEP)
              /\ Calm(Append(Callers, f), stack')
<1> DEFINE f == [Top EXCEPT !.pc = "walk"]
<1>1. /\ stack \in Seq(Frame) /\ stack # <<>> /\ Top.kind = "do_event" /\ Top.pc = "call"
      /\ Top \in BroadcastFrame /\ Top.at \in Proc /\ Top.ev \in Event /\ Callers \in Seq(Frame)
  BY TopTyped, FrameFields DEF BroadcastCall, TopAt, TopIs, TypeOK
<1>2. f \in Frame /\ f.kind = "do_event" /\ f.pc = "walk" /\ f.at = Top.at
  BY <1>1 DEF Frame, BroadcastFrame
<1>3. call_process(state, Append(Callers, f), Top.at, Top.ev, KEEP)
  BY DEF BroadcastCall
<1> HIDE DEF f
<1>4. Append(Callers, f) \in Seq(Frame)
  BY <1>1, <1>2
<1>5. Calm(Append(Callers, f), stack')
  BY <1>1, <1>3, <1>4, CalmCall
<1> QED BY <1>1, <1>2, <1>3, <1>4, <1>5

LEMMA BroadcastTaken ==
  ASSUME TypeOK, TakeBroadcast
  PROVE  /\ stack = <<>> /\ UNCHANGED <<process_list, next, polls, state>> /\ awaited' = Listed
         /\ \E f \in Frame : /\ f.kind = "do_event" /\ f.pc = "walk" /\ f.at = NULL
                             /\ stack' = Append(<<>>, f)
<1> DEFINE f == [kind |-> "do_event", ev |-> events[fevent].ev, at |-> NULL, pc |-> "walk"]
<1>1. f \in Frame /\ f.kind = "do_event" /\ f.pc = "walk" /\ f.at = NULL
  BY TakeTyped DEF TakeBroadcast, Slot, Frame, BroadcastFrame, Pointer
<1>2. stack' = <<f>> /\ <<f>> = Append(<<>>, f)
  BY DEF TakeBroadcast
<1> HIDE DEF f
<1> QED BY <1>1, <1>2 DEF TakeBroadcast, Take
LEMMA PollsStartStep ==
  ASSUME TypeOK, PollsStart, [Next]_vars
  PROVE  PollsStart'
<1> DEFINE Starts(s) == \A f \in Frames(s) : f.kind = "do_poll" /\ f.pc = "clear" => f.at = NULL
<1>0. stack \in Seq(Frame) /\ StartPoll.at = NULL /\ Starts(<<>>)
  BY DEF TypeOK, StartPoll, Frames
<1>1. ASSUME NEW s, NEW t, Starts(s), Calm(s, t)
      PROVE  Starts(t)
  BY <1>0, <1>1 DEF Calm, Loop
<1>2. ASSUME NEW s \in Seq(Frame), Starts(s), NEW f \in Frame,
             f.kind = "do_poll" => f.pc = "walk"
      PROVE  Starts(Append(s, f))
  <2>1. Frames(Append(s, f)) = Frames(s) \cup {f}
    BY Push
  <2> QED BY <1>2, <2>1
<1>3. stack # <<>> => Starts(Callers) /\ Callers \in Seq(Frame)
  BY <1>0, Pop DEF PollsStart
<1>4. Starts(stack) /\ (Starts(stack') => PollsStart')
  BY DEF PollsStart
<1> HIDE DEF Starts
<1>5. CASE Quiet
  BY <1>1, <1>4, <1>5 DEF Quiet
<1>6. CASE PollClear
  <2>1. PICK f \in Frame : f.pc = "walk" /\ stack' = Append(Callers, f)
    BY <1>6, PollClearStack
  <2> QED BY <1>2, <1>3, <1>4, <1>6, <2>1, PollClearStack
<1>7. CASE PollWalk
  <2>1. stack # <<>>
    BY <1>7, PollWalkStack
  <2>2. CASE stack' = Callers
    BY <1>3, <1>4, <2>1, <2>2
  <2>3. CASE stack' # Callers
    <3>1. PICK f \in Frame : f.pc = "walk" /\ Calm(Append(Callers, f), stack')
      BY <1>7, <2>3, PollWalkStack
    <3>2. Starts(Append(Callers, f))
      BY <1>2, <1>3, <2>1, <3>1
    <3> QED BY <1>1, <1>4, <3>1, <3>2
  <2> QED BY <2>2, <2>3
<1>8. CASE BroadcastWalk
  <2>1. stack # <<>>
    BY <1>8, BroadcastWalkStack
  <2>2. CASE stack' = Callers
    BY <1>3, <1>4, <2>1, <2>2
  <2>3. CASE stack' # Callers
    <3>1. PICK f \in Frame : f.kind = "do_event" /\ Calm(Append(Callers, f), stack')
      BY <1>8, <2>3, BroadcastWalkStack
    <3>2. Starts(Append(Callers, f))
      BY <1>2, <1>3, <2>1, <3>1
    <3> QED BY <1>1, <1>4, <3>1, <3>2
  <2> QED BY <2>2, <2>3
<1>9. CASE BroadcastCall
  <2>1. stack # <<>>
    BY <1>9, BroadcastCallStack
  <2>2. PICK f \in Frame : f.kind = "do_event" /\ Calm(Append(Callers, f), stack')
    BY <1>9, BroadcastCallStack
  <2>3. Starts(Append(Callers, f))
    BY <1>2, <1>3, <2>1, <2>2
  <2> QED BY <1>1, <1>4, <2>2, <2>3
<1>10. CASE TakeBroadcast
  <2>1. PICK f \in Frame : f.kind = "do_event" /\ stack' = Append(<<>>, f)
    BY <1>10, BroadcastTaken
  <2>2. <<>> \in Seq(Frame)
    OBVIOUS
  <2> QED BY <1>0, <1>2, <1>4, <2>1, <2>2
<1>11. CASE \E p \in Proc : process_poll(p)
  BY <1>4, <1>11 DEF process_poll
<1> QED BY <1>5, <1>6, <1>7, <1>8, <1>9, <1>10, <1>11, QuietOrLoop

\* A poll that a do_poll() has still to answer is still to be answered after a step that
\* keeps the do_poll()'s it passes through.
LEMMA ComingKept ==
  ASSUME ListOK, ListOK', [Next]_vars, NEW p \in Listed, p \in Listed',
         NEW f \in Frames(stack), f \in Frame, f.kind = "do_poll",
         f.pc = "clear" \/ p \in Ahead(f.at), f \in Frames(stack')
  PROVE  Coming(p)'
<1>1. f.at \in Pointer
  BY FrameFields
<1>2. f.pc = "clear" \/ p \in Ahead(f.at)'
  BY <1>1, AheadKept
<1> QED BY <1>2 DEF Coming

LEMMA NoPollLostStep ==
  ASSUME ListOK, ListOK', PollsStart, NoPollLost, [Next]_vars
  PROVE  NoPollLost'
<1>0. TypeOK /\ stack \in Seq(Frame) /\ stack' \in Seq(Frame) /\ Frames(stack) \subseteq Frame
  BY FramesTyped DEF ListOK, TypeOK
<1> SUFFICES ASSUME NEW p \in owed' PROVE Owes(p)'
  <2>1. (NoPollLost <=> \A p \in owed : Owes(p))'
    BY NoPollLostMeans, PTL
  <2> QED BY <2>1
<1>1. p \in owed => /\ p \in Listed /\ p \in Listed' /\ needspoll[p]
                    /\ (poll_requested \/ Coming(p))
  BY NoPollLostMeans, LeaversDropped DEF Owes
<1>2. CASE Quiet
  <2>1. p \in owed /\ UNCHANGED <<needspoll, poll_requested>> /\ Calm(stack, stack')
    BY <1>2 DEF Quiet
  <2>2. CASE poll_requested
    BY <1>1, <2>1, <2>2 DEF Owes
  <2>3. CASE Coming(p)
    <3>1. PICK f \in Frames(stack) : f.kind = "do_poll" /\ (f.pc = "clear" \/ p \in Ahead(f.at))
      BY <2>3 DEF Coming
    <3>2. f \in Frames(stack')
      BY <2>1, <3>1 DEF Calm, Loop
    <3>3. Coming(p)'
      BY <1>0, <1>1, <2>1, <3>1, <3>2, ComingKept
    <3> QED BY <1>1, <2>1, <3>3 DEF Owes
  <2> QED BY <1>1, <2>1, <2>2, <2>3
<1>3. CASE PollClear
  <2>1. PICK f \in Frame : f.kind = "do_poll" /\ f.at = Top.at /\ stack' = Append(Callers, f)
    BY <1>0, <1>3, PollClearStack
  <2>2. p \in owed /\ needspoll' = needspoll
    BY <1>3 DEF PollClear
  <2>3. f.at = NULL
    BY <1>0, <1>3, <2>1, Pop, PollClearStack DEF PollsStart
  <2>4. f \in Frames(stack')
    BY <1>0, <1>3, <2>1, Push, PollClearStack
  <2>5. p \in Ahead(NULL)'
    BY <1>1, <2>2, ChainedNext DEF AllAhead
  <2>6. Coming(p)'
    BY <2>1, <2>3, <2>4, <2>5 DEF Coming
  <2> QED BY <1>1, <2>2, <2>6 DEF Owes
<1>4. CASE PollWalk
  <2>1. /\ stack # <<>> /\ Top.kind = "do_poll" /\ Top.pc = "walk" /\ Top.at \in Pointer
        /\ Callers \in Seq(Frame)
    BY <1>0, <1>4, PollWalkStack
  <2>2. /\ p \in owed
        /\ \/ needspoll' = needspoll
           \/ /\ needspoll[After(Top.at)] /\ p # After(Top.at)
              /\ needspoll' = [needspoll EXCEPT ![After(Top.at)] = FALSE]
        /\ After(Top.at) = p => p = NULL \/ ~needspoll[p]
        /\ poll_requested' = poll_requested
    BY <1>4 DEF PollWalk, RequestedAfterLoop
  <2>3. After(Top.at) # p /\ needspoll'[p]
    BY <1>0, <1>1, <2>2, PointerAssumption DEF TypeOK
  <2>4. CASE poll_requested
    BY <1>1, <2>2, <2>3, <2>4 DEF Owes
  <2>5. CASE Coming(p)
    <3>1. PICK f \in Frames(stack) : f.kind = "do_poll" /\ (f.pc = "clear" \/ p \in Ahead(f.at))
      BY <2>5 DEF Coming
    <3>2. Frames(stack) = Frames(Callers) \cup {Top}
      BY <1>0, <2>1, Pop
    <3>3. CASE f \in Frames(Callers)
      <4>1. f \in Frames(stack')
        <5>1. CASE stack' = Callers
          BY <3>3, <5>1
        <5>2. CASE stack' # Callers
          <6>1. PICK g \in Frame : Calm(Append(Callers, g), stack')
            BY <1>0, <1>4, <5>2, PollWalkStack
          <6>2. f \in Frames(Append(Callers, g))
            BY <2>1, <3>3, Push
          <6> QED BY <3>1, <6>1, <6>2 DEF Calm, Loop
        <5> QED BY <5>1, <5>2
      <4>2. Coming(p)'
        BY <1>0, <1>1, <2>2, <3>1, <4>1, ComingKept
      <4> QED BY <1>1, <2>2, <2>3, <4>2 DEF Owes
    <3>4. CASE f = Top
      <4>1. p \in Ahead(Top.at)
        BY <2>1, <3>1, <3>4
      <4>2. After(Top.at) \in Proc /\ p \in Ahead(After(Top.at))
        BY <2>1, <2>3, <4>1, WalkOn
      <4>3. PICK g \in Frame : /\ g.kind = "do_poll" /\ g.at = After(Top.at)
                               /\ Calm(Append(Callers, g), stack')
        BY <1>0, <1>4, <4>2, PollWalkStack, PointerAssumption
      <4>4. g \in Frames(stack')
        <5>1. g \in Frames(Append(Callers, g))
          BY <2>1, Push
        <5> QED BY <4>3, <5>1 DEF Calm, Loop
      <4>5. p \in Ahead(After(Top.at)) => p \in Ahead(g.at)'
        <5>1. g.at \in Pointer /\ p \in Ahead(g.at)
          BY <4>2, <4>3 DEF Pointer
        <5> QED BY <1>1, <2>2, <5>1, AheadKept
      <4>6. Coming(p)'
        BY <4>2, <4>3, <4>4, <4>5 DEF Coming
      <4> QED BY <1>1, <2>2, <2>3, <4>6 DEF Owes
    <3> QED BY <3>1, <3>2, <3>3, <3>4
  <2> QED BY <1>1, <2>2, <2>4, <2>5
<1>5. CASE BroadcastWalk \/ BroadcastCall
  <2>1. stack # <<>> /\ Top.kind = "do_event" /\ Callers \in Seq(Frame)
    BY <1>0, <1>5, BroadcastWalkStack, BroadcastCallStack
  <2>2. p \in owed /\ UNCHANGED <<needspoll, poll_requested>>
    BY <1>5 DEF BroadcastWalk, BroadcastCall, polls
  <2>3. CASE poll_requested
    BY <1>1, <2>2, <2>3 DEF Owes
  <2>4. CASE Coming(p)
    <3>1. PICK f \in Frames(stack) : f.kind = "do_poll" /\ (f.pc = "clear" \/ p \in Ahead(f.at))
      BY <2>4 DEF Coming
    <3>2. f \in Frames(Callers)
      BY <1>0, <2>1, <3>1, Pop
    <3>3. f \in Frames(stack')
      <4>1. CASE stack' = Callers
        BY <3>2, <4>1
      <4>2. CASE stack' # Callers
        <5>1. PICK g \in Frame : Calm(Append(Callers, g), stack')
          BY <1>0, <1>5, <4>2, BroadcastWalkStack, BroadcastCallStack
        <5>2. f \in Frames(Append(Callers, g))
          BY <2>1, <3>2, Push
        <5> QED BY <3>1, <5>1, <5>2 DEF Calm, Loop
      <4> QED BY <4>1, <4>2
    <3>4. Coming(p)'
      BY <1>0, <1>1, <2>2, <3>1, <3>3, ComingKept
    <3> QED BY <1>1, <2>2, <3>4 DEF Owes
  <2> QED BY <1>1, <2>2, <2>3, <2>4
<1>6. CASE TakeBroadcast
  <2>1. stack = <<>> /\ p \in owed /\ UNCHANGED <<needspoll, poll_requested>>
    BY <1>0, <1>6, BroadcastTaken DEF polls
  <2>2. ~Coming(p)
    BY <2>1 DEF Coming, Frames
  <2> QED BY <1>1, <2>1, <2>2 DEF Owes
<1>7. CASE \E q \in Proc : process_poll(q)
  <2>1. PICK q \in Proc : process_poll(q)
    BY <1>7
  <2>2. Listed' = Listed /\ poll_requested' /\ (p \in owed \/ (p = q /\ q \in Listed))
    BY <2>1 DEF process_poll, Listed
  <2>3. needspoll' = [needspoll EXCEPT ![q] = TRUE] /\ needspoll \in [Proc -> BOOLEAN] /\ p \in Proc
    BY <1>0, <2>1, <2>2 DEF process_poll, TypeOK
  <2>4. needspoll'[p]
    BY <1>1, <2>2, <2>3
  <2> QED BY <1>1, <2>2, <2>4 DEF Owes
<1> QED BY <1>0, <1>2, <1>3, <1>4, <1>5, <1>6, <1>7, QuietOrLoop

\* No poll request is lost, whatever the threads that do_poll() calls do to the list: until
\* the process is called with POLL or exits, poll_requested is set or a do_poll() that runs
\* has still to reach it.
THEOREM NoPollIsLost == Spec => []NoPollLost
<1>1. Init => PollsStart /\ NoPollLost
  BY DEF Init, PollsStart, NoPollLost, Frames
<1>2. PollsStart /\ TypeOK /\ [Next]_vars => PollsStart'
  BY PollsStartStep
<1>3. NoPollLost /\ ListOK /\ ListOK' /\ PollsStart /\ [Next]_vars => NoPollLost'
  BY NoPollLostStep
<1>4. TypeOK /\ ListedOnce => ListOK
  BY DEF ListOK
<1> QED BY <1>1, <1>2, <1>3, <1>4, TypeCorrect, NeverListedTwice, PTL DEF Spec
--------------------------------------------------------------------------------
(* Process states.                                                              *)

Has(s, kind, p) == \E f \in Frames(s) : f.kind = kind /\ f.p = p

\* Of the processes P, one that is CALLED has its thread on the stack s, and one of the
\* list l that does not run is inside exit_process().
Accounted(P, l, st, s) ==
  \A p \in P : /\ st[p] = "CALLED" => Has(s, "thread", p)
               /\ p \in l /\ st[p] = "NONE" => Has(s, "exit_process", p)

StatesAccounted == Accounted(Proc, Listed, state, stack)

LEMMA HasPush ==
  ASSUME NEW s \in Seq(Frame), NEW f \in Frame, NEW kind, NEW p
  PROVE  /\ Has(s, kind, p) => Has(Append(s, f), kind, p)
         /\ f.kind = kind /\ f.p = p => Has(Append(s, f), kind, p)
<1>1. Frames(Append(s, f)) = Frames(s) \cup {f}
  BY Push
<1> QED BY <1>1 DEF Has

LEMMA HasPop ==
  ASSUME stack \in Seq(Frame), stack # <<>>, NEW kind, NEW p, Has(stack, kind, p),
         ~(Top.kind = kind /\ Top.p = p)
  PROVE  Has(Callers, kind, p)
<1>1. Frames(stack) = Frames(Callers) \cup {Top}
  BY Pop
<1> QED BY <1>1 DEF Has

LEMMA AccountPush ==
  ASSUME NEW P, NEW l, NEW st, NEW s \in Seq(Frame), NEW f \in Frame, Accounted(P, l, st, s)
  PROVE  Accounted(P, l, st, Append(s, f))
  BY HasPush DEF Accounted

\* An activation that ends, of the thread or the exit of x or of something else.
LEMMA AccountPop ==
  ASSUME stack \in Seq(Frame), stack # <<>>, NEW l, NEW st, NEW P, Accounted(P, l, st, stack),
         \A p \in P : ~(Top.kind \in {"thread", "exit_process"} /\ Top.p = p)
  PROVE  Accounted(P, l, st, Callers)
<1> SUFFICES ASSUME NEW p \in P
             PROVE  /\ st[p] = "CALLED" => Has(Callers, "thread", p)
                    /\ p \in l /\ st[p] = "NONE" => Has(Callers, "exit_process", p)
  BY DEF Accounted
<1>1. Has(stack, "thread", p) => Has(Callers, "thread", p)
  BY HasPop
<1>2. Has(stack, "exit_process", p) => Has(Callers, "exit_process", p)
  BY HasPop
<1> QED BY <1>1, <1>2 DEF Accounted

LEMMA AccountReplace ==
  ASSUME stack \in Seq(Frame), stack # <<>>, StatesAccounted,
         NEW f \in Frame, f.kind = Top.kind,
         f.kind \in {"thread", "exit_process"} => f.p = Top.p
  PROVE  Append(Callers, f) \in Seq(Frame) /\ Accounted(Proc, Listed, state, Append(Callers, f))
<1>0. Callers \in Seq(Frame)
  BY Pop
<1> SUFFICES ASSUME NEW p \in Proc, NEW kind \in {"thread", "exit_process"}, Has(stack, kind, p)
             PROVE  Has(Append(Callers, f), kind, p)
  BY <1>0 DEF Accounted, StatesAccounted
<1>1. CASE Top.kind = kind /\ Top.p = p
  BY <1>0, <1>1, HasPush
<1>2. CASE ~(Top.kind = kind /\ Top.p = p)
  BY <1>0, <1>2, HasPop, HasPush
<1> QED BY <1>1, <1>2

LEMMA AccountCall ==
  ASSUME NEW st \in [Proc -> ProcessState], NEW l, NEW frames \in Seq(Frame),
         Accounted(Proc, l, st, frames), NEW p \in Proc, NEW ev \in Event,
         NEW back \in Pointer \cup {KEEP}, call_process(st, frames, p, ev, back)
  PROVE  Accounted(Proc, l, state', stack')
<1> DEFINE f == Thread("thread", p, ev, back)
<1>1. f \in Frame /\ f.kind = "thread" /\ f.p = p
  BY BoundAssumption DEF Thread, Frame, ThreadFrame
<1>2. \/ state' = st /\ stack' = frames
      \/ state' = [st EXCEPT ![p] = "CALLED"] /\ stack' = Append(frames, f)
  BY DEF call_process
<1> HIDE DEF f
<1>3. CASE state' = [st EXCEPT ![p] = "CALLED"] /\ stack' = Append(frames, f)
  <2>1. Accounted(Proc, l, st, stack') /\ Has(stack', "thread", p)
    BY <1>1, <1>3, AccountPush, HasPush
  <2>2. state'[p] = "CALLED" /\ \A q \in Proc \ {p} : state'[q] = st[q]
    BY <1>3
  <2> QED BY <2>1, <2>2 DEF Accounted
<1> QED BY <1>2, <1>3

\* A process that is made RUNNING needs no activation.
LEMMA AccountRunning ==
  ASSUME TypeOK, NEW l, NEW s, NEW p \in Proc, Accounted(Proc \ {p}, l, state, s)
  PROVE  /\ [state EXCEPT ![p] = "RUNNING"] \in [Proc -> ProcessState]
         /\ Accounted(Proc, l \cup {p}, [state EXCEPT ![p] = "RUNNING"], s)
<1> DEFINE st == [state EXCEPT ![p] = "RUNNING"]
<1>1. /\ st \in [Proc -> ProcessState] /\ st[p] = "RUNNING"
      /\ \A q \in Proc \ {p} : st[q] = state[q]
  BY DEF TypeOK, ProcessState
<1> HIDE DEF st
<1>2. Accounted(Proc, l \cup {p}, st, s)
  BY <1>1 DEF Accounted
<1> QED BY <1>1, <1>2 DEF st

LEMMA AccountFewer ==
  ASSUME NEW P, NEW Rest, NEW l, NEW k, NEW st, NEW s, Accounted(P, l, st, s),
         Rest \subseteq P, k \subseteq l
  PROVE  Accounted(Rest, k, st, s)
  BY DEF Accounted

LEMMA AccountStart ==
  ASSUME ListOK, ListOK', NEW frames \in Seq(Frame), NEW p \in Proc, process_start(frames, p),
         Accounted(Proc, Listed, state, frames)
  PROVE  StatesAccounted'
<1>1. CASE OnList(p)
  BY <1>1 DEF process_start, StatesAccounted, Accounted, Listed
<1>2. CASE ~OnList(p)
  <2> DEFINE st == [state EXCEPT ![p] = "RUNNING"]
  <2>1. /\ process_list' = <<p>> \o process_list /\ next' = next /\ p \notin Listed
        /\ call_process(st, frames, p, "INIT", process_current)
    BY <1>2 DEF process_start, OnList
  <2>2. Listed' = Listed \cup {p}
    BY <2>1, AfterStart
  <2>3. TypeOK /\ Accounted(Proc \ {p}, Listed, state, frames)
    BY AccountFewer DEF ListOK
  <2>4. st \in [Proc -> ProcessState] /\ Accounted(Proc, Listed \cup {p}, st, frames)
    BY <2>3, AccountRunning
  <2>5. process_current \in Pointer \cup {KEEP} /\ "INIT" \in Event
    BY <2>3 DEF TypeOK, Event
  <2> HIDE DEF st
  <2>6. Accounted(Proc, Listed \cup {p}, state', stack')
    BY <2>1, <2>4, <2>5, AccountCall
  <2> QED BY <2>2, <2>6 DEF StatesAccounted
<1> QED BY <1>1, <1>2

LEMMA AccountExit ==
  ASSUME TypeOK, NEW frames \in Seq(Frame), NEW p \in Proc, NEW from \in Pointer,
         NEW back \in Pointer, exit_process(frames, p, from, back),
         Accounted(Proc \ {p}, Listed, state, frames)
  PROVE  Accounted(Proc, Listed, state', stack')
<1> DEFINE f == [kind |-> "exit_process", p |-> p, from |-> from, at |-> NULL, back |-> back,
                 pc |-> IF state[p] = "NONE" THEN "unlink" ELSE "walk"]
<1>1. f \in Frame /\ f.kind = "exit_process" /\ f.p = p
  BY DEF Frame, ExitFrame, Pointer
<1>2. stack' = Append(frames, f) /\ state' = [state EXCEPT ![p] = "NONE"]
  BY DEF exit_process
<1> HIDE DEF f
<1>3. Accounted(Proc \ {p}, Listed, state, stack') /\ Has(stack', "exit_process", p)
  BY <1>1, <1>2, AccountPush, HasPush
<1>4. state'[p] = "NONE" /\ \A q \in Proc \ {p} : state'[q] = state[q]
  BY <1>2 DEF TypeOK
<1> QED BY <1>3, <1>4 DEF Accounted
LEMMA AccountCaller ==
  ASSUME TypeOK, StatesAccounted, NEW call, MayCall(call)
  PROVE  Caller \in Seq(Frame) /\ Accounted(Proc, Listed, state, Caller)
<1> DEFINE f == [Top EXCEPT !.calls = Top.calls + 1]
<1>1. stack \in Seq(Frame) /\ stack # <<>> /\ Top \in ThreadFrame
  BY CallerTyped DEF TypeOK
<1>2. f \in Frame /\ f.kind = Top.kind /\ f.p = Top.p
  BY <1>1, BoundAssumption DEF MayCall, Frame, ThreadFrame
<1>3. Caller = Append(Callers, f)
  BY DEF Caller
<1> HIDE DEF f
<1> QED BY <1>1, <1>2, <1>3, AccountReplace

\* A step that changes neither the list nor a state, and leaves a stack of which the same
\* can be said.
LEMMA AccountUnchanged ==
  ASSUME Accounted(Proc, Listed, state, stack'), UNCHANGED <<process_list, state>>
  PROVE  StatesAccounted'
<1>1. Listed' = Listed
  BY DEF Listed
<1> QED BY <1>1 DEF StatesAccounted

LEMMA MainAccounted ==
  ASSUME TypeOK, StatesAccounted, MainLoop
  PROVE  StatesAccounted'
<1>0. Accounted(Proc, Listed, state, stack) /\ StartPoll \in Frame /\ <<>> \in Seq(Frame)
      /\ <<StartPoll>> = Append(<<>>, StartPoll)
  BY DEF StatesAccounted, StartPoll, Frame, PollFrame, Pointer
<1>1. CASE BootDone \/ NoEvent \/ TakeZombie
  BY <1>0, <1>1, AccountUnchanged DEF BootDone, NoEvent, TakeZombie, Take
<1>2. CASE RunPoll
  <2>1. stack = <<>> /\ (stack' = <<>> \/ stack' = <<StartPoll>>) /\ UNCHANGED <<process_list, state>>
    BY <1>2 DEF RunPoll
  <2>2. Accounted(Proc, Listed, state, stack')
    BY <1>0, <2>1, AccountPush
  <2> QED BY <2>1, <2>2, AccountUnchanged
<1>3. CASE TakeBroadcast
  <2>1. PICK f \in Frame : stack' = Append(<<>>, f)
    BY <1>3, BroadcastTaken
  <2>2. stack = <<>> /\ UNCHANGED <<process_list, state>>
    BY <1>3, BroadcastTaken
  <2>3. Accounted(Proc, Listed, state, stack')
    BY <1>0, <2>1, <2>2, AccountPush
  <2> QED BY <2>2, <2>3, AccountUnchanged
<1>4. CASE TakeUnicast
  <2> DEFINE p == events[fevent].p
             running == [state EXCEPT ![p] = "RUNNING"]
             st == IF events[fevent].ev = "INIT" THEN running ELSE state
  <2>1. /\ stack = <<>> /\ process_list' = process_list /\ p \in Proc /\ events[fevent].ev \in Event
        /\ call_process(st, <<>>, p, events[fevent].ev, KEEP)
    BY <1>4, TakeTyped DEF TakeUnicast, Take, Slot
  <2> HIDE DEF p
  <2>2. Accounted(Proc \ {p}, Listed, state, stack)
    BY <1>0, AccountFewer
  <2>3. running \in [Proc -> ProcessState] /\ Accounted(Proc, Listed \cup {p}, running, stack)
    BY <2>1, <2>2, AccountRunning
  <2>4. st \in [Proc -> ProcessState] /\ Accounted(Proc, Listed, st, <<>>)
    BY <1>0, <2>1, <2>3, AccountFewer DEF TypeOK
  <2> HIDE DEF st
  <2>5. Accounted(Proc, Listed, state', stack')
    BY <1>0, <2>1, <2>4, AccountCall
  <2>6. Listed' = Listed
    BY <2>1 DEF Listed
  <2> QED BY <2>5, <2>6 DEF StatesAccounted
<1> QED BY <1>1, <1>2, <1>3, <1>4 DEF MainLoop

LEMMA LoopsAccounted ==
  ASSUME TypeOK, StatesAccounted, PollClear \/ PollWalk \/ BroadcastWalk \/ BroadcastCall
  PROVE  StatesAccounted'
<1>0. stack \in Seq(Frame) /\ Accounted(Proc, Listed, state, stack) /\ process_list' = process_list
  BY DEF TypeOK, StatesAccounted, PollClear, PollWalk, BroadcastWalk, BroadcastCall
<1>1. Listed' = Listed
  BY <1>0 DEF Listed
<1>2. /\ stack # <<>> /\ Top.kind \in Loop /\ Callers \in Seq(Frame)
  BY PollClearStack, PollWalkStack, BroadcastWalkStack, BroadcastCallStack DEF Loop
<1>3. Accounted(Proc, Listed, state, Callers)
  BY <1>0, <1>2, AccountPop DEF Loop
<1>4. ASSUME NEW f \in Frame
      PROVE  Append(Callers, f) \in Seq(Frame) /\ Accounted(Proc, Listed, state, Append(Callers, f))
  BY <1>2, <1>3, AccountPush
<1>5. CASE PollClear
  <2>1. PICK f \in Frame : stack' = Append(Callers, f)
    BY <1>5, PollClearStack
  <2> QED BY <1>0, <1>4, <1>5, <2>1, AccountUnchanged DEF PollClear
<1>6. CASE PollWalk
  <2>1. CASE stack' = Callers /\ After(Top.at) = NULL
    <3>1. state' = state
      BY <1>6, <2>1, PointerAssumption DEF PollWalk
    <3> QED BY <1>0, <1>3, <2>1, <3>1, AccountUnchanged
  <2>2. CASE ~(stack' = Callers /\ After(Top.at) = NULL)
    <3> DEFINE p == After(Top.at)
               running == [state EXCEPT ![p] = "RUNNING"]
    <3>1. PICK f \in Frame :
            /\ f.at = p /\ p \in Proc /\ Append(Callers, f) \in Seq(Frame)
            /\ \/ stack' = Append(Callers, f) /\ state' = state
               \/ call_process(running, Append(Callers, f), p, "POLL", KEEP)
      BY <1>6, <2>2, PollWalkStack
    <3> HIDE DEF p
    <3>2. running \in [Proc -> ProcessState]
          /\ Accounted(Proc, Listed \cup {p}, running, Append(Callers, f))
      <4>1. Accounted(Proc \ {p}, Listed, state, Append(Callers, f))
        BY <1>4, AccountFewer
      <4> QED BY <3>1, <4>1, AccountRunning
    <3>3. Accounted(Proc, Listed, running, Append(Callers, f))
      BY <3>2, AccountFewer
    <3> HIDE DEF running
    <3>4. CASE call_process(running, Append(Callers, f), p, "POLL", KEEP)
      <4>1. Accounted(Proc, Listed, state', stack')
        BY <3>1, <3>2, <3>3, <3>4, AccountCall DEF Event
      <4> QED BY <1>1, <4>1 DEF StatesAccounted
    <3> QED BY <1>0, <1>4, <3>1, <3>4, AccountUnchanged
  <2> QED BY <2>1, <2>2
<1>7. CASE BroadcastWalk
  <2>1. CASE stack' = Callers
    BY <1>0, <1>3, <1>7, <2>1, AccountUnchanged DEF BroadcastWalk
  <2>2. CASE stack' # Callers
    <3>1. PICK f \in Frame : \/ stack' = Append(Callers, f)
                             \/ stack' = Append(Append(Callers, f), StartPoll)
      BY <1>7, <2>2, BroadcastWalkStack
    <3>2. StartPoll \in Frame
      BY DEF StartPoll, Frame, PollFrame, Pointer
    <3>3. Accounted(Proc, Listed, state, stack')
      BY <1>4, <3>1, <3>2, AccountPush
    <3> QED BY <1>0, <1>7, <3>3, AccountUnchanged DEF BroadcastWalk
  <2> QED BY <2>1, <2>2
<1>8. CASE BroadcastCall
  <2>1. Top.at \in Proc /\ Top.ev \in Event
    BY <1>0, <1>2, <1>8, TopTyped, FrameFields, BroadcastCallStack
  <2>2. PICK f \in Frame : call_process(state, Append(Callers, f), Top.at, Top.ev, KEEP)
    BY <1>8, BroadcastCallStack
  <2>3. state \in [Proc -> ProcessState]
    BY DEF TypeOK
  <2>4. Accounted(Proc, Listed, state', stack')
    BY <1>4, <2>1, <2>2, <2>3, AccountCall
  <2> QED BY <1>1, <2>4 DEF StatesAccounted
<1> QED BY <1>5, <1>6, <1>7, <1>8
LEMMA ExitAccounted ==
  ASSUME ListOK, ListOK', StatesAccounted, ExitWalk \/ ExitUnlink
  PROVE  StatesAccounted'
<1>0. TypeOK /\ stack \in Seq(Frame) /\ Accounted(Proc, Listed, state, stack)
  BY DEF ListOK, TypeOK, StatesAccounted
<1>1. /\ stack # <<>> /\ Top \in ExitFrame /\ Top.kind = "exit_process" /\ Callers \in Seq(Frame)
      /\ Top.p \in Proc /\ Top.at \in Pointer /\ Top.back \in Pointer
  BY <1>0, TopTyped, FrameFields DEF ExitWalk, ExitUnlink, TopAt, TopIs
<1>2. CASE ExitUnlink
  <2>1. unlink(Top.p, Top.back) /\ stack' = Callers /\ state' = state
    BY <1>2 DEF ExitUnlink, unlink
  <2>2. Listed' = Listed \ {Top.p}
    BY <1>1, <2>1, AfterUnlink
  <2> SUFFICES ASSUME NEW p \in Proc
               PROVE  /\ state[p] = "CALLED" => Has(Callers, "thread", p)
                      /\ p \in Listed' /\ state[p] = "NONE" => Has(Callers, "exit_process", p)
    BY <2>1 DEF StatesAccounted, Accounted
  <2>3. /\ Has(stack, "thread", p) => Has(Callers, "thread", p)
        /\ p # Top.p /\ Has(stack, "exit_process", p) => Has(Callers, "exit_process", p)
    BY <1>0, <1>1, HasPop
  <2> QED BY <1>0, <2>2, <2>3 DEF Accounted
<1>3. CASE ExitWalk
  <2> DEFINE q == After(Top.at)
             looping == Append(Callers, [Top EXCEPT !.at = q])
             leaving == Append(Callers, [Top EXCEPT !.pc = "unlink"])
             t == Thread("exit_thread", Top.p, "EXIT", KEEP)
  <2>1. /\ q \in Pointer
        /\ [Top EXCEPT !.at = q] \in Frame /\ [Top EXCEPT !.at = q].kind = Top.kind
        /\ [Top EXCEPT !.at = q].p = Top.p
        /\ [Top EXCEPT !.pc = "unlink"] \in Frame /\ [Top EXCEPT !.pc = "unlink"].kind = Top.kind
        /\ [Top EXCEPT !.pc = "unlink"].p = Top.p
    BY <1>0, <1>1, AfterTyped DEF Frame, ExitFrame
  <2>2. /\ Accounted(Proc, Listed, state, looping) /\ looping \in Seq(Frame)
        /\ Accounted(Proc, Listed, state, leaving) /\ leaving \in Seq(Frame)
    BY <1>0, <1>1, <2>1, AccountReplace
  <2>3. t \in Frame
    BY <1>1, BoundAssumption DEF Thread, Frame, ThreadFrame, Event
  <2>4. process_list' = process_list
    BY <1>3 DEF ExitWalk
  <2>5. \/ state' = state /\ (stack' = Append(leaving, t) \/ stack' = leaving \/ stack' = looping)
        \/ q \in Proc /\ call_process(state, looping, q, "EXITED", KEEP)
    BY <1>3, <2>1 DEF ExitWalk, Pointer
  <2> HIDE DEF q, looping, leaving, t
  <2>6. Accounted(Proc, Listed, state, Append(leaving, t))
    BY <2>2, <2>3, AccountPush
  <2>7. CASE q \in Proc /\ call_process(state, looping, q, "EXITED", KEEP)
    <3>1. "EXITED" \in Event /\ KEEP \in Pointer \cup {KEEP} /\ state \in [Proc -> ProcessState]
      BY <1>0 DEF Event, TypeOK
    <3>2. Accounted(Proc, Listed, state', stack')
      BY <2>2, <2>7, <3>1, AccountCall
    <3>3. Listed' = Listed
      BY <2>4 DEF Listed
    <3> QED BY <3>2, <3>3 DEF StatesAccounted
  <2> QED BY <2>2, <2>4, <2>5, <2>6, <2>7, AccountUnchanged
<1> QED BY <1>2, <1>3

LEMMA ThreadAccounted ==
  ASSUME ListOK, ListOK', StatesAccounted, ThreadStep
  PROVE  StatesAccounted'
<1>0. /\ TypeOK /\ stack \in Seq(Frame) /\ process_current \in Pointer /\ Posted \subseteq Event
      /\ state \in [Proc -> ProcessState] /\ Accounted(Proc, Listed, state, stack)
  BY ProgramAssumption DEF ListOK, TypeOK, Event, StatesAccounted
<1>1. process_list' = process_list => Listed' = Listed
  BY DEF Listed
<1>2. CASE \E p \in Pointer, ev \in Posted : ThreadPost(p, ev)
  BY <1>0, <1>2, AccountCaller, AccountUnchanged DEF ThreadPost
<1>3. CASE \E p \in Proc, ev \in Posted : ThreadPostSynch(p, ev)
  <2>1. PICK p \in Proc, ev \in Posted : ThreadPostSynch(p, ev)
    BY <1>3
  <2>2. Caller \in Seq(Frame) /\ Accounted(Proc, Listed, state, Caller)
    BY <1>0, <2>1, AccountCaller DEF ThreadPostSynch
  <2>3. call_process(state, Caller, p, ev, process_current) /\ process_list' = process_list
    BY <2>1 DEF ThreadPostSynch
  <2>4. Accounted(Proc, Listed, state', stack')
    BY <1>0, <2>2, <2>3, AccountCall
  <2> QED BY <1>1, <2>3, <2>4 DEF StatesAccounted
<1>4. CASE \E p \in Proc : ThreadStart(p)
  <2>1. PICK p \in Proc : ThreadStart(p)
    BY <1>4
  <2>2. Caller \in Seq(Frame) /\ Accounted(Proc, Listed, state, Caller)
    BY <1>0, <2>1, AccountCaller DEF ThreadStart
  <2> QED BY <2>1, <2>2, AccountStart DEF ThreadStart
<1>5. CASE \E p \in Proc : ThreadExit(p)
  <2>1. PICK p \in Proc : ThreadExit(p)
    BY <1>5
  <2>2. Caller \in Seq(Frame) /\ Accounted(Proc, Listed, state, Caller)
    BY <1>0, <2>1, AccountCaller DEF ThreadExit
  <2>3. /\ exit_process(Caller, p, process_current, process_current)
        /\ process_list' = process_list
    BY <2>1 DEF ThreadExit
  <2>4. Accounted(Proc \ {p}, Listed, state, Caller)
    BY <2>2, AccountFewer
  <2>5. Accounted(Proc, Listed, state', stack')
    BY <1>0, <2>2, <2>3, <2>4, AccountExit
  <2> QED BY <1>1, <2>3, <2>5 DEF StatesAccounted
<1>6. CASE ThreadYields \/ ThreadEnds
  <2>1. /\ stack # <<>> /\ Top.kind = "thread" /\ Top.p \in Proc /\ Top.p \in Pointer
        /\ Callers \in Seq(Frame) /\ Restored(Top.back) \in Pointer
    BY <1>0, <1>6, TopTyped, FrameFields, RestoredTyped
       DEF ThreadYields, ThreadEnds, TopIs, ThreadKind, Pointer
  <2>2. Accounted(Proc \ {Top.p}, Listed, state, Callers)
    <3>1. Accounted(Proc \ {Top.p}, Listed, state, stack)
      BY <1>0, AccountFewer
    <3> QED BY <1>0, <2>1, <3>1, AccountPop
  <2>3. process_list' = process_list
    BY <1>6 DEF ThreadYields, ThreadEnds
  <2>4. CASE ThreadYields
    <3>1. state' = [state EXCEPT ![Top.p] = "RUNNING"] /\ stack' = Callers
      BY <2>4 DEF ThreadYields
    <3>2. Accounted(Proc, Listed \cup {Top.p}, state', stack')
      BY <1>0, <2>1, <2>2, <3>1, AccountRunning
    <3>3. Accounted(Proc, Listed, state', stack')
      BY <3>2, AccountFewer
    <3> QED BY <1>1, <2>3, <3>3 DEF StatesAccounted
  <2>5. CASE ThreadEnds
    <3>1. exit_process(Callers, Top.p, Top.p, Restored(Top.back))
      BY <2>5 DEF ThreadEnds
    <3>2. Accounted(Proc, Listed, state', stack')
      BY <1>0, <2>1, <2>2, <3>1, AccountExit
    <3> QED BY <1>1, <2>3, <3>2 DEF StatesAccounted
  <2> QED BY <1>6, <2>4, <2>5
<1>7. CASE ExitThreadReturns
  <2>1. Accounted(Proc, Listed, state, Callers)
    BY <1>0, <1>7, AccountPop DEF ExitThreadReturns, TopIs
  <2> QED BY <1>7, <2>1, AccountUnchanged DEF ExitThreadReturns
<1> QED BY <1>2, <1>3, <1>4, <1>5, <1>6, <1>7 DEF ThreadStep

LEMMA StatesAccountedStep ==
  ASSUME ListOK, ListOK', StatesAccounted, [Next]_vars
  PROVE  StatesAccounted'
<1>0. TypeOK /\ Accounted(Proc, Listed, state, stack) /\ stack \in Seq(Frame)
  BY DEF ListOK, StatesAccounted, TypeOK
<1>1. CASE \E p \in Proc : BootStart(p)
  BY <1>0, <1>1, AccountStart DEF BootStart
<1>2. CASE \E p \in Polled : process_poll(p)
  BY <1>0, <1>2, AccountUnchanged DEF process_poll
<1>3. CASE MainLoop
  BY <1>0, <1>3, MainAccounted
<1>4. CASE Walk
  BY <1>0, <1>4, LoopsAccounted, ExitAccounted DEF Walk
<1>5. CASE ThreadStep
  BY <1>5, ThreadAccounted
<1>6. CASE UNCHANGED vars
  BY <1>0, <1>6, AccountUnchanged DEF vars
<1> QED BY <1>1, <1>2, <1>3, <1>4, <1>5, <1>6 DEF Next
--------------------------------------------------------------------------------
(* Broadcasts.                                                                  *)

EventAtBottom == NoEventAbove(stack)

LEMMA EventAtBottomStep ==
  ASSUME TypeOK, EventAtBottom, [Next]_vars
  PROVE  EventAtBottom'
<1>0. stack \in Seq(Frame) /\ NoEventAbove(stack) /\ NoEventAbove(<<>>) /\ <<>> \in Seq(Frame)
  BY DEF TypeOK, EventAtBottom, NoEventAbove
<1>1. NoEventAbove(stack') => EventAtBottom'
  BY DEF EventAtBottom
<1>2. stack # <<>> => /\ NoEventAbove(Callers) /\ Callers \in Seq(Frame)
                      /\ (Callers = <<>> \/ Top.kind # "do_event")
  BY <1>0, Pop
<1>3. ASSUME stack # <<>>, NEW f \in Frame, f.kind = Top.kind
      PROVE  NoEventAbove(Append(Callers, f))
  BY <1>2, <1>3, Push
<1>4. CASE Quiet
  BY <1>0, <1>1, <1>4 DEF Quiet, Calm
<1>5. CASE PollClear
  BY <1>0, <1>1, <1>3, <1>5, PollClearStack
<1>6. CASE PollWalk \/ BroadcastWalk \/ BroadcastCall
  <2>1. stack # <<>>
    BY <1>6, PollWalkStack, BroadcastWalkStack, BroadcastCallStack
  <2>2. CASE stack' = Callers
    BY <1>1, <1>2, <2>1, <2>2
  <2>3. CASE stack' # Callers
    <3>1. PICK f \in Frame : f.kind = Top.kind /\ Calm(Append(Callers, f), stack')
      BY <1>6, <2>3, PollWalkStack, BroadcastWalkStack, BroadcastCallStack
    <3>2. NoEventAbove(Append(Callers, f))
      BY <1>3, <2>1, <3>1
    <3> QED BY <1>1, <3>1, <3>2 DEF Calm
  <2> QED BY <2>2, <2>3
<1>7. CASE TakeBroadcast
  <2>1. PICK f \in Frame : stack' = Append(<<>>, f)
    BY <1>7, BroadcastTaken
  <2>2. NoEventAbove(Append(<<>>, f))
    BY <1>0, Push
  <2> QED BY <1>1, <2>1, <2>2
<1>8. CASE \E p \in Proc : process_poll(p)
  BY <1>0, <1>1, <1>8 DEF process_poll
<1> QED BY <1>4, <1>5, <1>6, <1>7, <1>8, QuietOrLoop

\* The broadcast loop has p still to call.
Awaits(p) ==
  /\ p \in Listed
  /\ stack # <<>> /\ stack[1].kind = "do_event"
  /\ (stack[1].pc = "call" /\ stack[1].at = p) \/ p \in Ahead(stack[1].at)

LEMMA AwaitsMeans == BroadcastReachesAll <=> \A p \in awaited : Awaits(p)
  BY DEF BroadcastReachesAll, Awaits

\* A step that leaves the loop where it is.
LEMMA AwaitsKept ==
  ASSUME ListOK, ListOK', [Next]_vars, NEW p \in Proc, Awaits(p), p \in Listed',
         stack' # <<>>, stack'[1] = stack[1]
  PROVE  Awaits(p)'
<1>1. stack[1].at \in Pointer
  <2>1. stack[1] \in Frame
    BY EmptySeq, ElementOfSeq, LenProperties DEF ListOK, TypeOK, Awaits
  <2> QED BY <2>1, FrameFields DEF Awaits
<1>2. p \in Ahead(stack[1].at) => p \in Ahead(stack[1].at)'
  BY <1>1, AheadKept DEF Awaits
<1>3. stack'[1].at = stack[1].at /\ stack'[1].pc = stack[1].pc /\ stack'[1].kind = stack[1].kind
  OBVIOUS
<1> QED BY <1>2, <1>3 DEF Awaits

\* The activation of the broadcast loop is alone on the stack when it takes a step.
LEMMA BroadcastAlone ==
  ASSUME TypeOK, EventAtBottom, stack # <<>>, Top.kind = "do_event"
  PROVE  Callers = <<>> /\ stack[1] = Top /\ Frames(stack) = {Top}
<1>1. /\ stack \in Seq(Frame)
      /\ Callers = <<>> /\ Frames(stack) = Frames(Callers) \cup {Top} /\ stack[1] = Top
  BY Pop DEF TypeOK, EventAtBottom
<1>2. Frames(<<>>) = {}
  BY DEF Frames
<1> QED BY <1>1, <1>2

LEMMA BroadcastStep ==
  ASSUME ListOK, ListOK', EventAtBottom, StatesAccounted, BroadcastReachesAll, [Next]_vars
  PROVE  BroadcastReachesAll'
<1>0. TypeOK /\ stack \in Seq(Frame) /\ awaited \subseteq Proc /\ <<>> \in Seq(Frame)
  BY DEF ListOK, TypeOK
<1> SUFFICES ASSUME NEW p \in awaited' PROVE Awaits(p)'
  <2>1. (BroadcastReachesAll <=> \A p \in awaited : Awaits(p))'
    BY AwaitsMeans, PTL
  <2> QED BY <2>1
<1>1. p \in awaited => p \in Proc /\ Awaits(p) /\ p \in Listed /\ p \in Listed'
  BY <1>0, AwaitsMeans, LeaversDropped DEF Awaits
<1>2. CASE Quiet
  <2>1. p \in awaited /\ Calm(stack, stack')
    BY <1>2 DEF Quiet
  <2>2. stack' # <<>> /\ stack'[1] = stack[1]
    BY <1>1, <2>1 DEF Calm, Awaits
  <2> QED BY <1>1, <2>1, <2>2, AwaitsKept
<1>3. CASE PollClear \/ PollWalk
  <2>1. stack # <<>> /\ Top.kind = "do_poll" /\ Callers \in Seq(Frame) /\ p \in awaited
    BY <1>0, <1>3, PollClearStack, PollWalkStack DEF PollClear, PollWalk
  <2>2. Callers # <<>> /\ Callers[1] = stack[1] /\ Callers[1].kind = "do_event"
    BY <1>0, <1>1, <2>1, Pop DEF Awaits
  <2>3. stack' # <<>> /\ stack'[1] = Callers[1]
    <3>1. CASE stack' = Callers
      BY <2>2, <3>1
    <3>2. CASE stack' # Callers
      <4>1. PICK f \in Frame : Calm(Append(Callers, f), stack')
        BY <1>0, <1>3, <3>2, PollClearStack, PollWalkStack, CalmSame
      <4>2. Append(Callers, f) # <<>> /\ Append(Callers, f)[1] = Callers[1]
        BY <2>1, <2>2, Push
      <4> QED BY <2>2, <4>1, <4>2 DEF Calm
    <3> QED BY <3>1, <3>2
  <2> QED BY <1>1, <2>1, <2>2, <2>3, AwaitsKept
<1>4. CASE BroadcastWalk
  <2>1. /\ stack # <<>> /\ Top.kind = "do_event" /\ Top.pc = "walk" /\ Top.at \in Pointer
        /\ p \in awaited
    BY <1>0, <1>4, BroadcastWalkStack DEF BroadcastWalk
  <2>2. Callers = <<>> /\ stack[1] = Top
    BY <1>0, <2>1, BroadcastAlone
  <2>3. p \in Ahead(Top.at)
    BY <1>1, <2>1, <2>2 DEF Awaits
  <2>4. After(Top.at) \in Proc /\ (p = After(Top.at) \/ p \in Ahead(After(Top.at)))
    BY <2>1, <2>3, WalkOn
  <2>5. PICK f \in Frame : /\ f.kind = "do_event" /\ f.pc = "call" /\ f.at = After(Top.at)
                           /\ Calm(Append(Callers, f), stack')
    BY <1>0, <1>4, <2>4, BroadcastWalkStack, PointerAssumption
  <2>6. stack' # <<>> /\ stack'[1] = f
    <3>1. Append(Callers, f) # <<>> /\ Append(Callers, f)[1] = f
      BY <1>0, <2>2, Push
    <3> QED BY <2>5, <3>1 DEF Calm
  <2>7. p \in Ahead(f.at) => p \in Ahead(f.at)'
    <3>1. f.at \in Pointer
      BY <2>4, <2>5 DEF Pointer
    <3> QED BY <1>1, <2>1, <3>1, AheadKept
  <2>8. stack'[1].kind = "do_event" /\ stack'[1].pc = "call" /\ stack'[1].at = f.at
    BY <2>5, <2>6
  <2> QED BY <1>1, <2>1, <2>4, <2>5, <2>6, <2>7, <2>8 DEF Awaits
<1>5. CASE BroadcastCall
  <2>1. /\ stack # <<>> /\ Top.kind = "do_event" /\ Top.pc = "call" /\ Top.at \in Proc
    BY <1>0, <1>5, BroadcastCallStack
  <2>2. Callers = <<>> /\ stack[1] = Top /\ Frames(stack) = {Top}
    BY <1>0, <2>1, BroadcastAlone
  <2>3. p \in awaited /\ (Callable(state, Top.at) => p # Top.at)
    BY <1>5 DEF BroadcastCall
  <2>4. p # Top.at
    <3> SUFFICES ASSUME p = Top.at PROVE FALSE
      OBVIOUS
    <3>1. state[p] = "CALLED" \/ state[p] = "NONE"
      BY <1>0, <1>1, <2>3 DEF Callable, TypeOK, ProcessState
    <3>2. Has(stack, "thread", p) \/ Has(stack, "exit_process", p)
      BY <1>1, <2>3, <3>1 DEF StatesAccounted, Accounted
    <3> QED BY <2>1, <2>2, <3>2 DEF Has
  <2>5. p \in Ahead(Top.at)
    BY <1>1, <2>2, <2>3, <2>4 DEF Awaits
  <2>6. PICK f \in Frame : /\ f.kind = "do_event" /\ f.pc = "walk" /\ f.at = Top.at
                           /\ Calm(Append(Callers, f), stack')
    BY <1>0, <1>5, BroadcastCallStack
  <2>7. stack' # <<>> /\ stack'[1] = f
    <3>1. Append(Callers, f) # <<>> /\ Append(Callers, f)[1] = f
      BY <1>0, <2>2, Push
    <3> QED BY <2>6, <3>1 DEF Calm
  <2>8. p \in Ahead(f.at)'
    <3>1. f.at \in Pointer /\ p \in Ahead(f.at)
      BY <2>1, <2>5, <2>6 DEF Pointer
    <3> QED BY <1>1, <2>3, <3>1, AheadKept
  <2>9. stack'[1].kind = "do_event" /\ stack'[1].at = f.at
    BY <2>6, <2>7
  <2> QED BY <1>1, <2>3, <2>7, <2>8, <2>9 DEF Awaits
<1>6. CASE TakeBroadcast
  <2>1. awaited' = Listed /\ process_list' = process_list
    BY <1>0, <1>6, BroadcastTaken
  <2>2. p \in Listed' /\ p \in Ahead(NULL)'
    <3>1. p \in Listed'
      BY <2>1 DEF Listed
    <3> QED BY <3>1, ChainedNext DEF AllAhead
  <2>3. PICK f \in Frame : /\ f.kind = "do_event" /\ f.at = NULL /\ stack' = Append(<<>>, f)
    BY <1>0, <1>6, BroadcastTaken
  <2>4. stack' # <<>> /\ stack'[1] = f
    BY <1>0, <2>3, Push
  <2> QED BY <2>2, <2>3, <2>4 DEF Awaits
<1>7. CASE \E q \in Proc : process_poll(q)
  <2>1. p \in awaited /\ stack' = stack
    BY <1>7 DEF process_poll
  <2> QED BY <1>1, <2>1, AwaitsKept DEF Awaits
<1> QED BY <1>0, <1>2, <1>3, <1>4, <1>5, <1>6, <1>7, QuietOrLoop

\* A broadcast reaches every process that was listed when it was taken from the ring and
\* that does not exit, whatever the processes that it calls start, exit or post.
THEOREM BroadcastAlwaysReaches == Spec => []BroadcastReachesAll
<1>1. Init => EventAtBottom /\ StatesAccounted /\ BroadcastReachesAll
  <2> SUFFICES ASSUME Init PROVE EventAtBottom /\ StatesAccounted /\ BroadcastReachesAll
    OBVIOUS
  <2>1. stack = <<>> /\ Listed = {} /\ awaited = {} /\ \A p \in Proc : state[p] = "NONE"
    BY DEF Init, Listed
  <2>2. EventAtBottom
    BY <2>1 DEF EventAtBottom, NoEventAbove
  <2> QED BY <2>1, <2>2 DEF StatesAccounted, Accounted, BroadcastReachesAll
<1>2. EventAtBottom /\ TypeOK /\ [Next]_vars => EventAtBottom'
  BY EventAtBottomStep
<1>3. StatesAccounted /\ ListOK /\ ListOK' /\ [Next]_vars => StatesAccounted'
  BY StatesAccountedStep
<1>4. BroadcastReachesAll /\ ListOK /\ ListOK' /\ EventAtBottom /\ StatesAccounted /\ [Next]_vars
      => BroadcastReachesAll'
  BY BroadcastStep
<1>5. TypeOK /\ ListedOnce => ListOK
  BY DEF ListOK
<1> QED BY <1>1, <1>2, <1>3, <1>4, <1>5, TypeCorrect, NeverListedTwice, PTL DEF Spec

--------------------------------------------------------------------------------
(* The order of the activations on the stack.                                   *)

\* The activations of which a process that is not stray has at most one: of its thread,
\* run by call_process(), or of exit_process().
OwnerKind == {"thread", "exit_process"}

\* What may be called from the stack s, when the processes d are stray.  A thread that
\* exit_process() calls is that of the process that exits; do_poll() runs at the bottom, or
\* over do_event().
MayPush(s, f, d) ==
  /\ f.kind \in OwnerKind /\ f.p \notin d =>
       ~Has(s, "thread", f.p) /\ ~Has(s, "exit_process", f.p)
  /\ f.kind = "exit_thread" => s # <<>> /\ Last(s).kind = "exit_process" /\ Last(s).p = f.p
  /\ f.kind = "do_poll" => \A g \in Frames(s) : g.kind = "do_event"

Ordered(s, d) ==
  /\ \A i, j \in 1..Len(s) :
       /\ s[i].kind \in OwnerKind /\ s[j].kind \in OwnerKind
       /\ s[i].p = s[j].p /\ s[i].p \notin d
       => i = j
  /\ \A i \in 1..Len(s) :
       s[i].kind = "exit_thread" => i > 1 /\ s[i - 1].kind = "exit_process" /\ s[i - 1].p = s[i].p
  /\ \A i \in 1..Len(s) : s[i].kind = "do_poll" => \A j \in 1..(i - 1) : s[j].kind = "do_event"

LEMMA OrderedPush ==
  ASSUME NEW s \in Seq(Frame), NEW f \in Frame, NEW d, Ordered(s, d), MayPush(s, f, d)
  PROVE  Append(s, f) \in Seq(Frame) /\ Ordered(Append(s, f), d)
<1> DEFINE t == Append(s, f)
           n == Len(s)
<1>1. /\ t \in Seq(Frame) /\ n \in Nat /\ Len(t) = n + 1 /\ DOMAIN s = 1..n
      /\ \A i \in 1..n : t[i] = s[i]
      /\ t[n + 1] = f /\ (s # <<>> <=> n # 0) /\ Last(s) = s[n]
  BY EmptySeq, LenProperties DEF Last
<1>2. /\ \A i \in 1..n :
           s[i].kind \in OwnerKind /\ f.kind \in OwnerKind /\ f.p \notin d => s[i].p # f.p
      /\ f.kind = "do_poll" => \A j \in 1..n : s[j].kind = "do_event"
  BY <1>1 DEF MayPush, Has, Frames, OwnerKind
<1>3. f.kind = "exit_thread" => n # 0 /\ s[n].kind = "exit_process" /\ s[n].p = f.p
  BY <1>1 DEF MayPush
<1> HIDE DEF t, n
<1>4. ASSUME NEW i \in 1..(n + 1), NEW j \in 1..(n + 1),
             t[i].kind \in OwnerKind, t[j].kind \in OwnerKind, t[i].p = t[j].p, t[i].p \notin d
      PROVE  i = j
  <2>1. CASE i \in 1..n /\ j \in 1..n
    BY <1>1, <1>4, <2>1 DEF Ordered, n
  <2>2. CASE i = n + 1 /\ j \in 1..n
    BY <1>1, <1>2, <1>4, <2>2
  <2>3. CASE i \in 1..n /\ j = n + 1
    BY <1>1, <1>2, <1>4, <2>3
  <2> QED BY <1>1, <2>1, <2>2, <2>3
<1>5. ASSUME NEW i \in 1..(n + 1)
      PROVE  /\ t[i].kind = "exit_thread" =>
                  i > 1 /\ t[i - 1].kind = "exit_process" /\ t[i - 1].p = t[i].p
             /\ t[i].kind = "do_poll" => \A j \in 1..(i - 1) : t[j].kind = "do_event"
  <2>1. CASE i \in 1..n
    <3>1. t[i] = s[i] /\ \A j \in 1..(i - 1) : t[j] = s[j]
      BY <1>1, <2>1
    <3>2. i > 1 => t[i - 1] = s[i - 1]
      BY <1>1, <2>1, <3>1
    <3>3. i \in 1..Len(s)
      BY <2>1 DEF n
    <3>4. /\ s[i].kind = "exit_thread" => i > 1 /\ s[i - 1].kind = "exit_process" /\ s[i - 1].p = s[i].p
          /\ s[i].kind = "do_poll" => \A j \in 1..(i - 1) : s[j].kind = "do_event"
      BY <3>3 DEF Ordered
    <3> QED BY <3>1, <3>2, <3>4
  <2>2. CASE i = n + 1
    <3>1. t[i] = f /\ (i > 1 <=> n # 0) /\ i - 1 = n /\ (n # 0 => t[n] = s[n])
      BY <1>1, <2>2
    <3> QED BY <1>1, <1>2, <1>3, <3>1
  <2> QED BY <1>1, <2>1, <2>2
<1>6. Ordered(t, d)
  BY <1>1, <1>4, <1>5 DEF Ordered
<1> QED BY <1>1, <1>6 DEF t

LEMMA OrderedPop ==
  ASSUME stack \in Seq(Frame), stack # <<>>, NEW d, Ordered(stack, d)
  PROVE  Callers \in Seq(Frame) /\ Ordered(Callers, d) /\ MayPush(Callers, Top, d)
<1> DEFINE n == Len(stack)
<1>1. /\ n \in Nat \ {0} /\ Callers \in Seq(Frame) /\ Len(Callers) = n - 1
      /\ \A i \in 1..(n - 1) : Callers[i] = stack[i]
      /\ DOMAIN Callers = 1..(n - 1) /\ Top = stack[n]
      /\ (Callers # <<>> <=> n # 1) /\ Last(Callers) = Callers[n - 1]
  <2>1. /\ n \in Nat \ {0} /\ Callers \in Seq(Frame) /\ Len(Callers) = n - 1
        /\ \A i \in 1..(n - 1) : Callers[i] = stack[i]
        /\ Top = stack[n]
    BY WithoutLast DEF Callers, Top
  <2> HIDE DEF n
  <2>2. DOMAIN Callers = 1..(n - 1) /\ (Callers # <<>> <=> n - 1 # 0)
    BY <2>1, EmptySeq, LenProperties
  <2> QED BY <2>1, <2>2 DEF Last
<1> HIDE DEF n
<1>2. Ordered(Callers, d)
  <2>1. ASSUME NEW i \in 1..(n - 1), NEW j \in 1..(n - 1),
               Callers[i].kind \in OwnerKind, Callers[j].kind \in OwnerKind,
               Callers[i].p = Callers[j].p, Callers[i].p \notin d
        PROVE  i = j
    <3>1. i \in 1..n /\ j \in 1..n /\ Callers[i] = stack[i] /\ Callers[j] = stack[j]
      BY <1>1
    <3>2. /\ stack[i].kind \in OwnerKind /\ stack[j].kind \in OwnerKind
          /\ stack[i].p = stack[j].p /\ stack[i].p \notin d
      BY <2>1, <3>1
    <3> QED BY <3>1, <3>2 DEF Ordered, n
  <2>2. ASSUME NEW i \in 1..(n - 1)
        PROVE  /\ Callers[i].kind = "exit_thread" =>
                    i > 1 /\ Callers[i - 1].kind = "exit_process" /\ Callers[i - 1].p = Callers[i].p
               /\ Callers[i].kind = "do_poll" => \A j \in 1..(i - 1) : Callers[j].kind = "do_event"
    <3>1. /\ i \in 1..n /\ Callers[i] = stack[i] /\ (i > 1 => Callers[i - 1] = stack[i - 1])
          /\ \A j \in 1..(i - 1) : Callers[j] = stack[j]
      BY <1>1
    <3> QED BY <3>1 DEF Ordered, n
  <2> QED BY <1>1, <2>1, <2>2 DEF Ordered
<1>3. \A i \in 1..(n - 1) :
        Callers[i].kind \in OwnerKind /\ Top.kind \in OwnerKind /\ Top.p \notin d =>
          Callers[i].p # Top.p
  <2>1. ASSUME NEW i \in 1..(n - 1) PROVE i \in 1..n /\ n \in 1..n /\ i # n
    BY <1>1
  <2> QED BY <1>1, <2>1 DEF Ordered, n
<1>4. n # 1 => Callers[n - 1] = stack[n - 1]
  BY <1>1
<1>5. /\ Top.kind = "exit_thread" =>
           n # 1 /\ Callers[n - 1].kind = "exit_process" /\ Callers[n - 1].p = Top.p
      /\ Top.kind = "do_poll" => \A i \in 1..(n - 1) : Callers[i].kind = "do_event"
  BY <1>1, <1>4 DEF Ordered, n
<1>6. Frames(Callers) = {Callers[i] : i \in 1..(n - 1)}
  BY <1>1 DEF Frames
<1>7. MayPush(Callers, Top, d)
  BY <1>1, <1>3, <1>5, <1>6 DEF MayPush, Has, OwnerKind
<1> QED BY <1>1, <1>2, <1>7

LEMMA LastAppended ==
  ASSUME NEW s \in Seq(Frame), NEW f \in Frame
  PROVE  Append(s, f) # <<>> /\ Last(Append(s, f)) = f
<1>1. Append(s, f) \in Seq(Frame) /\ Len(Append(s, f)) = Len(s) + 1 /\ Len(s) \in Nat
  BY LenProperties
<1> QED BY <1>1, EmptySeq DEF Last

\* NotReentered follows from the order.
LEMMA OrderedOnce == ASSUME TypeOK, Ordered(stack, stray) PROVE NotReentered
<1>1. DOMAIN stack = 1..Len(stack) /\ Len(stack) \in Nat
  BY LenProperties DEF TypeOK
<1> SUFFICES ASSUME NEW i \in 1..Len(stack), NEW j \in 1..Len(stack),
                    stack[i].kind \in ThreadKind, stack[j].kind \in ThreadKind,
                    stack[i].p = stack[j].p, stack[i].p \notin stray
             PROVE  i = j
  BY <1>1 DEF NotReentered
<1>2. ASSUME NEW k \in 1..Len(stack), stack[k].kind = "exit_thread"
      PROVE  /\ k - 1 \in 1..Len(stack) /\ stack[k - 1].kind = "exit_process"
             /\ stack[k - 1].p = stack[k].p
  BY <1>1, <1>2 DEF Ordered
<1>3. CASE stack[i].kind = "thread" /\ stack[j].kind = "thread"
  BY <1>3 DEF Ordered, OwnerKind
<1>4. CASE stack[i].kind = "exit_thread" /\ stack[j].kind = "exit_thread"
  <2>1. i - 1 = j - 1
    BY <1>2, <1>4 DEF Ordered, OwnerKind
  <2> QED BY <1>1, <2>1
<1>5. CASE stack[i].kind = "thread" /\ stack[j].kind = "exit_thread"
  <2>1. i = j - 1
    BY <1>2, <1>5 DEF Ordered, OwnerKind
  <2> QED BY <1>2, <1>5, <2>1
<1>6. CASE stack[i].kind = "exit_thread" /\ stack[j].kind = "thread"
  <2>1. i - 1 = j
    BY <1>2, <1>6 DEF Ordered, OwnerKind
  <2> QED BY <1>2, <1>6, <2>1
<1> QED BY <1>3, <1>4, <1>5, <1>6 DEF ThreadKind
--------------------------------------------------------------------------------
(* What holds of the stack s when the process states are st, l is listed and d  *)
(* is stray.                                                                    *)

Sound(s, st, l, d) ==
  /\ Ordered(s, d)
  /\ \A p \in Proc \ d : /\ Has(s, "thread", p) => st[p] = "CALLED"
                         /\ Has(s, "exit_process", p) => st[p] = "NONE" /\ p \in l
                         /\ st[p] # "NONE" => p \in l

Disciplines == Sound(stack, state, Listed, stray)

\* An activation of process p has been added to the stack, or one of no process.
LEMMA HasPushed ==
  ASSUME NEW s \in Seq(Frame), NEW f \in Frame, NEW kind, NEW p, Has(Append(s, f), kind, p)
  PROVE  Has(s, kind, p) \/ (f.kind = kind /\ f.p = p)
<1>1. Frames(Append(s, f)) = Frames(s) \cup {f}
  BY Push
<1> QED BY <1>1 DEF Has

\* More processes are listed, or stray.
LEMMA SoundMore ==
  ASSUME NEW s, NEW st, NEW l, NEW d, Sound(s, st, l, d),
         NEW k, l \subseteq k, NEW e, d \subseteq e
  PROVE  Sound(s, st, k, e)
<1>1. Ordered(s, e)
  BY DEF Sound, Ordered
<1> QED BY <1>1 DEF Sound

LEMMA SoundPushOther ==
  ASSUME NEW s \in Seq(Frame), NEW f \in Frame, NEW st, NEW l, NEW d, Sound(s, st, l, d),
         MayPush(s, f, d), f.kind \notin OwnerKind
  PROVE  Append(s, f) \in Seq(Frame) /\ Sound(Append(s, f), st, l, d)
<1>1. Append(s, f) \in Seq(Frame) /\ Ordered(Append(s, f), d)
  BY OrderedPush DEF Sound
<1>2. \A kind \in OwnerKind : \A p : Has(Append(s, f), kind, p) => Has(s, kind, p)
  BY HasPushed
<1> QED BY <1>1, <1>2 DEF Sound, OwnerKind

LEMMA SoundPop ==
  ASSUME stack \in Seq(Frame), stack # <<>>, NEW st, NEW l, NEW d, Sound(stack, st, l, d)
  PROVE  /\ Callers \in Seq(Frame) /\ MayPush(Callers, Top, d)
         /\ Sound(Callers, st, l, d)
<1>1. Callers \in Seq(Frame) /\ Ordered(Callers, d) /\ MayPush(Callers, Top, d)
  BY OrderedPop DEF Sound
<1>2. ASSUME NEW kind, NEW p, Has(Callers, kind, p) PROVE Has(stack, kind, p)
  BY <1>2, Pop DEF Has
<1> QED BY <1>1, <1>2 DEF Sound

\* An activation that takes a step stays what it is.
LEMMA SoundReplace ==
  ASSUME stack \in Seq(Frame), stack # <<>>, NEW st, NEW l, NEW d, Sound(stack, st, l, d),
         NEW f \in Frame, f.kind = Top.kind,
         f.kind \in OwnerKind \cup {"exit_thread"} => f.p = Top.p
  PROVE  /\ Append(Callers, f) \in Seq(Frame) /\ Sound(Append(Callers, f), st, l, d)
         /\ \A kind \in OwnerKind : \A p : Has(Append(Callers, f), kind, p) => Has(stack, kind, p)
<1>1. Callers \in Seq(Frame) /\ MayPush(Callers, Top, d) /\ Sound(Callers, st, l, d)
  BY SoundPop
<1>2. MayPush(Callers, f, d)
  BY <1>1 DEF MayPush
<1>3. Append(Callers, f) \in Seq(Frame) /\ Ordered(Append(Callers, f), d)
  BY <1>1, <1>2, OrderedPush DEF Sound
<1>4. ASSUME NEW kind \in OwnerKind, NEW p, Has(Append(Callers, f), kind, p)
      PROVE  Has(stack, kind, p)
  <2>1. Has(Callers, kind, p) \/ (f.kind = kind /\ f.p = p)
    BY <1>1, <1>4, HasPushed
  <2>2. Frames(stack) = Frames(Callers) \cup {Top}
    BY Pop
  <2> QED BY <2>1, <2>2 DEF Has
<1> QED BY <1>3, <1>4 DEF Sound, OwnerKind

\* call_process() calls a process that has no activation of its own, unless it is stray.
LEMMA SoundCall ==
  ASSUME NEW st \in [Proc -> ProcessState], NEW l, NEW d, NEW frames \in Seq(Frame),
         Sound(frames, st, l, d), NEW p \in Proc, NEW ev \in Event,
         NEW back \in Pointer \cup {KEEP}, call_process(st, frames, p, ev, back)
  PROVE  Sound(stack', state', l, d)
<1> DEFINE f == Thread("thread", p, ev, back)
<1>1. f \in Frame /\ f.kind = "thread" /\ f.p = p
  BY BoundAssumption DEF Thread, Frame, ThreadFrame
<1>2. \/ state' = st /\ stack' = frames
      \/ st[p] = "RUNNING" /\ state' = [st EXCEPT ![p] = "CALLED"] /\ stack' = Append(frames, f)
  BY DEF call_process, Callable
<1> HIDE DEF f
<1>3. CASE st[p] = "RUNNING" /\ state' = [st EXCEPT ![p] = "CALLED"] /\ stack' = Append(frames, f)
  <2>1. p \notin d => ~Has(frames, "thread", p) /\ ~Has(frames, "exit_process", p) /\ p \in l
    BY <1>3 DEF Sound
  <2>2. MayPush(frames, f, d)
    BY <1>1, <2>1 DEF MayPush, OwnerKind
  <2>3. Ordered(stack', d)
    BY <1>1, <1>3, <2>2, OrderedPush DEF Sound
  <2>4. state'[p] = "CALLED" /\ \A q \in Proc \ {p} : state'[q] = st[q]
    BY <1>3
  <2>5. \A q \in Proc : /\ Has(stack', "thread", q) => Has(frames, "thread", q) \/ q = p
                        /\ Has(stack', "exit_process", q) => Has(frames, "exit_process", q)
    BY <1>1, <1>3, HasPushed
  <2> QED BY <2>1, <2>3, <2>4, <2>5 DEF Sound
<1> QED BY <1>2, <1>3

\* A process without an activation is made RUNNING, or one that is stray.
LEMMA SoundRunning ==
  ASSUME TypeOK, NEW l, NEW d, NEW s, NEW p \in Proc, Sound(s, state, l, d),
         p \in d \/ (p \in l /\ ~Has(s, "thread", p) /\ ~Has(s, "exit_process", p))
  PROVE  /\ [state EXCEPT ![p] = "RUNNING"] \in [Proc -> ProcessState]
         /\ Sound(s, [state EXCEPT ![p] = "RUNNING"], l, d)
<1> DEFINE st == [state EXCEPT ![p] = "RUNNING"]
<1>1. /\ st \in [Proc -> ProcessState] /\ st[p] = "RUNNING"
      /\ \A q \in Proc \ {p} : st[q] = state[q]
  BY DEF TypeOK, ProcessState
<1> HIDE DEF st
<1>2. Sound(s, st, l, d)
  BY <1>1 DEF Sound
<1> QED BY <1>1, <1>2 DEF st

\* process_start() starts a process that has no activation of its own, unless it is stray.
LEMMA SoundStart ==
  ASSUME ListOK, ListOK', NEW frames \in Seq(Frame), NEW p \in Proc, process_start(frames, p),
         Sound(frames, state, Listed, stray)
  PROVE  Sound(stack', state', Listed', stray)
<1>1. CASE OnList(p)
  BY <1>1 DEF process_start, Listed
<1>2. CASE ~OnList(p)
  <2> DEFINE st == [state EXCEPT ![p] = "RUNNING"]
  <2>1. /\ process_list' = <<p>> \o process_list /\ next' = next /\ p \notin Listed
        /\ call_process(st, frames, p, "INIT", process_current)
    BY <1>2 DEF process_start, OnList
  <2>2. Listed' = Listed \cup {p}
    BY <2>1, AfterStart
  <2>3. p \notin stray => ~Has(frames, "thread", p) /\ ~Has(frames, "exit_process", p)
    BY <2>1 DEF Sound
  <2>4. TypeOK /\ Sound(frames, state, Listed \cup {p}, stray)
    BY SoundMore DEF ListOK
  <2>5. st \in [Proc -> ProcessState] /\ Sound(frames, st, Listed \cup {p}, stray)
    BY <2>3, <2>4, SoundRunning
  <2>6. process_current \in Pointer \cup {KEEP} /\ "INIT" \in Event
    BY <2>4 DEF TypeOK, Event
  <2> HIDE DEF st
  <2>7. Sound(stack', state', Listed \cup {p}, stray)
    BY <2>1, <2>5, <2>6, SoundCall
  <2> QED BY <2>2, <2>7
<1> QED BY <1>1, <1>2

\* exit_process() begins for a listed process that has no activation of its own, or for one
\* that is stray.
LEMMA SoundExit ==
  ASSUME TypeOK, NEW l, NEW d, NEW frames \in Seq(Frame), NEW p \in Proc, NEW from \in Pointer,
         NEW back \in Pointer, exit_process(frames, p, from, back), Sound(frames, state, l, d),
         p \in d \/ (p \in l /\ ~Has(frames, "thread", p) /\ ~Has(frames, "exit_process", p))
  PROVE  Sound(stack', state', l, d)
<1> DEFINE f == [kind |-> "exit_process", p |-> p, from |-> from, at |-> NULL, back |-> back,
                 pc |-> IF state[p] = "NONE" THEN "unlink" ELSE "walk"]
<1>1. f \in Frame /\ f.kind = "exit_process" /\ f.p = p
  BY DEF Frame, ExitFrame, Pointer
<1>2. stack' = Append(frames, f) /\ state' = [state EXCEPT ![p] = "NONE"]
  BY DEF exit_process
<1> HIDE DEF f
<1>3. Ordered(stack', d)
  <2>1. MayPush(frames, f, d)
    BY <1>1 DEF MayPush, OwnerKind
  <2> QED BY <1>1, <1>2, <2>1, OrderedPush DEF Sound
<1>4. state'[p] = "NONE" /\ \A q \in Proc \ {p} : state'[q] = state[q]
  BY <1>2 DEF TypeOK
<1>5. \A q \in Proc : /\ Has(stack', "thread", q) => Has(frames, "thread", q)
                      /\ Has(stack', "exit_process", q) => Has(frames, "exit_process", q) \/ q = p
  BY <1>1, <1>2, HasPushed
<1> QED BY <1>3, <1>4, <1>5 DEF Sound
--------------------------------------------------------------------------------
(* The steps.                                                                   *)

LEMMA DisciplinesNext ==
  ASSUME Sound(stack', state', Listed', stray') PROVE Disciplines'
  BY DEF Disciplines, Sound, Ordered, Has, Frames

LEMMA ListSame == process_list' = process_list => Listed' = Listed
  BY DEF Listed

\* Steps that leave the list, the states and the stack alone.
LEMMA DisciplinesSame ==
  ASSUME Disciplines, UNCHANGED <<process_list, state, stack, stray>>
  PROVE  Disciplines'
<1>1. Sound(stack', state', Listed', stray')
  BY ListSame DEF Disciplines
<1> QED BY <1>1, DisciplinesNext

\* What a process that is made RUNNING off the list becomes.
LEMMA RevivedFacts ==
  ASSUME NEW p, stray' = Revived(p)
  PROVE  stray \subseteq stray' /\ (p \in stray' \/ p \in Listed)
  BY DEF Revived

LEMMA EmptyStack ==
  /\ <<>> \in Seq(Frame) /\ Frames(<<>>) = {}
  /\ \A kind, p : ~Has(<<>>, kind, p)
  /\ \A d : \A f \in Frame : f.kind \in {"thread", "do_event", "do_poll"} => MayPush(<<>>, f, d)
<1>1. Frames(<<>>) = {}
  BY DEF Frames
<1> QED BY <1>1 DEF MayPush, Has

LEMMA MainDisciplined ==
  ASSUME ListOK, ListOK', Disciplines, MainLoop
  PROVE  Disciplines'
<1>0. TypeOK /\ Sound(stack, state, Listed, stray)
  BY DEF Disciplines, ListOK
<1>1. CASE BootDone \/ NoEvent \/ TakeZombie
  BY <1>1, DisciplinesSame DEF BootDone, NoEvent, TakeZombie, Take
<1>2. CASE RunPoll
  <2>1. stack = <<>> /\ UNCHANGED <<process_list, state, stray>>
        /\ (stack' = stack \/ stack' = Append(<<>>, StartPoll))
    BY <1>2 DEF RunPoll
  <2>2. CASE stack' = Append(<<>>, StartPoll)
    <3>1. StartPoll \in Frame /\ StartPoll.kind = "do_poll"
      BY DEF StartPoll, Frame, PollFrame, Pointer
    <3>2. Sound(stack', state', Listed', stray')
      BY <1>0, <2>1, <2>2, <3>1, EmptyStack, ListSame, SoundPushOther DEF OwnerKind
    <3> QED BY <3>2, DisciplinesNext
  <2> QED BY <2>1, <2>2, DisciplinesSame
<1>3. CASE TakeBroadcast
  <2>1. PICK f \in Frame : f.kind = "do_event" /\ stack' = Append(<<>>, f)
    BY <1>0, <1>3, BroadcastTaken
  <2>2. stack = <<>> /\ UNCHANGED <<process_list, state, stray>>
    BY <1>0, <1>3, BroadcastTaken DEF TakeBroadcast
  <2>3. Sound(stack', state', Listed', stray')
    BY <1>0, <2>1, <2>2, EmptyStack, ListSame, SoundPushOther DEF OwnerKind
  <2> QED BY <2>3, DisciplinesNext
<1>4. CASE TakeUnicast
  <2> DEFINE p == events[fevent].p
             ev == events[fevent].ev
             running == [state EXCEPT ![p] = "RUNNING"]
             st == IF ev = "INIT" THEN running ELSE state
  <2>1. /\ stack = <<>> /\ process_list' = process_list /\ p \in Proc /\ ev \in Event
        /\ call_process(st, <<>>, p, ev, KEEP)
        /\ stray' = IF ev = "INIT" THEN Revived(p) ELSE stray
    BY <1>0, <1>4, TakeTyped DEF TakeUnicast, Take, Slot
  <2> HIDE DEF p, ev
  <2>2. stray \subseteq stray' /\ (ev = "INIT" => p \in stray' \/ p \in Listed)
    BY <2>1, RevivedFacts
  <2>3. <<>> \in Seq(Frame) /\ Sound(<<>>, state, Listed, stray')
    BY <1>0, <2>1, <2>2, EmptyStack, SoundMore
  <2>4. st \in [Proc -> ProcessState] /\ Sound(<<>>, st, Listed, stray')
    <3>1. CASE ev = "INIT"
      BY <1>0, <2>1, <2>2, <2>3, <3>1, EmptyStack, SoundRunning
    <3>2. CASE ev # "INIT"
      BY <1>0, <2>3, <3>2 DEF TypeOK
    <3> QED BY <3>1, <3>2
  <2> HIDE DEF st
  <2>5. Sound(stack', state', Listed, stray')
    <3>1. KEEP \in Pointer \cup {KEEP}
      OBVIOUS
    <3> QED BY <2>1, <2>3, <2>4, <3>1, SoundCall
  <2> QED BY <2>1, <2>5, ListSame, DisciplinesNext
<1> QED BY <1>1, <1>2, <1>3, <1>4 DEF MainLoop

LEMMA PollsDisciplined ==
  ASSUME ListOK, ListOK', Disciplines, PollClear \/ PollWalk
  PROVE  Disciplines'
<1>0. /\ TypeOK /\ Sound(stack, state, Listed, stray) /\ stack \in Seq(Frame)
      /\ process_list' = process_list /\ Listed' = Listed
  BY ListSame DEF Disciplines, ListOK, TypeOK, PollClear, PollWalk
<1>1. stack # <<>> /\ Top.kind = "do_poll" /\ Top.at \in Pointer
  BY <1>0, PollClearStack, PollWalkStack
<1>2. /\ Callers \in Seq(Frame) /\ MayPush(Callers, Top, stray)
      /\ Sound(Callers, state, Listed, stray)
      /\ \A g \in Frames(Callers) : g.kind = "do_event"
  BY <1>0, <1>1, SoundPop DEF MayPush
<1>3. ASSUME NEW f \in Frame, f.kind = "do_poll"
      PROVE  Append(Callers, f) \in Seq(Frame) /\ Sound(Append(Callers, f), state, Listed, stray)
  BY <1>0, <1>1, <1>3, SoundReplace DEF OwnerKind
<1>4. CASE PollClear
  <2>1. PICK f \in Frame : f.kind = "do_poll" /\ stack' = Append(Callers, f)
    BY <1>0, <1>4, PollClearStack
  <2>2. state' = state /\ stray' = stray
    BY <1>4 DEF PollClear
  <2>3. Sound(stack', state', Listed', stray')
    BY <1>0, <1>3, <2>1, <2>2
  <2> QED BY <2>3, DisciplinesNext
<1>5. CASE PollWalk
  <2>1. CASE stack' = Callers /\ After(Top.at) = NULL
    <3>1. state' = state /\ stray' = stray
      BY <1>5, <2>1, PointerAssumption DEF PollWalk
    <3> QED BY <1>0, <1>2, <2>1, <3>1, DisciplinesNext
  <2>2. CASE ~(stack' = Callers /\ After(Top.at) = NULL)
    <3> DEFINE p == After(Top.at)
               running == [state EXCEPT ![p] = "RUNNING"]
    <3>1. p \in Proc
      BY <1>0, <1>5, <2>2, PollWalkStack
    <3>2. PICK g : g = [Top EXCEPT !.at = p]
      OBVIOUS
    <3>3. g \in Frame /\ g.kind = "do_poll"
      <4>1. Top \in PollFrame
        BY <1>0, <1>1, TopTyped, FrameFields
      <4> HIDE DEF p
      <4> QED BY <3>1, <3>2, <4>1 DEF Frame, PollFrame, Pointer
    <3>4. PICK frames : frames = Append(Callers, g)
      OBVIOUS
    <3>5. \/ stack' = frames /\ state' = state /\ stray' = stray
          \/ call_process(running, frames, p, "POLL", KEEP) /\ stray' = Revived(p)
      BY <1>5, <2>2, <3>1, <3>2, <3>4, PointerAssumption DEF PollWalk
    <3> HIDE DEF p
    <3>6. frames \in Seq(Frame) /\ Sound(frames, state, Listed, stray)
      BY <1>3, <3>3, <3>4
    <3>7. CASE stack' = frames /\ state' = state /\ stray' = stray
      BY <1>0, <3>6, <3>7, DisciplinesNext
    <3>8. CASE call_process(running, frames, p, "POLL", KEEP) /\ stray' = Revived(p)
      <4>1. stray \subseteq stray' /\ (p \in stray' \/ p \in Listed)
        BY <3>8, RevivedFacts
      <4>2. Sound(frames, state, Listed, stray')
        BY <3>6, <4>1, SoundMore
      <4>3. ~Has(frames, "thread", p) /\ ~Has(frames, "exit_process", p)
        BY <1>2, <3>3, <3>4, Push DEF Has
      <4>4. running \in [Proc -> ProcessState] /\ Sound(frames, running, Listed, stray')
        BY <1>0, <3>1, <4>1, <4>2, <4>3, SoundRunning
      <4> HIDE DEF running
      <4>5. Sound(stack', state', Listed, stray')
        <5>1. "POLL" \in Event /\ KEEP \in Pointer \cup {KEEP}
          BY DEF Event
        <5> QED BY <3>1, <3>6, <3>8, <4>4, <5>1, SoundCall
      <4> QED BY <1>0, <4>5, DisciplinesNext
    <3> QED BY <3>5, <3>7, <3>8
  <2> QED BY <2>1, <2>2
<1> QED BY <1>4, <1>5

LEMMA BroadcastsDisciplined ==
  ASSUME ListOK, ListOK', EventAtBottom, Disciplines, BroadcastWalk \/ BroadcastCall
  PROVE  Disciplines'
<1>0. /\ TypeOK /\ Sound(stack, state, Listed, stray) /\ stack \in Seq(Frame)
      /\ process_list' = process_list /\ Listed' = Listed /\ stray' = stray
  BY ListSame DEF Disciplines, ListOK, TypeOK, BroadcastWalk, BroadcastCall
<1>1. stack # <<>> /\ Top.kind = "do_event"
  BY <1>0, BroadcastWalkStack, BroadcastCallStack
<1>2. Callers = <<>> /\ Callers \in Seq(Frame)
  BY <1>0, <1>1, BroadcastAlone, EmptyStack
<1>3. ASSUME NEW f \in Frame, f.kind = "do_event"
      PROVE  /\ Append(Callers, f) \in Seq(Frame) /\ Sound(Append(Callers, f), state, Listed, stray)
             /\ Frames(Append(Callers, f)) = {f}
  <2>1. Append(Callers, f) \in Seq(Frame) /\ Sound(Append(Callers, f), state, Listed, stray)
    BY <1>0, <1>1, <1>3, SoundReplace DEF OwnerKind
  <2>2. Frames(Append(Callers, f)) = {} \cup {f}
    BY <1>2, Push, EmptyStack
  <2> QED BY <2>1, <2>2
<1>4. CASE BroadcastWalk
  <2>1. state' = state
    BY <1>4 DEF BroadcastWalk
  <2>2. CASE stack' = Callers
    <3>1. Sound(Callers, state, Listed, stray)
      BY <1>0, <1>1, SoundPop
    <3> QED BY <1>0, <2>1, <2>2, <3>1, DisciplinesNext
  <2>3. CASE stack' # Callers
    <3>1. PICK f \in Frame : /\ f.kind = "do_event"
                             /\ \/ stack' = Append(Callers, f)
                                \/ stack' = Append(Append(Callers, f), StartPoll)
      BY <1>0, <1>4, <2>3, BroadcastWalkStack
    <3>2. CASE stack' = Append(Callers, f)
      BY <1>0, <1>3, <2>1, <3>1, <3>2, DisciplinesNext
    <3>3. CASE stack' = Append(Append(Callers, f), StartPoll)
      <4>1. StartPoll \in Frame /\ StartPoll.kind = "do_poll"
        BY DEF StartPoll, Frame, PollFrame, Pointer
      <4>2. MayPush(Append(Callers, f), StartPoll, stray)
        BY <1>3, <3>1, <4>1 DEF MayPush, OwnerKind
      <4>3. Sound(stack', state, Listed, stray)
        BY <1>3, <3>1, <3>3, <4>1, <4>2, SoundPushOther DEF OwnerKind
      <4> QED BY <1>0, <2>1, <4>3, DisciplinesNext
    <3> QED BY <3>1, <3>2, <3>3
  <2> QED BY <2>2, <2>3
<1>5. CASE BroadcastCall
  <2>1. Top.at \in Proc /\ Top.ev \in Event /\ state \in [Proc -> ProcessState]
    BY <1>0, <1>1, <1>5, TopTyped, FrameFields, BroadcastCallStack DEF TypeOK
  <2>2. PICK f \in Frame : /\ f.kind = "do_event"
                           /\ call_process(state, Append(Callers, f), Top.at, Top.ev, KEEP)
    BY <1>0, <1>5, BroadcastCallStack
  <2>3. Sound(stack', state', Listed, stray)
    <3> DEFINE frames == Append(Callers, f)
               p == Top.at
               ev == Top.ev
    <3>1. frames \in Seq(Frame) /\ Sound(frames, state, Listed, stray)
      BY <1>3, <2>2
    <3>2. p \in Proc /\ ev \in Event /\ call_process(state, frames, p, ev, KEEP)
      BY <2>1, <2>2
    <3>3. KEEP \in Pointer \cup {KEEP}
      OBVIOUS
    <3> HIDE DEF frames, p, ev
    <3> QED BY ONLY <2>1, <3>1, <3>2, <3>3, SoundCall
  <2> QED BY <1>0, <2>3, DisciplinesNext
<1> QED BY <1>4, <1>5

LEMMA ExitDisciplined ==
  ASSUME ListOK, ListOK', Disciplines, ExitWalk \/ ExitUnlink
  PROVE  Disciplines'
<1>0. TypeOK /\ stack \in Seq(Frame) /\ Sound(stack, state, Listed, stray)
  BY DEF ListOK, TypeOK, Disciplines
<1>1. /\ stack # <<>> /\ Top \in ExitFrame /\ Top.kind = "exit_process" /\ Callers \in Seq(Frame)
      /\ Top.p \in Proc /\ Top.at \in Pointer /\ Top.back \in Pointer
  BY <1>0, TopTyped, FrameFields DEF ExitWalk, ExitUnlink, TopAt, TopIs
<1>2. CASE ExitUnlink
  <2>1. PICK x \in Proc : x = Top.p
    BY <1>1
  <2>2. unlink(x, Top.back) /\ stack' = Callers /\ state' = state /\ stray' = Left(x)
    BY <1>2, <2>1 DEF ExitUnlink, unlink
  <2>3. Listed' = Listed \ {x}
    BY <2>2, AfterUnlink
  <2>4. Sound(Callers, state, Listed, stray) /\ MayPush(Callers, Top, stray)
    BY <1>0, <1>1, SoundPop
  <2>5. x \notin stray =>
          ~Has(Callers, "thread", x) /\ ~Has(Callers, "exit_process", x) /\ state[x] = "NONE"
    <3>1. Has(stack, "exit_process", x)
      <4>1. Top \in Frames(stack)
        BY <1>0, <1>1, Pop
      <4> QED BY <1>1, <2>1, <4>1 DEF Has
    <3> QED BY <1>0, <1>1, <2>1, <2>4, <3>1 DEF Sound, MayPush, OwnerKind
  <2>6. Sound(Callers, state, Listed \ {x}, stray)
    BY <2>4, <2>5 DEF Sound
  <2>7. CASE stray' = stray
    BY <2>2, <2>3, <2>6, <2>7, DisciplinesNext
  <2>8. CASE stray' = stray \ {x} /\ state[x] = "NONE" /\ ~Busy(Callers, x)
    <3>1. \A kind \in OwnerKind : ~Has(Callers, kind, x)
      BY <2>8 DEF Busy, Has, Frames, OwnerKind, ThreadKind
    <3>2. \A i \in 1..Len(Callers) : Callers[i].kind \in OwnerKind => Callers[i].p # x
      <4>1. \A i \in 1..Len(Callers) : Callers[i] \in Frames(Callers)
        BY <1>1, LenProperties DEF Frames
      <4> QED BY <3>1, <4>1 DEF Has
    <3>3. Ordered(Callers, stray \ {x})
      BY <2>6, <3>2 DEF Sound, Ordered
    <3>4. Sound(Callers, state, Listed \ {x}, stray \ {x})
      BY <2>6, <2>8, <3>1, <3>3 DEF Sound, OwnerKind
    <3> QED BY <2>2, <2>3, <2>8, <3>4, DisciplinesNext
  <2> QED BY <2>2, <2>7, <2>8 DEF Left
<1>3. CASE ExitWalk
  <2> DEFINE q == After(Top.at)
             f == [Top EXCEPT !.at = q]
             g == [Top EXCEPT !.pc = "unlink"]
             looping == Append(Callers, f)
             leaving == Append(Callers, g)
             t == Thread("exit_thread", Top.p, "EXIT", KEEP)
  <2>1. /\ q \in Pointer
        /\ f \in Frame /\ f.kind = "exit_process" /\ f.p = Top.p
        /\ g \in Frame /\ g.kind = "exit_process" /\ g.p = Top.p
    BY <1>0, <1>1, AfterTyped DEF Frame, ExitFrame
  <2>2. process_list' = process_list /\ stray' = stray
    BY <1>3 DEF ExitWalk
  <2>3. \/ state' = state /\ (stack' = Append(leaving, t) \/ stack' = leaving \/ stack' = looping)
        \/ q \in Proc /\ call_process(state, looping, q, "EXITED", KEEP)
    BY <1>3, <2>1 DEF ExitWalk, Pointer
  <2> HIDE DEF q, f, g
  <2>4. Sound(looping, state, Listed, stray) /\ looping \in Seq(Frame)
    BY <1>0, <1>1, <2>1, SoundReplace
  <2>5. /\ Sound(leaving, state, Listed, stray) /\ leaving \in Seq(Frame)
        /\ leaving # <<>> /\ Last(leaving) = g
    BY <1>0, <1>1, <2>1, SoundReplace, LastAppended
  <2>6. t \in Frame /\ t.kind = "exit_thread" /\ t.p = Top.p
    BY <1>1, BoundAssumption DEF Thread, Frame, ThreadFrame, Event
  <2> HIDE DEF looping, leaving, t
  <2>7. Listed' = Listed
    BY <2>2, ListSame
  <2>8. CASE state' = state /\ stack' = Append(leaving, t)
    <3>1. MayPush(leaving, t, stray)
      BY <2>1, <2>5, <2>6 DEF MayPush, OwnerKind
    <3>2. Sound(stack', state', Listed', stray')
      BY <2>2, <2>5, <2>6, <2>7, <2>8, <3>1, SoundPushOther DEF OwnerKind
    <3> QED BY <3>2, DisciplinesNext
  <2>9. CASE state' = state /\ (stack' = leaving \/ stack' = looping)
    BY <2>2, <2>4, <2>5, <2>7, <2>9, DisciplinesNext
  <2>10. CASE q \in Proc /\ call_process(state, looping, q, "EXITED", KEEP)
    <3>1. "EXITED" \in Event /\ KEEP \in Pointer \cup {KEEP} /\ state \in [Proc -> ProcessState]
      BY <1>0 DEF Event, TypeOK
    <3>2. Sound(stack', state', Listed, stray)
      BY <2>4, <2>10, <3>1, SoundCall
    <3> QED BY <2>2, <2>7, <3>2, DisciplinesNext
  <2> QED BY <2>3, <2>8, <2>9, <2>10
<1> QED BY <1>2, <1>3

\* A thread that makes a call.
LEMMA SoundCaller ==
  ASSUME TypeOK, NEW d, Sound(stack, state, Listed, d), NEW call, MayCall(call)
  PROVE  /\ Caller \in Seq(Frame) /\ Sound(Caller, state, Listed, d)
         /\ \A kind \in OwnerKind : \A p : Has(Caller, kind, p) => Has(stack, kind, p)
<1> DEFINE f == [Top EXCEPT !.calls = Top.calls + 1]
<1>1. stack \in Seq(Frame) /\ stack # <<>> /\ Top \in ThreadFrame
  BY CallerTyped DEF TypeOK
<1>2. f \in Frame /\ f.kind = Top.kind /\ f.p = Top.p
  BY <1>1, BoundAssumption DEF MayCall, Frame, ThreadFrame
<1>3. Caller = Append(Callers, f)
  BY DEF Caller
<1> HIDE DEF f
<1> QED BY <1>1, <1>2, <1>3, SoundReplace

LEMMA ThreadDisciplined ==
  ASSUME ListOK, ListOK', Disciplines, ThreadStep
  PROVE  Disciplines'
<1>0. /\ TypeOK /\ stack \in Seq(Frame) /\ Sound(stack, state, Listed, stray)
      /\ process_current \in Pointer /\ Posted \subseteq Event /\ state \in [Proc -> ProcessState]
  BY ProgramAssumption DEF ListOK, TypeOK, Event, Disciplines
<1>1. process_list' = process_list => Listed' = Listed
  BY ListSame
<1>2. CASE \E p \in Pointer, ev \in Posted : ThreadPost(p, ev)
  <2>1. MayCall("post") /\ stack' = Caller /\ UNCHANGED <<process_list, state, stray>>
    BY <1>2 DEF ThreadPost
  <2> QED BY <1>0, <1>1, <2>1, SoundCaller, DisciplinesNext
<1>3. CASE \E p \in Proc, ev \in Posted : ThreadPostSynch(p, ev)
  <2>1. PICK p \in Proc, ev \in Posted : ThreadPostSynch(p, ev)
    BY <1>3
  <2>2. Caller \in Seq(Frame) /\ Sound(Caller, state, Listed, stray)
    BY <1>0, <2>1, SoundCaller DEF ThreadPostSynch
  <2>3. /\ call_process(state, Caller, p, ev, process_current)
        /\ process_list' = process_list /\ stray' = stray
    BY <2>1 DEF ThreadPostSynch
  <2>4. Sound(stack', state', Listed, stray)
    BY <1>0, <2>2, <2>3, SoundCall
  <2> QED BY <1>1, <2>3, <2>4, DisciplinesNext
<1>4. CASE \E p \in Proc : ThreadStart(p)
  <2>1. PICK p \in Proc : ThreadStart(p)
    BY <1>4
  <2>2. Caller \in Seq(Frame) /\ Sound(Caller, state, Listed, stray)
    BY <1>0, <2>1, SoundCaller DEF ThreadStart
  <2>3. Sound(stack', state', Listed', stray) /\ stray' = stray
    BY <2>1, <2>2, SoundStart DEF ThreadStart
  <2> QED BY <2>3, DisciplinesNext
<1>5. CASE \E p \in Proc : ThreadExit(p)
  <2>1. PICK p \in Proc : ThreadExit(p)
    BY <1>5
  <2>2. /\ exit_process(Caller, p, process_current, process_current)
        /\ process_list' = process_list /\ stray' = Exited(p)
    BY <2>1 DEF ThreadExit
  <2>3. /\ Caller \in Seq(Frame) /\ Sound(Caller, state, Listed, stray)
        /\ \A kind \in OwnerKind : \A q : Has(Caller, kind, q) => Has(stack, kind, q)
    BY <1>0, <2>1, SoundCaller DEF ThreadExit
  <2>4. /\ stray \subseteq stray'
        /\ p \in stray' \/ (p \in Listed /\ ~Has(stack, "thread", p) /\ ~Has(stack, "exit_process", p))
    BY <2>2 DEF Exited, Busy, Has, Frames, ThreadKind
  <2>5. p \in stray' \/ (p \in Listed /\ ~Has(Caller, "thread", p) /\ ~Has(Caller, "exit_process", p))
    BY <2>3, <2>4 DEF OwnerKind
  <2>6. Sound(Caller, state, Listed, stray')
    BY <2>3, <2>4, SoundMore
  <2>7. Sound(stack', state', Listed, stray')
    BY <1>0, <2>2, <2>3, <2>5, <2>6, SoundExit
  <2> QED BY <1>1, <2>2, <2>7, DisciplinesNext
<1>6. CASE ThreadYields \/ ThreadEnds
  <2>1. /\ stack # <<>> /\ Top.kind = "thread" /\ Top \in Frame /\ Top.p \in Proc
        /\ Restored(Top.back) \in Pointer
    BY <1>0, <1>6, TopTyped, FrameFields, RestoredTyped
       DEF ThreadYields, ThreadEnds, TopIs, ThreadKind
  <2>2. PICK x \in Proc : x = Top.p
    BY <2>1
  <2>3. Callers \in Seq(Frame) /\ MayPush(Callers, Top, stray) /\ Sound(Callers, state, Listed, stray)
    BY <1>0, <2>1, SoundPop
  <2>4. x \in stray
        \/ (x \in Listed /\ ~Has(Callers, "thread", x) /\ ~Has(Callers, "exit_process", x))
    <3>1. Has(stack, "thread", x)
      BY <1>0, <2>1, <2>2, Pop DEF Has
    <3>2. x \notin stray => state[x] = "CALLED"
      BY <1>0, <3>1 DEF Sound
    <3>3. x \notin stray => x \in Listed
      BY <1>0, <3>2 DEF Sound
    <3> QED BY <2>1, <2>2, <2>3, <3>3 DEF MayPush, OwnerKind
  <2>5. process_list' = process_list /\ stray' = stray
    BY <1>6 DEF ThreadYields, ThreadEnds
  <2>6. CASE ThreadYields
    <3>1. state' = [state EXCEPT ![x] = "RUNNING"] /\ stack' = Callers
      BY <2>2, <2>6 DEF ThreadYields
    <3>2. Sound(Callers, state', Listed, stray)
      BY <1>0, <2>3, <2>4, <3>1, SoundRunning
    <3> QED BY <1>1, <2>5, <3>1, <3>2, DisciplinesNext
  <2>7. CASE ThreadEnds
    <3>1. exit_process(Callers, x, x, Restored(Top.back)) /\ x \in Pointer
      BY <2>2, <2>7 DEF ThreadEnds, Pointer
    <3>2. Sound(stack', state', Listed, stray)
      BY <1>0, <2>1, <2>3, <2>4, <3>1, SoundExit
    <3> QED BY <1>1, <2>5, <3>2, DisciplinesNext
  <2> QED BY <1>6, <2>6, <2>7
<1>7. CASE ExitThreadReturns
  <2>1. stack # <<>> /\ stack' = Callers /\ UNCHANGED <<process_list, state, stray>>
    BY <1>7 DEF ExitThreadReturns, TopIs
  <2>2. Sound(Callers, state, Listed, stray)
    BY <1>0, <2>1, SoundPop
  <2> QED BY <1>1, <2>1, <2>2, DisciplinesNext
<1> QED BY <1>2, <1>3, <1>4, <1>5, <1>6, <1>7 DEF ThreadStep

LEMMA DisciplinesStep ==
  ASSUME ListOK, ListOK', EventAtBottom, Disciplines, [Next]_vars
  PROVE  Disciplines'
<1>1. CASE \E p \in Proc : BootStart(p)
  <2>1. PICK p \in Proc : BootStart(p)
    BY <1>1
  <2>2. /\ stack \in Seq(Frame) /\ process_start(stack, p) /\ stray' = stray
        /\ Sound(stack, state, Listed, stray)
    BY <2>1 DEF BootStart, Disciplines, ListOK, TypeOK
  <2>3. Sound(stack', state', Listed', stray')
    BY <2>2, SoundStart
  <2> QED BY <2>3, DisciplinesNext
<1>2. CASE (\E p \in Polled : process_poll(p)) \/ UNCHANGED vars
  <2>1. UNCHANGED <<process_list, state, stack, stray>>
    BY <1>2 DEF process_poll, vars
  <2> QED BY <2>1, DisciplinesSame
<1>3. CASE MainLoop
  BY <1>3, MainDisciplined
<1>4. CASE Walk
  BY <1>4, PollsDisciplined, BroadcastsDisciplined, ExitDisciplined DEF Walk
<1>5. CASE ThreadStep
  BY <1>5, ThreadDisciplined
<1> QED BY <1>1, <1>2, <1>3, <1>4, <1>5 DEF Next

LEMMA InitDisciplines == Init => Disciplines
<1> SUFFICES ASSUME Init PROVE Disciplines
  OBVIOUS
<1>1. stack = <<>> /\ Listed = {} /\ \A p \in Proc : state[p] = "NONE"
  BY DEF Init, Listed
<1>2. Len(<<>>) = 0 /\ Ordered(<<>>, stray)
  BY DEF Ordered
<1> QED BY <1>1, <1>2, EmptyStack DEF Disciplines, Sound

LEMMA DisciplinesHold == Spec => []Disciplines
<1>1. Init => EventAtBottom
  BY DEF Init, EventAtBottom, NoEventAbove
<1>2. EventAtBottom /\ TypeOK /\ [Next]_vars => EventAtBottom'
  BY EventAtBottomStep
<1>3. Disciplines /\ ListOK /\ ListOK' /\ EventAtBottom /\ [Next]_vars => Disciplines'
  BY DisciplinesStep
<1>4. TypeOK /\ ListedOnce => ListOK
  BY DEF ListOK
<1> QED BY <1>1, <1>2, <1>3, <1>4, InitDisciplines, TypeCorrect, NeverListedTwice, PTL DEF Spec

\* process_is_running() is true exactly of the listed processes, those in the middle of
\* exit_process() apart, and those that exited in the middle of their own calls.
THEOREM RunningAsListed == Spec => []RunningIffListed
<1>1. Init => StatesAccounted
  BY DEF Init, StatesAccounted, Accounted, Listed
<1>2. StatesAccounted /\ ListOK /\ ListOK' /\ [Next]_vars => StatesAccounted'
  BY StatesAccountedStep
<1>3. TypeOK /\ ListedOnce => ListOK
  BY DEF ListOK
<1>4. Disciplines /\ StatesAccounted => RunningIffListed
  BY DEF Disciplines, Sound, StatesAccounted, Accounted, RunningIffListed, Has, Frames
<1> QED BY <1>1, <1>2, <1>3, <1>4, DisciplinesHold, TypeCorrect, NeverListedTwice, PTL DEF Spec

\* No thread is entered while an activation of it is on the stack, whatever chain of
\* synchronous calls, exits and polls led there, unless its process exited in the middle of
\* its own calls and has not exited otherwise since.
THEOREM NeverReentered == Spec => []NotReentered
<1>1. TypeOK /\ Disciplines => NotReentered
  BY OrderedOnce DEF Disciplines, Sound
<1> QED BY <1>1, DisciplinesHold, TypeCorrect, PTL

================================================================================
