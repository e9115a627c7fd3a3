--------------------------------- MODULE Slip ---------------------------------
(***************************************************************************)
(* The SLIP driver, core/dev/slip.c: a ring buffer that the receive        *)
(* interrupt fills with the bytes of a serial line, and slip_process,      *)
(* which takes packets from it.  The interrupt may come between any two    *)
(* statements of the process.                                              *)
(*                                                                         *)
(* The line carries what slip_write() of the peer sends, frames between    *)
(* two SLIP_ENDs, and the request CLIENT of a dial-up peer.  It may lose   *)
(* bytes of a frame.  What slip_process does with a packet, the answer to  *)
(* ?IPA or tcpip_input(), is the step Give.  Each access to begin, end and pkt_end is one step:   *)
(* the buffer of the boards with this driver is below 256 bytes, or their  *)
(* processors have words of 16 bits.                                       *)
(***************************************************************************)
EXTENDS Naturals, Sequences, SequencesExt

CONSTANTS RX_BUFSIZE,
          BufLen,     \* what uip_buf takes, UIP_BUFSIZE - UIP_LLH_LEN
          Burst,      \* the bytes that may arrive between two statements of slip_process
          MaxFrames,  \* bound: frames of the peer
          Frame,      \* bound: what the frames are, sequences of bytes to be escaped or not
          MaxLost,    \* bound: bytes lost on the line
          MaxClient   \* bound: requests of a dial-up peer

ASSUME SizeAssumption ==
  /\ BufLen \in Nat \ {0} /\ RX_BUFSIZE \in Nat /\ RX_BUFSIZE > BufLen /\ Burst \in Nat
  /\ Frame \subseteq Seq({"plain", "special"}) \ {<<>>}
  /\ MaxFrames \in Nat /\ MaxLost \in Nat /\ MaxClient \in Nat

VARIABLES
  rxbuf, begin, end, pkt_end,
  state,
  needspoll,   \* slip_process has been polled
  pc,          \* where slip_process is
  copied,      \* what it has copied to uip_buf
  line,        \* the bytes that the peer is sending
  burst,       \* the bytes that have arrived since the last statement
  frames,      \* auxiliary: the frames that the peer has begun
  spoilt,      \* auxiliary: the frames of which a byte was lost or thrown away
  given,       \* auxiliary: the packets passed to uIP
  lost, clients

ring == <<rxbuf, begin, end, pkt_end, state>>
vars == <<ring, needspoll, pc, copied, line, burst, frames, spoilt, given, lost, clients>>

\* The states, and the bytes: SLIP_END, SLIP_ESC, what follows an escape, and data.  "CLIENT"
\* stands for the six characters of the request.
State == {"TWOPACKETS", "OK", "ESC", "RUBBISH"}
Data == {"plain", "special", "tail", "CLIENT"}
Index == 0..(RX_BUFSIZE - 1)

\* What is in the buffer, with the frame that it is of and its place there; a request has
\* frame 0.
Byte == [c : Data, frame : 0..MaxFrames, at : Nat]
Nothing == [c |-> "plain", frame |-> 0, at |-> 0]

--------------------------------------------------------------------------------
(* The line.                                                                    *)

\* What slip_write() sends for a byte.
Escaped(f, i, c) ==
  IF c = "plain" THEN << [c |-> "plain", frame |-> f, at |-> i] >>
  ELSE << [c |-> "ESC", frame |-> f, at |-> i], [c |-> "tail", frame |-> f, at |-> i] >>

End(f) == << [c |-> "END", frame |-> f, at |-> 0] >>
slip_write(f, bytes) ==
  End(f) \o FlattenSeq([i \in DOMAIN bytes |-> Escaped(f, i, bytes[i])]) \o End(f)

SendFrame ==
  /\ line = <<>> /\ Len(frames) < MaxFrames
  /\ \E bytes \in Frame :
       /\ frames' = Append(frames, bytes)
       /\ line' = slip_write(Len(frames) + 1, bytes)
  /\ UNCHANGED <<ring, needspoll, pc, copied, burst, spoilt, given, lost, clients>>

SendClient ==
  /\ line = <<>> /\ clients < MaxClient
  /\ clients' = clients + 1
  /\ line' = << [c |-> "CLIENT", frame |-> 0, at |-> 0] >>
  /\ UNCHANGED <<ring, needspoll, pc, copied, burst, frames, spoilt, given, lost>>

LoseByte ==
  /\ line # <<>> /\ Head(line).c \in {"plain", "ESC", "tail"} /\ lost < MaxLost
  /\ lost' = lost + 1
  /\ line' = Tail(line)
  /\ spoilt' = spoilt \cup {Head(line).frame}
  /\ UNCHANGED <<ring, needspoll, pc, copied, burst, frames, given, clients>>

--------------------------------------------------------------------------------
(* slip_input_byte(), called by the receive interrupt.                          *)

NextIndex(i) == IF i + 1 = RX_BUFSIZE THEN 0 ELSE i + 1

\* The frames with bytes in [from, to).
From(from, to) == {rxbuf[i].frame : i \in IF from <= to THEN from..(to - 1)
                                          ELSE Index \ (to..(from - 1))}

\* `end = pkt_end' throws away what has been received of the frame.
Rubbish(frame) ==
  /\ state' = "RUBBISH"
  /\ end' = pkt_end
  /\ spoilt' = spoilt \cup {frame}
  /\ UNCHANGED <<rxbuf, begin, pkt_end, needspoll>>

\* A byte that is not looked at.  A SLIP_END that ends nothing is no loss.
ThrownAway(b) ==
  /\ spoilt' = IF b.c = "END" THEN spoilt ELSE spoilt \cup {b.frame}
  /\ state' = IF state = "RUBBISH" /\ b.c = "END" THEN "OK" ELSE state
  /\ UNCHANGED <<rxbuf, begin, end, pkt_end, needspoll>>

\* SLIP_END: a packet of zero length is none; when one is buffered already, there are two.
Merged == pkt_end' = end /\ UNCHANGED state
FrameEnds ==
  /\ IF begin = pkt_end
     THEN pkt_end' = end /\ UNCHANGED state
     ELSE state' = "TWOPACKETS" /\ UNCHANGED pkt_end
PacketEnds ==
  /\ IF end = pkt_end
     THEN UNCHANGED <<pkt_end, state, needspoll>>
     ELSE FrameEnds /\ needspoll' = TRUE
  /\ UNCHANGED <<rxbuf, begin, end, spoilt>>

\* "add_char": the request asks for a poll of its own when it is the first thing in the
\* buffer.
AddChar(b, c) ==
  IF NextIndex(end) = begin
  THEN Rubbish(b.frame)
  ELSE /\ rxbuf' = [rxbuf EXCEPT ![end] = [b EXCEPT !.c = c]]
       /\ end' = NextIndex(end)
       /\ state' = "OK"
       /\ needspoll' = (needspoll \/ (c = "CLIENT" /\ rxbuf'[begin].c = "CLIENT"))
       /\ UNCHANGED <<begin, pkt_end, spoilt>>

slip_input_byte(b) ==
  CASE state \in {"RUBBISH", "TWOPACKETS"} -> ThrownAway(b)
    [] state = "ESC" -> IF b.c = "tail" THEN AddChar(b, "special") ELSE Rubbish(b.frame)
    [] state = "OK" ->
         CASE b.c = "ESC" -> /\ state' = "ESC"
                             /\ UNCHANGED <<rxbuf, begin, end, pkt_end, needspoll, spoilt>>
           [] b.c = "END" -> PacketEnds
           [] OTHER -> AddChar(b, b.c)

\* While the process waits, or uIP handles a packet, any number of bytes arrives.
Waiting == pc \in {"start", "idle", "give"}
Interrupt ==
  /\ line # <<>> /\ (Waiting \/ burst < Burst)
  /\ burst' = IF Waiting THEN 0 ELSE burst + 1
  /\ slip_input_byte(Head(line))
  /\ line' = Tail(line)
  /\ UNCHANGED <<pc, copied, frames, given, lost, clients>>

--------------------------------------------------------------------------------
(* slip_process and slip_poll_handler().                                        *)

aside == <<line, frames, lost, clients>>

\* rxbuf_init(), with the bytes that it throws away, of a frame that is still coming too.
Coming == IF line = <<>> \/ Head(line).c = "END" THEN {} ELSE {Head(line).frame}
rxbuf_init ==
  /\ begin' = 0 /\ end' = 0 /\ pkt_end' = 0
  /\ state' = "OK"
  /\ spoilt' = spoilt \cup From(begin, end) \cup Coming

Start ==
  /\ pc = "start"
  /\ rxbuf_init
  /\ pc' = "idle"
  /\ UNCHANGED <<aside, rxbuf, needspoll, copied, given>>

\* do_poll() calls the process.
Poll ==
  /\ pc = "idle" /\ needspoll
  /\ needspoll' = FALSE
  /\ pc' = "client"
  /\ UNCHANGED <<aside, ring, copied, spoilt, given>>

\* "This is a hack and won't work across buffer edge!"
IsClient == rxbuf[begin].c = "CLIENT" /\ begin < end
TestClient ==
  /\ pc = "client"
  /\ pc' = IF IsClient THEN "disconnect" ELSE "packet"
  /\ UNCHANGED <<aside, ring, needspoll, copied, spoilt, given>>

\* "Interrupts do nothing."
Disconnect ==
  /\ pc = "disconnect"
  /\ state' = "TWOPACKETS"
  /\ pc' = "answer"
  /\ UNCHANGED <<aside, rxbuf, begin, end, pkt_end, needspoll, copied, spoilt, given>>

Answer ==
  /\ pc = "answer"
  /\ rxbuf' = [rxbuf EXCEPT ![begin] = Nothing]
  /\ rxbuf_init
  /\ pc' = "idle"
  /\ UNCHANGED <<aside, needspoll, copied, given>>

TestPacket ==
  /\ pc = "packet"
  /\ pc' = IF begin # pkt_end THEN "copy" ELSE "idle"
  /\ copied' = <<>>
  /\ UNCHANGED <<aside, ring, needspoll, spoilt, given>>

\* The packet is copied while the interrupt writes after it; a packet that is too long for
\* uip_buf is not copied.
PacketLen == (pkt_end + RX_BUFSIZE - begin) % RX_BUFSIZE
Copy ==
  /\ pc = "copy"
  /\ IF PacketLen > BufLen \/ Len(copied) = PacketLen
     THEN pc' = "advance" /\ UNCHANGED copied
     ELSE /\ copied' = Append(copied, rxbuf[(begin + Len(copied)) % RX_BUFSIZE])
          /\ UNCHANGED pc
  /\ UNCHANGED <<aside, ring, needspoll, spoilt, given>>

BeginStays == begin
BeginOfNext == pkt_end
Advance ==
  /\ pc = "advance"
  /\ begin' = BeginOfNext
  /\ spoilt' = IF PacketLen > BufLen THEN spoilt \cup From(begin, pkt_end) ELSE spoilt
  /\ pc' = "second"
  /\ UNCHANGED <<aside, rxbuf, end, pkt_end, state, needspoll, copied, given>>

\* A second packet that is buffered becomes the first: "Assume no bytes where lost!"  The
\* interrupt does nothing before the state is OK.
Second ==
  /\ pc = "second"
  /\ IF state = "TWOPACKETS"
     THEN pkt_end' = end /\ state' = "OK" /\ pc' = "again"
     ELSE UNCHANGED <<pkt_end, state>> /\ pc' = "give"
  /\ UNCHANGED <<aside, rxbuf, begin, end, needspoll, copied, spoilt, given>>

NotAgain ==
  /\ pc = "again"
  /\ pc' = "give"
  /\ UNCHANGED <<aside, ring, needspoll, copied, spoilt, given>>
PollAgain ==
  /\ pc = "again"
  /\ needspoll' = TRUE
  /\ pc' = "give"
  /\ UNCHANGED <<aside, ring, copied, spoilt, given>>

Give ==
  /\ pc = "give"
  /\ given' = IF copied = <<>> THEN given ELSE Append(given, copied)
  /\ pc' = "idle"
  /\ copied' = <<>>
  /\ UNCHANGED <<aside, ring, needspoll, spoilt>>

--------------------------------------------------------------------------------
Process ==
  /\ \/ Start \/ Poll \/ TestClient \/ Disconnect \/ Answer
     \/ TestPacket \/ Copy \/ Advance \/ Second \/ PollAgain \/ Give
  /\ burst' = 0

Init ==
  /\ rxbuf = [i \in Index |-> Nothing]
  /\ begin = 0 /\ end = 0 /\ pkt_end = 0
  /\ state = "TWOPACKETS"
  /\ needspoll = FALSE
  /\ pc = "start" /\ copied = <<>>
  /\ line = <<>> /\ burst = 0 /\ frames = <<>> /\ spoilt = {} /\ given = <<>>
  /\ lost = 0 /\ clients = 0

Next == SendFrame \/ SendClient \/ LoseByte \/ Interrupt \/ Process

Spec == Init /\ [][Next]_vars

\* The process is scheduled, and the peer goes on with what it has begun to send.
FairSpec == Spec /\ WF_vars(Process) /\ WF_vars(Interrupt)

--------------------------------------------------------------------------------
(* Properties.                                                                  *)

\* The indices stay in the buffer, and never more than uip_buf takes is copied.
TypeOK ==
  /\ rxbuf \in [Index -> Byte]
  /\ begin \in Index /\ end \in Index /\ pkt_end \in Index
  /\ state \in State
  /\ needspoll \in BOOLEAN /\ burst \in 0..Burst
  /\ pc \in {"start", "idle", "client", "disconnect", "answer", "packet", "copy", "advance",
             "second", "again", "give"}
  /\ copied \in Seq(Byte) /\ Len(copied) <= BufLen

Sent(f) == [i \in DOMAIN frames[f] |-> [c |-> frames[f][i], frame |-> f, at |-> i]]
FrameOf(packet) == Head(packet).frame

\* uIP is never given bytes of two frames as one packet, and a frame of which the driver
\* threw nothing away arrives as it was sent, while the interrupt goes on writing into the
\* ring that the process copies from.
PacketsAreFrames ==
  \A k \in DOMAIN given :
    LET packet == given[k] IN
      /\ \A i \in DOMAIN packet : packet[i].frame = FrameOf(packet)
      /\ FrameOf(packet) \notin spoilt \cup {0} => packet = Sent(FrameOf(packet))

\* Frames are given to uIP in the order of their arrival, and none twice, although the
\* process and the interrupt both move pkt_end.
EachOnceInOrder ==
  \A j, k \in DOMAIN given :
    j < k /\ FrameOf(given[j]) # 0 /\ FrameOf(given[k]) # 0
      => FrameOf(given[j]) < FrameOf(given[k])

\* A frame that was received without a loss is passed to uIP: its poll is not lost, also
\* when it is the second in the buffer.
Received(f) == f < Len(frames) \/ (f = Len(frames) /\ line = <<>>)
EveryFrameGiven ==
  \A f \in 1..MaxFrames :
    Received(f) /\ f \notin spoilt
      ~> f \in spoilt \/ \E k \in DOMAIN given : FrameOf(given[k]) = f
================================================================================
