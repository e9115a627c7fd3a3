---------------------------- MODULE ReliableUnicast ----------------------------
(***************************************************************************)
(* Reliable unicast in Rime: core/net/rime/runicast.c on stunicast.c, the  *)
(* queue buffers that all connections of a node share (queuebuf.c on the   *)
(* block pool of core/lib/memb.c), and a radio that loses packets and      *)
(* delivers the others in order after any delay.                           *)
(*                                                                         *)
(* A handler - runicast_send(), the retransmission timer, the reception of *)
(* a packet - runs to its end in one process, so each is one action.  What *)
(* the callbacks do is done by later calls of the program.                 *)
(***************************************************************************)
EXTENDS Naturals, Sequences, FiniteSets, SequencesExt

CONSTANTS Node, Channel,
          Sender,    \* the <<node, channel>> whose programs send
          Packet,    \* what programs send, each packet once
          NULL,
          NumBufs,   \* QUEUEBUF_NUM
          Ids,       \* the range of packet ids, 2^RUNICAST_PACKET_ID_BITS
          Attempts,  \* the values of max_retransmissions
          MaxInAir,  \* bound: packets on their way
          Hasty,     \* those whose programs may send while copies of the last packet are on their way
          Reopens    \* whether programs open a connection that they closed

ASSUME NodeAssumption ==
  NULL \notin Packet /\ Sender \subseteq Node \X Channel /\ Hasty \subseteq Sender
ASSUME SizeAssumption ==
  /\ NumBufs \in Nat /\ Ids \in Nat \ {0, 1} /\ MaxInAir \in Nat
  /\ Attempts \subseteq 0..255
ASSUME ModeAssumption == Reopens \in BOOLEAN

VARIABLES
  conn,      \* the runicast_conn of each node and channel
  block,     \* the queue buffers of each node
  air,       \* the packets on their way to each node
  given,     \* auxiliary: the packet last accepted on each connection
  status,    \* auxiliary: what the sender was told of each packet
  arrived,   \* auxiliary: the packets passed to recv()
  hurried    \* auxiliary: the packets that were sent while an earlier one was in the way

vars == <<conn, block, air, given, status, arrived, hurried>>

PT == INSTANCE PacketTransfer

Buffer == 1..NumBufs
Id == 0..(Ids - 1)

Connection == [state : {"new", "open", "closed"}, buf : Buffer \cup {0}, to : Node,
               timer : BOOLEAN, rxmit : 0..255, max : Attempts \cup {0}, sndnxt : Id]
Block == [used : BOOLEAN, m : Packet \cup {NULL}, id : Id]
Frame == [type : {"DATA", "ACK"}, id : Id, m : Packet \cup {NULL}, channel : Channel, from : Node]

Init ==
  /\ conn = [c \in Node \X Channel |->
               [state |-> "new", buf |-> 0, to |-> c[1], timer |-> FALSE, rxmit |-> 0,
                max |-> 0, sndnxt |-> 0]]
  /\ block = [n \in Node |-> [b \in Buffer |-> [used |-> FALSE, m |-> NULL, id |-> 0]]]
  /\ air = [n \in Node |-> <<>>]
  /\ given = [c \in Node \X Channel |-> NULL]
  /\ status = [m \in Packet |-> "new"]
  /\ arrived = {} /\ hurried = {}

--------------------------------------------------------------------------------
(* memb.c and queuebuf.c                                                        *)

\* queuebuf_new_from_rimebuf() takes the first free block; 0 is the null pointer.
\* queuebuf_len is left out: while no block is freed twice it counts the used blocks,
\* and its limit, QUEUEBUF_NUM, is met when they are all used.
FirstBlock(blocks) == IF NumBufs = 0 THEN 0 ELSE 1
FirstFree(blocks) == {b \in Buffer : ~blocks[b].used /\ \A a \in 1..(b - 1) : blocks[a].used}
Alloc(blocks) == IF FirstFree(blocks) = {} THEN 0 ELSE CHOOSE b \in FirstFree(blocks) : TRUE

\* queuebuf_free(): memb_free() tolerates a block that is free already.
FreeNothing(blocks, b) == blocks
Free(blocks, b) ==
  IF b = 0 THEN blocks ELSE [blocks EXCEPT ![b].used = FALSE]

--------------------------------------------------------------------------------
(* stunicast.c and runicast.c                                                   *)

InAir == Cardinality(UNION {{n} \X DOMAIN air[n] : n \in Node})

\* unicast_send(): a packet is lost, or arrives some time.
Transmit(to, frame) ==
  \/ UNCHANGED air
  \/ InAir < MaxInAir /\ air' = [air EXCEPT ![to] = Append(@, frame)]

\* sent_by_stunicast(), the last thing each transmission does: after the last one
\* the timer is stopped at once, else it runs until the next.
TimedOut(c) == c.rxmit + 1 >= c.max
SentNoTimer(c) == [c EXCEPT !.rxmit = @ + 1, !.timer = FALSE]
Sent(c) == [c EXCEPT !.rxmit = @ + 1, !.timer = ~TimedOut(c)]

\* What a careful program waits for before the next packet: that the last one was
\* acknowledged by the same receiver, or that the copies of earlier ones and their
\* acknowledgements have left the air.
Patient(c, to) ==
  given[c] # NULL =>
    \/ status[given[c]] = "sent" /\ conn[c].to = to /\ given[c] \notin hurried
    \/ \A n \in Node : \A i \in DOMAIN air[n] : air[n][i].channel # c[2]

Displaced(c) == {k \in {given[c]} \ {NULL} : status[k] = "accepted"}

\* Packets differ in nothing but their names: the next to be sent is any new one.
Unsent == {m \in Packet : status[m] = "new"}

\* runicast_send(): the old buffer is freed before a new one is taken.
runicast_send(c, to, max) ==
  /\ conn[c].state = "open" /\ c \in Sender /\ to # c[1] /\ Unsent # {}
  /\ c \in Hasty \/ Patient(c, to)
  /\ LET m == CHOOSE k \in Unsent : TRUE
         freed == Free(block[c[1]], conn[c].buf)
         b == Alloc(freed)
         reset == [conn[c] EXCEPT !.max = max, !.rxmit = 0, !.buf = b]
         id == conn[c].sndnxt
     IN IF b = 0
        THEN /\ conn' = [conn EXCEPT ![c] = reset]
             /\ block' = [block EXCEPT ![c[1]] = freed]
             /\ UNCHANGED <<air, given, status, hurried>>
        ELSE /\ conn' = [conn EXCEPT ![c] = Sent([reset EXCEPT !.to = to])]
             /\ block' = [block EXCEPT ![c[1]] =
                            [freed EXCEPT ![b] = [used |-> TRUE, m |-> m, id |-> id]]]
             /\ Transmit(to, [type |-> "DATA", id |-> id, m |-> m, channel |-> c[2], from |-> c[1]])
             /\ given' = [given EXCEPT ![c] = m]
             /\ hurried' = IF Patient(c, to) THEN hurried ELSE hurried \cup {m}
             /\ status' = [k \in Packet |->
                             IF k = m THEN IF TimedOut(reset) THEN "timedout" ELSE "accepted"
                             ELSE IF k \in Displaced(c) THEN "dropped" ELSE status[k]]
  /\ UNCHANGED arrived

\* send(), the callback of the timer: the buffer is sent once more.
Retransmit(c) ==
  /\ conn[c].timer
  /\ LET p == block[c[1]][conn[c].buf]
     IN Transmit(conn[c].to, [type |-> "DATA", id |-> p.id, m |-> p.m, channel |-> c[2], from |-> c[1]])
  /\ conn' = [conn EXCEPT ![c] = Sent(@)]
  /\ status' = IF TimedOut(conn[c]) /\ status[given[c]] = "accepted"
               THEN [status EXCEPT ![given[c]] = "timedout"] ELSE status
  /\ UNCHANGED <<block, given, arrived, hurried>>

\* The oldest packet on its way to node n is received.
Received(n) == air[n] # <<>>
Taken(n) == [air EXCEPT ![n] = Tail(@)]

\* recv_from_stunicast() for an acknowledgement: only its id is looked at.
SameId(i) == i
NextId(i) == (i + 1) % Ids

ReceiveAck(n) ==
  /\ Received(n) /\ Head(air[n]).type = "ACK"
  /\ LET frame == Head(air[n])
         c == <<n, frame.channel>>
     IN IF conn[c].state = "open" /\ frame.id = conn[c].sndnxt
        THEN /\ conn' = [conn EXCEPT ![c].sndnxt = NextId(@), ![c].timer = FALSE]
             /\ status' = IF given[c] = NULL THEN status
                          ELSE [status EXCEPT ![given[c]] = "sent"]
        ELSE UNCHANGED <<conn, status>>
  /\ air' = Taken(n)
  /\ UNCHANGED <<block, given, arrived, hurried>>

\* recv_from_stunicast() for data: an acknowledgement is sent if a queue buffer is
\* free to keep the data meanwhile; the program gets the data in any case.
ReceiveData(n) ==
  /\ Received(n) /\ Head(air[n]).type = "DATA"
  /\ LET frame == Head(air[n])
         c == <<n, frame.channel>>
         ack == [type |-> "ACK", id |-> frame.id, m |-> NULL, channel |-> frame.channel, from |-> n]
     IN IF conn[c].state = "open"
        THEN /\ arrived' = arrived \cup {frame.m}
             /\ \/ air' = Taken(n)
                \/ /\ Alloc(block[n]) # 0
                   /\ air' = [Taken(n) EXCEPT ![frame.from] = Append(@, ack)]
        ELSE air' = Taken(n) /\ UNCHANGED arrived
  /\ UNCHANGED <<conn, block, given, status, hurried>>

runicast_open(c) ==
  /\ conn[c].state = "new" \/ (Reopens /\ conn[c].state = "closed")
  /\ conn' = [conn EXCEPT ![c].state = "open", ![c].rxmit = 0, ![c].sndnxt = 0]
  /\ UNCHANGED <<block, air, given, status, arrived, hurried>>

\* stunicast_close() keeps the pointer to the buffer that it frees.
runicast_close(c) ==
  /\ conn[c].state = "open"
  /\ conn' = [conn EXCEPT ![c].state = "closed", ![c].timer = FALSE]
  /\ block' = [block EXCEPT ![c[1]] = Free(@, conn[c].buf)]
  /\ status' = [k \in Packet |-> IF k \in Displaced(c) THEN "dropped" ELSE status[k]]
  /\ UNCHANGED <<air, given, arrived, hurried>>

Next ==
  \/ \E c \in Node \X Channel :
       \/ runicast_open(c) \/ runicast_close(c) \/ Retransmit(c)
       \/ \E to \in Node, max \in Attempts : runicast_send(c, to, max)
  \/ \E n \in Node : ReceiveAck(n) \/ ReceiveData(n)

\* A timer that runs, which is one of a sender, expires.  Nothing obliges the radio to deliver.
Fairness == \A c \in Sender : WF_vars(Retransmit(c))

Spec == Init /\ [][Next]_vars
FairSpec == Spec /\ Fairness
--------------------------------------------------------------------------------
TypeOK ==
  /\ conn \in [Node \X Channel -> Connection]
  /\ block \in [Node -> [Buffer -> Block]]
  /\ \A n \in Node : air[n] \in Seq(Frame)
  /\ InAir <= MaxInAir
  /\ given \in [Node \X Channel -> Packet \cup {NULL}]
  /\ PT!TypeOK

\* While a connection's timer runs, what the timer will send again is the packet the
\* program gave last, under the id whose acknowledgement the connection waits for.
\* No call on another connection of the node, and no acknowledgement made for a
\* packet received meanwhile, takes the buffer away (stunicast.c, queuebuf.c).
SendsOwnPacket ==
  \A c \in Node \X Channel :
    conn[c].timer =>
      /\ conn[c].buf # 0
      /\ block[c[1]][conn[c].buf] = [used |-> TRUE, m |-> given[c], id |-> conn[c].sndnxt]

\* The queue buffers in use are those that the open connections hold, each held once:
\* none leaks, none is shared, whatever is sent, refused, acknowledged, timed out or
\* closed in between (stunicast.c and memb.c).
PoolExact ==
  \A n \in Node :
    LET holders(b) == {ch \in Channel : conn[<<n, ch>>].state = "open" /\ conn[<<n, ch>>].buf = b}
    IN \A b \in Buffer : Cardinality(holders(b)) = IF block[n][b].used THEN 1 ELSE 0

\* Reliable unicast keeps the promise of PacketTransfer: what sent() reports has arrived,
\* unless the program sent it while copies of an earlier packet could be on their way.
ImplementsTransfer == PT!Spec

\* The sent() callback comes only for a packet that the receiver was given
\* (runicast.c: the acknowledgement is matched by its id alone).
SentMeansArrived == \A m \in Packet : status[m] = "sent" => m \in arrived

\* The program of every accepted packet hears of it, unless it closes the connection
\* or sends another: sent() or timedout() comes (sent_by_stunicast() bounds the
\* retransmissions), even if the radio delivers nothing.
EveryPacketConcluded == \A m \in Packet : (status[m] = "accepted") ~> (status[m] # "accepted")
================================================================================
