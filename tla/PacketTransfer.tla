---------------------------- MODULE PacketTransfer ----------------------------
(***************************************************************************)
(* What reliable unicast promises to the programs that use it: a packet    *)
(* that is reported as sent has arrived, and one that is not may or may    *)
(* not have.  A packet may arrive more than once.  A program that does not *)
(* wait until the packet before is done with is promised less: its packet  *)
(* may be reported as sent for another.  core/net/rime/runicast.c is meant *)
(* to implement it.                                                        *)
(***************************************************************************)
CONSTANT Packet

VARIABLES status,    \* what the sending program knows of each packet
          arrived,   \* the packets that were given to a receiving program
          hurried    \* the packets that the program did not wait with

\* "dropped": the sender closed the connection or sent another packet instead.
Status == {"new", "accepted", "sent", "timedout", "dropped"}

TypeOK == status \in [Packet -> Status] /\ arrived \subseteq Packet /\ hurried \subseteq Packet

Init == status = [m \in Packet |-> "new"] /\ arrived = {} /\ hurried = {}

\* runicast_send(), also with no retransmission: it may displace other packets.
Accept(m, displaced) ==
  /\ status[m] = "new" /\ m \notin displaced
  /\ \A k \in displaced : status[k] = "accepted"
  /\ \E s \in {"accepted", "timedout"} :
       status' = [k \in Packet |-> IF k = m THEN s
                                   ELSE IF k \in displaced THEN "dropped" ELSE status[k]]
  /\ hurried' \in {hurried, hurried \cup {m}}
  /\ UNCHANGED arrived

\* The recv() callback.
Arrive(m) ==
  /\ status[m] # "new"
  /\ arrived' = arrived \cup {m}
  /\ UNCHANGED <<status, hurried>>

\* The sent() callback, which may come after timedout().
Confirm(m) ==
  /\ status[m] \in {"accepted", "timedout"} /\ m \in arrived \cup hurried
  /\ status' = [status EXCEPT ![m] = "sent"]
  /\ UNCHANGED <<arrived, hurried>>

\* The timedout() callback, and runicast_close().
GiveUp(m) ==
  /\ status[m] = "accepted"
  /\ \E s \in {"timedout", "dropped"} : status' = [status EXCEPT ![m] = s]
  /\ UNCHANGED <<arrived, hurried>>

Next ==
  \/ \E m \in Packet, displaced \in SUBSET Packet : Accept(m, displaced)
  \/ \E m \in Packet : Arrive(m) \/ Confirm(m) \/ GiveUp(m)

Spec == Init /\ [][Next]_<<status, arrived, hurried>>
===============================================================================
