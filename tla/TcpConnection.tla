----------------------------- MODULE TcpConnection -----------------------------
(***************************************************************************)
(* The TCP of core/net/uip.c between two hosts, with core/net/tcpip.c, the *)
(* process that connects it to programs and runs its periodic timer, and   *)
(* programs that send through a protosocket (core/net/psock.c).  The       *)
(* network loses, reorders and duplicates segments.                        *)
(*                                                                         *)
(* uip_process() runs to its end for one segment, one poll or one          *)
(* connection's turn of the periodic timer: each case of its state switch  *)
(* is one action, in which the program is called and answers.  Counting    *)
(* down a timer is left out: a timer that runs may reach zero at any turn. *)
(* Numbers do not wrap.  Both ends are uIP: a FIN carries no data.         *)
(*                                                                         *)
(* The initial sequence number of a host grows by one at each turn of the  *)
(* periodic timer and not with connections.  What it grew by is added when *)
(* a connection takes it.  A late copy of a SYN may begin a connection of  *)
(* the server anew whose number is within the stream of the one before.    *)
(* The client uses a port once, so that its numbers are parameters.        *)
(***************************************************************************)
EXTENDS Naturals, FiniteSets, Sequences

CONSTANTS Client, Server,
          NumConns,     \* UIP_CONNS
          MaxPort,      \* bound: the connections that the client tries
          ToSend,       \* how many segments the program of each host sends on a connection
          DataLen,      \* the length of a data segment
          ClientIss,    \* the initial number of the client on each port
          ServerIss,    \* the first initial number of the server
          Turns,        \* bound: the turns of its periodic timer between two connections
          MaxRtx, MaxSynRtx,
          MaxInFlight,  \* bound: segments in the network
          MaxCopies,    \* bound: segments that the network duplicates
          Aborts, Exits \* whether programs call uip_abort(), and exit

Host == {Client, Server}
Port == 1..MaxPort
Slot == 1..NumConns

ASSUME HostAssumption == Client # Server
ASSUME SizeAssumption ==
  /\ NumConns \in Nat \ {0} /\ MaxPort \in Nat /\ MaxInFlight \in Nat /\ MaxCopies \in Nat
  /\ DataLen \in Nat \ {0} /\ MaxRtx \in Nat /\ MaxSynRtx \in 0..MaxRtx
  /\ ToSend \in [Host -> Nat]
ASSUME NumberAssumption == ClientIss \in [Port -> Nat] /\ ServerIss \in Nat /\ Turns \subseteq Nat
ASSUME ModeAssumption == Aborts \in BOOLEAN /\ Exits \in BOOLEAN

VARIABLES
  conn,      \* uip_conns of each host
  iss,       \* the initial number that the server used last
  reach,     \* history: a number no connection of the server on a port has come to
  apart,     \* history: no connection of the server began below its port's reach
  periodic,  \* whether the periodic timer of each host runs
  polls,     \* the TCP_POLL events that wait for the client's tcpip_process
  refused,   \* history: the entries whose TCP_POLL was refused; no timer was started since
  net,       \* the segments in the network
  copies,    \* how many segments the network has duplicated
  lastport,  \* the ports that the client has used
  gone,      \* the hosts whose program has exited
  app        \* the programs: for each connection what they know, sent and received

numbers == <<iss, reach, apart>>
vars == <<conn, numbers, periodic, polls, refused, net, copies, lastport, gone, app>>

Transient == {"SYN_SENT", "SYN_RCVD", "FIN_WAIT_1", "FIN_WAIT_2", "CLOSING", "TIME_WAIT", "LAST_ACK"}
State == Transient \cup {"CLOSED", "ESTABLISHED"}

\* appstate.p is kept in p: whether a process is attached.
Conn == [st : State, port : Port \cup {0}, snd : Nat, rcv : Nat, len : {0, 1, DataLen},
         nrtx : 0..MaxRtx, p : BOOLEAN]
Segment == [to : Host, port : Port, seq : Nat, ack : Nat,
            flags : SUBSET {"SYN", "ACK", "FIN", "RST"}, data : Nat]

\* What a program knows of a connection: not yet used, open, closed by itself, or reported
\* as closed, aborted or timed out.  acked counts segments, rcvd lists them.
Phase == {"unused", "open", "closed", "over"}

Peer(h) == IF h = Client THEN Server ELSE Client

\* An unused entry of uip_conns: of its fields only appstate is read before it is set.
Unused(p) == [st |-> "CLOSED", port |-> 0, snd |-> 0, rcv |-> 0, len |-> 0, nrtx |-> 0, p |-> p]
Closed(c) == Unused(c.p)

\* uip_init(), and the etimer_set() of tcpip_process.
Init ==
  /\ conn = [h \in Host |-> [i \in Slot |-> Unused(FALSE)]]
  /\ iss = ServerIss /\ reach = [q \in Port |-> 0] /\ apart = TRUE
  /\ periodic = [h \in Host |-> TRUE]
  /\ polls = {} /\ refused = {}
  /\ net = {}
  /\ copies = 0
  /\ lastport = 0
  /\ gone = {}
  /\ app = [h \in Host |-> [q \in Port |-> [phase |-> "unused", acked |-> 0, rcvd |-> <<>>]]]

--------------------------------------------------------------------------------
(* Segments and the network                                                     *)

\* The end of uip_process(): the numbers are those of the connection.
Segm(h, c, flags, data) ==
  [to |-> Peer(h), port |-> c.port, seq |-> c.snd, ack |-> c.rcv, flags |-> flags, data |-> data]

\* A RST is accepted whatever its numbers: they are left out.
Rst(h, port) ==
  [to |-> Peer(h), port |-> port, seq |-> 0, ack |-> 0, flags |-> {"RST", "ACK"}, data |-> 0]

Syn(h, c) == [Segm(h, c, {"SYN"}, 0) EXCEPT !.ack = 0]

\* left is the network without what was received; what is sent may be lost.
Send(left, out) ==
  \/ net' = left
  \/ out # {} /\ Cardinality(left \cup out) <= MaxInFlight /\ net' = left \cup out

\* A segment leaves the network, which may keep a copy of it.
Leaves(s, left) ==
  \/ left = net \ {s} /\ UNCHANGED copies
  \/ copies < MaxCopies /\ left = net /\ copies' = copies + 1
Left(s) == {net \ {s}, net}

--------------------------------------------------------------------------------
(* Calls of the program: UIP_APPCALL() is tcpip_uipcall(), which does nothing   *)
(* when no process is attached.                                                 *)

Got(rcvd, data) == IF data = 0 THEN rcvd ELSE Append(rcvd, data)

Hears(e, data, acked) == [e EXCEPT !.acked = IF acked THEN @ + 1 ELSE @, !.rcvd = Got(@, data)]
Ends(e, acked) == [e EXCEPT !.phase = "over", !.acked = IF acked THEN @ + 1 ELSE @]

Told(h, c, data, acked) ==
  IF ~c.p THEN app ELSE [app EXCEPT ![h][c.port] = Hears(@, data, acked)]

ToldConnected(h, c, data) ==
  IF ~c.p THEN app
  ELSE [app EXCEPT ![h][c.port] = [phase |-> "open", acked |-> 0, rcvd |-> Got(<<>>, data)]]

\* UIP_CLOSE, UIP_ABORT or UIP_TIMEDOUT.
ToldEnd(h, c, acked) ==
  IF ~c.p THEN app ELSE [app EXCEPT ![h][c.port] = Ends(@, acked)]

\* appsend: what the program answers, and what the connection makes of it.  A program with
\* a protosocket waits until its data is acknowledged before it sends or closes.  answer
\* tells whether a bare acknowledgement is due, told is app after the call.
AppSend(h, i, c0, answer, told, left) ==
  LET c == [c0 EXCEPT !.nrtx = 0]
      become(d, out, a) == /\ conn' = [conn EXCEPT ![h][i] = d]
                           /\ Send(left, out)
                           /\ app' = a
      ready == c.p /\ c.len = 0
      a == told[h][c.port]
      closing == [c EXCEPT !.len = 1, !.st = "FIN_WAIT_1"]
      sending == [c EXCEPT !.len = DataLen]
  IN \/ become(c, IF answer THEN {Segm(h, c, {"ACK"}, 0)} ELSE {}, told)
     \/ /\ ready /\ a.acked < ToSend[h]
        /\ become(sending, {Segm(h, sending, {"ACK"}, a.acked + 1)}, told)
     \/ /\ ready
        /\ become(closing, {Segm(h, closing, {"FIN", "ACK"}, 0)},
                  [told EXCEPT ![h][c.port].phase = "closed"])
     \/ /\ Aborts /\ c.p
        /\ become(Closed(c), {Rst(h, c.port)}, [told EXCEPT ![h][c.port].phase = "closed"])

--------------------------------------------------------------------------------
(* Opening                                                                      *)

\* The entry that a new connection takes: an unused one, else one in TIME_WAIT.
Free(h) ==
  LET in(st) == {i \in Slot : conn[h][i].st = st}
  IN IF in("CLOSED") # {} THEN {i \in in("CLOSED") : \A j \in in("CLOSED") : i <= j}
     ELSE in("TIME_WAIT")

\* tcpip_poll_tcp(): process_post() refuses the TCP_POLL when the event queue is full, and
\* nobody asks.
Poll(i) ==
  \/ polls' = polls \cup {i} /\ refused' = refused \ {i}
  \/ UNCHANGED polls
     /\ refused' = IF periodic[Client] \/ i \in polls THEN refused \ {i} ELSE refused \cup {i}

\* The periodic timer is restarted if it does not run.
StartTimer(h) ==
  /\ periodic' = [periodic EXCEPT ![h] = TRUE]
  /\ refused' = IF h = Client THEN {} ELSE refused

\* tcp_connect(): uip_connect(), and a TCP_POLL for tcpip_process.
tcp_connect ==
  /\ lastport < MaxPort /\ Client \notin gone
  /\ lastport' = lastport + 1
  /\ \E i \in Free(Client) :
       /\ conn' = [conn EXCEPT ![Client][i] =
                     [st |-> "SYN_SENT", port |-> lastport', snd |-> ClientIss[lastport'], rcv |-> 0,
                      len |-> 1, nrtx |-> 0, p |-> TRUE]]
       /\ Poll(i)
  /\ app' = [app EXCEPT ![Client][lastport'].phase = "open"]
  /\ UNCHANGED <<numbers, periodic, net, copies, gone>>

\* TCP_POLL: a connection that is not established is not polled, and the periodic timer
\* is started.
PollEvent(i) ==
  /\ i \in polls
  /\ polls' = polls \ {i} /\ StartTimer(Client)
  /\ IF conn[Client][i].st = "ESTABLISHED" /\ conn[Client][i].len = 0
     THEN AppSend(Client, i, conn[Client][i], FALSE, app, net)
     ELSE UNCHANGED <<conn, net, app>>
  /\ UNCHANGED <<numbers, copies, lastport, gone>>

\* A connection of the server on port q begins with number x.
Begins(q, x) ==
  /\ iss' = x
  /\ apart' = (apart /\ reach[q] <= x)
  /\ reach' = [reach EXCEPT ![q] = x + DataLen * ToSend[Server] + 2]

\* uip_process() for a segment of no connection.  A SYN to a port that is listened to gets
\* an entry, or none is free; the program is not told, nor the periodic timer started.
InputUnknown(h, s, left) ==
  /\ s.to = h /\ Leaves(s, left) /\ \A i \in Slot : conn[h][i].st = "CLOSED" \/ conn[h][i].port # s.port
  /\ IF s.flags = {"SYN"} /\ h = Server /\ Server \notin gone
     THEN IF Free(h) = {} THEN net' = left /\ UNCHANGED <<conn, numbers>>
          ELSE \E i \in Free(h), n \in Turns :
                 LET c == [st |-> "SYN_RCVD", port |-> s.port, snd |-> iss + n, rcv |-> s.seq + 1,
                           len |-> 1, nrtx |-> 0, p |-> conn[h][i].p]
                 IN /\ conn' = [conn EXCEPT ![h][i] = c]
                    /\ Begins(s.port, iss + n)
                    /\ Send(left, {Segm(h, c, {"SYN", "ACK"}, 0)})
     ELSE /\ Send(left, IF "RST" \in s.flags THEN {} ELSE {Rst(h, s.port)})
          /\ UNCHANGED <<conn, numbers>>
  /\ UNCHANGED <<periodic, polls, refused, lastport, app, gone>>

--------------------------------------------------------------------------------
(* Input for a connection                                                       *)

Receives(h, i, s, left) ==
  /\ s \in net /\ s.to = h /\ Leaves(s, left)
  /\ conn[h][i].st # "CLOSED" /\ conn[h][i].port = s.port

\* The sequence number of what takes room in the stream is the one expected.  In
\* SYN_SENT nothing is expected of a SYN|ACK.
ExpectedData(c, s) ==
  c.st = "SYN_SENT" \/ s.flags \cap {"SYN", "FIN"} = {} \/ s.seq = c.rcv
Expected(c, s) ==
  \/ c.st = "SYN_SENT" /\ s.flags = {"SYN", "ACK"}
  \/ s.data = 0 /\ s.flags \cap {"SYN", "FIN"} = {}
  \/ s.seq = c.rcv

\* UIP_ACKDATA: all that is outstanding is acknowledged.
AcksPart(c, s) == "ACK" \in s.flags /\ c.len > 0 /\ s.ack >= c.snd
Acks(c, s) == "ACK" \in s.flags /\ c.len > 0 /\ s.ack = c.snd + c.len
AckedInPlace(c, s) == IF Acks(c, s) THEN [c EXCEPT !.len = 0] ELSE c
Acked(c, s) == IF Acks(c, s) THEN [c EXCEPT !.snd = @ + c.len, !.len = 0] ELSE c

\* Its length, without FIN.
Length(s) == IF s.data = 0 THEN 0 ELSE DataLen

Become(h, i, c, left, out) == conn' = [conn EXCEPT ![h][i] = c] /\ Send(left, out)
AckOf(h, c) == {Segm(h, c, {"ACK"}, 0)}

\* Any RST closes the connection.
ResetUnreported(h, i, s, left) ==
  /\ Receives(h, i, s, left) /\ "RST" \in s.flags
  /\ Become(h, i, Closed(conn[h][i]), left, {})
  /\ UNCHANGED <<numbers, periodic, polls, refused, lastport, app, gone>>
InputReset(h, i, s, left) ==
  /\ Receives(h, i, s, left) /\ "RST" \in s.flags
  /\ Become(h, i, Closed(conn[h][i]), left, {})
  /\ app' = ToldEnd(h, conn[h][i], FALSE)
  /\ UNCHANGED <<numbers, periodic, polls, refused, lastport, gone>>

InputUnexpected(h, i, s, left) ==
  /\ Receives(h, i, s, left) /\ "RST" \notin s.flags /\ ~Expected(conn[h][i], s)
  /\ Send(left, AckOf(h, conn[h][i]))
  /\ UNCHANGED <<conn, numbers, periodic, polls, refused, lastport, app, gone>>

Accepts(h, i, s, left, st) ==
  /\ Receives(h, i, s, left) /\ "RST" \notin s.flags /\ Expected(conn[h][i], s)
  /\ conn[h][i].st = st

\* uip_connected(): a listening process gets the connection, and the periodic timer runs.
Attached(h, c) == IF h = Server /\ Server \notin gone THEN [c EXCEPT !.p = TRUE] ELSE c

InputSynRcvd(h, i, s, left) ==
  /\ Accepts(h, i, s, left, "SYN_RCVD")
  /\ LET c == Acked(conn[h][i], s)
         d == Attached(h, [c EXCEPT !.st = "ESTABLISHED", !.rcv = @ + Length(s)])
     IN IF Acks(conn[h][i], s)
        THEN AppSend(h, i, d, s.data # 0, ToldConnected(h, d, s.data), left) /\ StartTimer(h)
        ELSE net' = left /\ UNCHANGED <<conn, periodic, refused, app>>
  /\ UNCHANGED <<numbers, polls, lastport, gone>>

InputSynSent(h, i, s, left) ==
  /\ Accepts(h, i, s, left, "SYN_SENT")
  /\ LET c == Acked(conn[h][i], s)
         d == [c EXCEPT !.st = "ESTABLISHED", !.rcv = s.seq + 1]
     IN IF Acks(conn[h][i], s) /\ s.flags = {"SYN", "ACK"}
        THEN AppSend(h, i, d, TRUE, ToldConnected(h, d, 0), left) /\ StartTimer(h)
        ELSE /\ Become(h, i, Closed(c), left, {Rst(h, s.port)})
             /\ app' = ToldEnd(h, c, FALSE)
             /\ UNCHANGED <<periodic, refused>>
  /\ UNCHANGED <<numbers, polls, lastport, gone>>

\* Data and acknowledgements of an established connection.
InputEstablished(h, i, s, left) ==
  /\ Accepts(h, i, s, left, "ESTABLISHED") /\ "FIN" \notin s.flags
  /\ LET acks == Acks(conn[h][i], s)
         c == [Acked(conn[h][i], s) EXCEPT !.rcv = @ + Length(s)]
     IN IF acks \/ s.data # 0
        THEN AppSend(h, i, c, s.data # 0, Told(h, c, s.data, acks), left)
        ELSE Become(h, i, c, left, {}) /\ UNCHANGED app
  /\ UNCHANGED <<numbers, periodic, polls, refused, lastport, gone>>

\* A FIN is not taken while data is outstanding; the connection is closed from here too.
InputFin(h, i, s, left) ==
  /\ Accepts(h, i, s, left, "ESTABLISHED") /\ "FIN" \in s.flags
  /\ LET c == Acked(conn[h][i], s)
         d == [c EXCEPT !.rcv = @ + 1, !.len = 1, !.st = "LAST_ACK", !.nrtx = 0]
     IN IF c.len > 0
        THEN net' = left /\ UNCHANGED <<conn, app>>
        ELSE /\ Become(h, i, d, left, {Segm(h, d, {"FIN", "ACK"}, 0)})
             /\ app' = ToldEnd(h, c, Acks(conn[h][i], s))
  /\ UNCHANGED <<numbers, periodic, polls, refused, lastport, gone>>

InputLastAck(h, i, s, left) ==
  /\ Accepts(h, i, s, left, "LAST_ACK")
  /\ LET c == Acked(conn[h][i], s)
     IN IF Acks(conn[h][i], s)
        THEN Become(h, i, Closed(c), left, {}) /\ app' = ToldEnd(h, c, FALSE)
        ELSE net' = left /\ UNCHANGED <<conn, app>>
  /\ UNCHANGED <<numbers, periodic, polls, refused, lastport, gone>>

\* FIN_WAIT_1: what still arrives is acknowledged and not given to the program.
InputFinWait1(h, i, s, left) ==
  /\ Accepts(h, i, s, left, "FIN_WAIT_1")
  /\ LET acks == Acks(conn[h][i], s)
         c == [Acked(conn[h][i], s) EXCEPT !.rcv = @ + Length(s)]
         d == [c EXCEPT !.rcv = @ + 1, !.st = IF acks THEN "TIME_WAIT" ELSE "CLOSING"]
     IN \/ /\ "FIN" \in s.flags
           /\ Become(h, i, d, left, AckOf(h, d))
           /\ app' = ToldEnd(h, d, FALSE)
        \/ /\ "FIN" \notin s.flags /\ acks
           /\ Become(h, i, [c EXCEPT !.st = "FIN_WAIT_2"], left, {})
           /\ UNCHANGED app
        \/ /\ "FIN" \notin s.flags /\ ~acks
           /\ Become(h, i, c, left, IF s.data # 0 THEN AckOf(h, c) ELSE {})
           /\ UNCHANGED app
  /\ UNCHANGED <<numbers, periodic, polls, refused, lastport, gone>>

InputFinWait2(h, i, s, left) ==
  /\ Accepts(h, i, s, left, "FIN_WAIT_2")
  /\ LET c == [conn[h][i] EXCEPT !.rcv = @ + Length(s)]
         d == [c EXCEPT !.rcv = @ + 1, !.st = "TIME_WAIT"]
     IN IF "FIN" \in s.flags
        THEN Become(h, i, d, left, AckOf(h, d)) /\ app' = ToldEnd(h, d, FALSE)
        ELSE /\ Become(h, i, c, left, IF s.data # 0 THEN AckOf(h, c) ELSE {})
             /\ UNCHANGED app
  /\ UNCHANGED <<numbers, periodic, polls, refused, lastport, gone>>

\* TIME_WAIT answers every segment; CLOSING waits for the acknowledgement of its FIN.
InputTimeWait(h, i, s, left) ==
  /\ Accepts(h, i, s, left, "TIME_WAIT")
  /\ LET c == Acked(conn[h][i], s) IN Become(h, i, c, left, AckOf(h, c))
  /\ UNCHANGED <<numbers, periodic, polls, refused, lastport, app, gone>>

InputClosing(h, i, s, left) ==
  /\ Accepts(h, i, s, left, "CLOSING")
  /\ LET c == Acked(conn[h][i], s)
     IN Become(h, i, IF Acks(conn[h][i], s) THEN [c EXCEPT !.st = "TIME_WAIT"] ELSE c, left, {})
  /\ UNCHANGED <<numbers, periodic, polls, refused, lastport, app, gone>>

Input(h) ==
  \E i \in Slot, s \in net : \E left \in Left(s) :
    \/ InputReset(h, i, s, left)      \/ InputUnexpected(h, i, s, left)
    \/ InputSynRcvd(h, i, s, left)    \/ InputSynSent(h, i, s, left)
    \/ InputEstablished(h, i, s, left) \/ InputFin(h, i, s, left)
    \/ InputLastAck(h, i, s, left)    \/ InputFinWait1(h, i, s, left)
    \/ InputFinWait2(h, i, s, left)   \/ InputTimeWait(h, i, s, left)
    \/ InputClosing(h, i, s, left)

--------------------------------------------------------------------------------
(* The periodic timer                                                           *)

\* UIP_TIMER for one connection.  A round handles all active connections in turn and
\* restarts the timer; rounds in which only one of them does something are enough.

\* TIME_WAIT and FIN_WAIT_2 end by time alone.
OnlyTimeWaitIsOver(h, i) ==
  /\ periodic[h] /\ conn[h][i].st = "TIME_WAIT"
  /\ conn' = [conn EXCEPT ![h][i] = Closed(@)]
  /\ UNCHANGED <<numbers, periodic, polls, refused, net, copies, lastport, app, gone>>
WaitIsOver(h, i) ==
  /\ periodic[h] /\ conn[h][i].st \in {"TIME_WAIT", "FIN_WAIT_2"}
  /\ conn' = [conn EXCEPT ![h][i] = Closed(@)]
  /\ UNCHANGED <<numbers, periodic, polls, refused, net, copies, lastport, app, gone>>

\* What is outstanding is sent again, or given up.
GivesUpLate(c) == c.nrtx > MaxRtx \/ (c.st \in {"SYN_SENT", "SYN_RCVD"} /\ c.nrtx > MaxSynRtx)
GivesUp(c) == c.nrtx = MaxRtx \/ (c.st \in {"SYN_SENT", "SYN_RCVD"} /\ c.nrtx = MaxSynRtx)

Again(h, c) ==
  CASE c.st = "SYN_RCVD" -> {Segm(h, c, {"SYN", "ACK"}, 0)}
    [] c.st = "SYN_SENT" -> {Syn(h, c)}
    [] c.st = "ESTABLISHED" -> IF c.p THEN {Segm(h, c, {"ACK"}, app[h][c.port].acked + 1)} ELSE {}
    [] OTHER -> {Segm(h, c, {"FIN", "ACK"}, 0)}

Retransmit(h, i) ==
  /\ periodic[h]
  /\ conn[h][i].st \notin {"CLOSED", "TIME_WAIT", "FIN_WAIT_2"} /\ conn[h][i].len > 0
  /\ LET c == conn[h][i]
     IN IF GivesUp(c)
        THEN /\ Become(h, i, Closed(c), net, {Rst(h, c.port)})
             /\ app' = ToldEnd(h, c, FALSE)
        ELSE /\ Become(h, i, [c EXCEPT !.nrtx = @ + 1], net, Again(h, c))
             /\ UNCHANGED app
  /\ UNCHANGED <<numbers, periodic, polls, refused, copies, lastport, gone>>

\* An established connection with nothing outstanding is polled.
PeriodicPoll(h, i) ==
  /\ periodic[h] /\ conn[h][i].st = "ESTABLISHED" /\ conn[h][i].len = 0
  /\ AppSend(h, i, conn[h][i], FALSE, app, net)
  /\ UNCHANGED <<numbers, periodic, polls, refused, copies, lastport, gone>>

\* A round that finds no active connection does not restart the timer.
PeriodicEndsEarly(h) ==
  /\ periodic[h] /\ \A i \in Slot : conn[h][i].st # "ESTABLISHED"
  /\ periodic' = [periodic EXCEPT ![h] = FALSE]
  /\ UNCHANGED <<conn, numbers, polls, refused, net, copies, lastport, app, gone>>
PeriodicEnds(h) ==
  /\ periodic[h] /\ \A i \in Slot : conn[h][i].st = "CLOSED"
  /\ periodic' = [periodic EXCEPT ![h] = FALSE]
  /\ UNCHANGED <<conn, numbers, polls, refused, net, copies, lastport, app, gone>>

--------------------------------------------------------------------------------
\* PROCESS_EVENT_EXITED: connections of the process are closed without a word to the peer.
ProcessExits(h) ==
  /\ Exits /\ h \notin gone
  /\ gone' = gone \cup {h}
  /\ conn' = [conn EXCEPT ![h] = [i \in Slot |-> IF @[i].p THEN Unused(FALSE) ELSE @[i]]]
  /\ app' = [app EXCEPT ![h] = [q \in Port |-> [@[q] EXCEPT !.phase = "over"]]]
  /\ UNCHANGED <<numbers, periodic, polls, refused, net, copies, lastport>>

Next ==
  \/ tcp_connect
  \/ \E i \in Slot : PollEvent(i)
  \/ \E h \in Host, s \in net : \E left \in Left(s) : InputUnknown(h, s, left)
  \/ \E h \in Host : Input(h) \/ PeriodicEnds(h) \/ ProcessExits(h)
  \/ \E h \in Host, i \in Slot : WaitIsOver(h, i) \/ Retransmit(h, i) \/ PeriodicPoll(h, i)

\* While the periodic timer runs every connection's timer counts, and events are handled.
\* Nothing is assumed of the network.
Fairness ==
  /\ \A i \in Slot : WF_vars(PollEvent(i))
  /\ \A h \in Host, i \in Slot : WF_vars(WaitIsOver(h, i)) /\ WF_vars(Retransmit(h, i))

Spec == Init /\ [][Next]_vars
FairSpec == Spec /\ Fairness

--------------------------------------------------------------------------------
TypeOK ==
  /\ conn \in [Host -> [Slot -> Conn]]
  /\ iss \in Nat /\ reach \in [Port -> Nat] /\ apart \in BOOLEAN
  /\ periodic \in [Host -> BOOLEAN] /\ polls \subseteq Slot /\ refused \subseteq Slot
  /\ net \subseteq Segment /\ Cardinality(net) <= MaxInFlight /\ copies \in 0..MaxCopies
  /\ lastport \in 0..MaxPort /\ gone \subseteq Host
  /\ app \in [Host -> [Port -> [phase : Phase, acked : Nat, rcvd : Seq(Nat)]]]

\* A program receives what the other sends, in order, each segment once, whatever the
\* network loses, repeats and reorders (uip.c: rcv_nxt), as long as the server began no
\* connection with a number that an earlier one on the same port may have come to.
StreamIntact ==
  apart => \A h \in Host, q \in Port :
    LET r == app[h][q].rcvd
    IN Len(r) <= ToSend[Peer(h)] /\ \A k \in DOMAIN r : r[k] = k

\* What a program is told is acknowledged was given to the program of the other host,
\* unless that one had closed the connection itself, or exited (uip.c: UIP_ACKDATA; in
\* FIN_WAIT_1 and FIN_WAIT_2 data is acknowledged without a reader), as long as the
\* server began no connection within the numbers of an earlier one on the same port.
AckedWasDelivered ==
  apart => \A h \in Host, q \in Port :
    LET other == app[Peer(h)][q]
    IN app[h][q].acked <= Len(other.rcvd) \/ other.phase \in {"closed", "over"}

\* A program that takes a connection for open has an entry of uip_conns for it: every
\* way a connection ends is reported (uip.c, tcpip_uipcall()).
OpenIsConnected ==
  \A h \in Host, q \in Port :
    app[h][q].phase = "open" =>
      \E i \in Slot : conn[h][i].port = q /\ conn[h][i].p
                      /\ conn[h][i].st \in {"SYN_SENT", "SYN_RCVD", "ESTABLISHED"}

\* Two ends that have both seen the other's SYN agree on the numbers: what one expects is
\* what the other sends next or has outstanding, as long as the server began no connection
\* within the numbers of an earlier one on the same port.
NumbersAgree ==
  apart => \A i, j \in Slot :
    LET c == conn[Client][i]  d == conn[Server][j]
        synchronised == State \ {"CLOSED", "SYN_SENT", "SYN_RCVD"}
    IN c.port = d.port /\ c.st \in synchronised /\ d.st \in synchronised =>
         d.rcv \in {c.snd, c.snd + c.len} /\ c.rcv \in {d.snd, d.snd + d.len}

\* The periodic timer runs on a host with a connection past its handshake, or a TCP_POLL
\* that will start it waits (tcpip.c: the timer is only restarted by its own rounds), unless the
\* event queue was full when the connection was asked for and no timer was started since.
TimerCovers ==
  \A h \in Host, i \in Slot :
    conn[h][i].st \notin {"CLOSED", "SYN_RCVD"} =>
      periodic[h] \/ (h = Client /\ i \in polls \cup refused)

\* A connection does not stay in a state that only waits, except SYN_RCVD: it becomes
\* established or its entry is freed, even if the other host is silent, unless the event
\* queue refuses its TCP_POLL.
WaitingEnds ==
  \A h \in Host, i \in Slot :
    conn[h][i].st \in Transient \ {"SYN_RCVD"} ~>
      \/ conn[h][i].st \in {"CLOSED", "ESTABLISHED", "SYN_RCVD"}
      \/ h = Client /\ i \in refused

\* The same for SYN_RCVD (uip.c: "In SYN_RCVD, we resend the SYNACK").
HandshakeEnds ==
  \A i \in Slot : (conn[Server][i].st = "SYN_RCVD") ~> (conn[Server][i].st # "SYN_RCVD")

\* A request for a connection fails only when all retransmissions of the SYN were made or
\* the other host sent a RST (uipopt.h: UIP_MAXSYNRTX).
RequestsAreRepeated ==
  [][\A i \in Slot :
       conn[Client][i].st = "SYN_SENT" /\ conn'[Client][i].st = "CLOSED" /\ Client \notin gone' =>
         \/ conn[Client][i].nrtx >= MaxSynRtx
         \/ \E s \in net : s.to = Client /\ "RST" \in s.flags]_vars
================================================================================
