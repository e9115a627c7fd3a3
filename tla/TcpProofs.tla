------------------------------- MODULE TcpProofs -------------------------------
(***************************************************************************)
(* Theorems about TCP connections, for any number of connections, ports,   *)
(* segments and retransmissions, and whatever the network loses, repeats   *)
(* and reorders.                                                           *)
(*                                                                         *)
(* The second half is about the streams: what one program sends is what    *)
(* the other receives.  A port of the client is used for one connection;   *)
(* the server may come to have several for it, one after the other, from   *)
(* SYNs that were repeated.  T is the set of ports for which the client    *)
(* has taken a SYN|ACK, and b the initial sequence numbers that it took:   *)
(* only the connection of the server that began with this number ever      *)
(* leaves its handshake.                                                   *)
(***************************************************************************)
EXTENDS TcpConnection, FiniteSetTheorems, SequenceTheorems, TLAPS

--------------------------------------------------------------------------------
(* The invariant: types, the ports of connections, and the two properties.      *)

Apps == [Host -> [Port -> [phase : Phase, acked : Nat, rcvd : Seq(Nat)]]]

NetOK(n) == n \subseteq Segment /\ IsFiniteSet(n) /\ Cardinality(n) <= MaxInFlight

\* A connection that is not closed has a port.
PortOK(c) == c.st # "CLOSED" => c.port \in Port

ConnOK == \A h \in Host, i \in Slot : PortOK(conn[h][i])

NumbersOK == iss \in Nat /\ reach \in [Port -> Nat] /\ apart \in BOOLEAN

Typed ==
  /\ conn \in [Host -> [Slot -> Conn]] /\ ConnOK
  /\ periodic \in [Host -> BOOLEAN] /\ polls \subseteq Slot /\ refused \subseteq Slot
  /\ lastport \in 0..MaxPort /\ NetOK(net) /\ copies \in 0..MaxCopies /\ NumbersOK
  /\ gone \subseteq Host /\ app \in Apps

\* The entries of the client that a TCP_POLL is queued for, or was refused.
Awaiting == polls \cup refused

IsOpen(c) == c.p /\ c.st \in {"SYN_SENT", "SYN_RCVD", "ESTABLISHED"}

\* What a step that sets entry i of host h to d must do for the two properties: a connection
\* that leaves its handshake has its timer, and one that ends is reported.
Covered(h, i, d) ==
  d.st \notin {"CLOSED", "SYN_RCVD"} =>
    conn[h][i].st \notin {"CLOSED", "SYN_RCVD"} \/ periodic'[h] \/ (h = Client /\ i \in Awaiting')

Reported(h, i, d, a) ==
  \A k \in Host, q \in Port :
    a[k][q].phase = "open" =>
      \/ k = h /\ IsOpen(d) /\ d.port = q
      \/ app[k][q].phase = "open" /\ ~(k = h /\ IsOpen(conn[h][i]) /\ conn[h][i].port = q)

Edits(h, i) ==
  \E d \in Conn :
    /\ conn' = [conn EXCEPT ![h][i] = d]
    /\ PortOK(d) /\ Covered(h, i, d) /\ Reported(h, i, d, app')

\* No step but the end of a round stops the periodic timer, and a TCP_POLL starts it.
TimerKept ==
  /\ \A k \in Host : periodic[k] => periodic'[k]
  /\ Awaiting \subseteq Awaiting' \/ periodic'[Client]

--------------------------------------------------------------------------------
(* Hosts, segments and the network.                                             *)

LEMMA HostFacts == Client \in Host /\ Server \in Host /\ \A h \in Host : Peer(h) \in Host
  BY DEF Host, Peer

LEMMA PeerFacts == \A h \in Host : Peer(h) # h /\ Peer(Peer(h)) = h
  BY HostAssumption DEF Host, Peer

LEMMA SegmentTyped ==
  ASSUME NEW h \in Host, NEW c \in Conn, c.port \in Port, NEW data \in Nat,
         NEW flags \in SUBSET {"SYN", "ACK", "FIN", "RST"}
  PROVE  Segm(h, c, flags, data) \in Segment
<1>1. c.snd \in Nat /\ c.rcv \in Nat
  BY DEF Conn
<1> QED
  BY <1>1, HostFacts DEF Segm, Segment

LEMMA RstTyped == \A h \in Host, q \in Port : Rst(h, q) \in Segment
  BY HostFacts DEF Rst, Segment

LEMMA SynTyped ==
  ASSUME NEW h \in Host, NEW c \in Conn, c.port \in Port
  PROVE  Syn(h, c) \in Segment
<1>1. Segm(h, c, {"SYN"}, 0) \in Segment
  BY SegmentTyped
<1> QED
  BY <1>1 DEF Syn, Segment

\* What is sent, at most one segment, keeps the bound of the network.
LEMMA SendKeeps ==
  ASSUME NEW left, NetOK(left), NEW out \in SUBSET Segment, IsFiniteSet(out), Send(left, out)
  PROVE  NetOK(net')
<1>1. IsFiniteSet(left \cup out)
  BY FS_Union DEF NetOK
<1> QED
  BY <1>1 DEF Send, NetOK

LEMMA SendOne ==
  ASSUME NEW left, NetOK(left), NEW s \in Segment, Send(left, {s})
  PROVE  NetOK(net')
  BY SendKeeps, FS_Singleton

LEMMA SendNone ==
  ASSUME NEW left, NetOK(left), Send(left, {})
  PROVE  NetOK(net')
  BY DEF Send

LEMMA LeavesKeeps ==
  ASSUME NetOK(net), copies \in 0..MaxCopies, NEW s \in net, NEW left, Leaves(s, left)
  PROVE  NetOK(left) /\ copies' \in 0..MaxCopies /\ s \in Segment
<1>1. IsFiniteSet(net \ {s}) /\ Cardinality(net \ {s}) <= Cardinality(net)
  BY FS_Subset DEF NetOK
<1>2. Cardinality(net) \in Nat /\ Cardinality(net \ {s}) \in Nat
  BY <1>1, FS_CardinalityType DEF NetOK
<1> QED
  BY <1>1, <1>2, SizeAssumption DEF NetOK, Leaves

--------------------------------------------------------------------------------
(* Calls of the program.                                                        *)

LEMMA EntryTyped ==
  ASSUME NEW e \in [phase : Phase, acked : Nat, rcvd : Seq(Nat)],
         NEW data \in Nat, NEW acked \in BOOLEAN
  PROVE  /\ Hears(e, data, acked) \in [phase : Phase, acked : Nat, rcvd : Seq(Nat)]
         /\ Ends(e, acked) \in [phase : Phase, acked : Nat, rcvd : Seq(Nat)]
         /\ Got(<<>>, data) \in Seq(Nat)
         /\ Hears(e, data, acked).phase = e.phase /\ Ends(e, acked).phase = "over"
<1>1. \A r \in Seq(Nat) : Got(r, data) \in Seq(Nat)
  BY AppendProperties DEF Got
<1>2. <<>> \in Seq(Nat)
  BY EmptySeq
<1> DEFINE n == IF acked THEN e.acked + 1 ELSE e.acked
           r == Got(e.rcvd, data)
<1>3. n \in Nat /\ r \in Seq(Nat) /\ "over" \in Phase
  BY <1>1 DEF Phase
<1>4. Hears(e, data, acked) = [e EXCEPT !.acked = n, !.rcvd = r]
  BY DEF Hears
<1>5. Ends(e, acked) = [e EXCEPT !.phase = "over", !.acked = n]
  BY DEF Ends
<1> HIDE DEF n, r
<1>6. Hears(e, data, acked) = [phase |-> e.phase, acked |-> n, rcvd |-> r]
  BY <1>4
<1>7. Ends(e, acked) = [phase |-> "over", acked |-> n, rcvd |-> e.rcvd]
  BY <1>5
<1>8. e.phase \in Phase /\ e.rcvd \in Seq(Nat)
  OBVIOUS
<1>9. /\ Hears(e, data, acked) \in [phase : Phase, acked : Nat, rcvd : Seq(Nat)]
      /\ Hears(e, data, acked).phase = e.phase
  BY <1>3, <1>6, <1>8
<1>10. /\ Ends(e, acked) \in [phase : Phase, acked : Nat, rcvd : Seq(Nat)]
       /\ Ends(e, acked).phase = "over"
  BY <1>3, <1>7, <1>8
<1>11. Got(<<>>, data) \in Seq(Nat)
  BY <1>1, <1>2
<1> QED
  BY <1>9, <1>10, <1>11

LEMMA AppsUpdate ==
  ASSUME NEW a \in Apps, NEW h \in Host, NEW q \in Port,
         NEW e \in [phase : Phase, acked : Nat, rcvd : Seq(Nat)]
  PROVE  [a EXCEPT ![h][q] = e] \in Apps
<1>1. [a[h] EXCEPT ![q] = e] \in [Port -> [phase : Phase, acked : Nat, rcvd : Seq(Nat)]]
  BY DEF Apps
<1> QED
  BY <1>1 DEF Apps

LEMMA ToldTyped ==
  ASSUME app \in Apps, NEW h \in Host, NEW c \in Conn, c.port \in Port,
         NEW data \in Nat, NEW acked \in BOOLEAN
  PROVE  /\ Told(h, c, data, acked) \in Apps
         /\ ToldConnected(h, c, data) \in Apps
         /\ ToldEnd(h, c, acked) \in Apps
<1>1. app[h][c.port] \in [phase : Phase, acked : Nat, rcvd : Seq(Nat)]
  BY DEF Apps
<1>2. Told(h, c, data, acked) \in Apps
  BY <1>1, EntryTyped, AppsUpdate DEF Told
<1>3. [phase |-> "open", acked |-> 0, rcvd |-> Got(<<>>, data)]
        \in [phase : Phase, acked : Nat, rcvd : Seq(Nat)]
  BY <1>1, EntryTyped DEF Phase
<1>4. ToldConnected(h, c, data) \in Apps
  BY <1>3, AppsUpdate DEF ToldConnected
<1>5. ToldEnd(h, c, acked) \in Apps
  BY <1>1, EntryTyped, AppsUpdate DEF ToldEnd
<1> QED
  BY <1>2, <1>4, <1>5

\* The phases after a call.
LEMMA ToldPhases ==
  ASSUME app \in Apps, NEW h \in Host, NEW c \in Conn, c.port \in Port,
         NEW data \in Nat, NEW acked \in BOOLEAN, NEW k \in Host, NEW q \in Port
  PROVE  /\ Told(h, c, data, acked)[k][q].phase = app[k][q].phase
         /\ ToldConnected(h, c, data)[k][q].phase
              = IF c.p /\ k = h /\ q = c.port THEN "open" ELSE app[k][q].phase
         /\ ToldEnd(h, c, acked)[k][q].phase
              = IF c.p /\ k = h /\ q = c.port THEN "over" ELSE app[k][q].phase
<1>1. app[h][c.port] \in [phase : Phase, acked : Nat, rcvd : Seq(Nat)]
  BY DEF Apps
<1>2. ASSUME NEW e PROVE [app EXCEPT ![h][c.port] = e][k][q]
                           = IF k = h /\ q = c.port THEN e ELSE app[k][q]
  BY DEF Apps
<1>3. /\ Hears(app[h][c.port], data, acked).phase = app[h][c.port].phase
      /\ Ends(app[h][c.port], acked).phase = "over"
  BY <1>1, EntryTyped, ZenonT(60)
<1>4. Told(h, c, data, acked)[k][q].phase = app[k][q].phase
  <2> DEFINE e == Hears(app[h][c.port], data, acked)
  <2>1. Told(h, c, data, acked) = IF ~c.p THEN app ELSE [app EXCEPT ![h][c.port] = e]
    BY DEF Told
  <2> HIDE DEF e
  <2>2. [app EXCEPT ![h][c.port] = e][k][q] = IF k = h /\ q = c.port THEN e ELSE app[k][q]
    BY <1>2
  <2>3. e.phase = app[h][c.port].phase
    BY <1>3 DEF e
  <2> QED BY <2>1, <2>2, <2>3
<1>5. ToldConnected(h, c, data)[k][q].phase
        = IF c.p /\ k = h /\ q = c.port THEN "open" ELSE app[k][q].phase
  BY <1>2 DEF ToldConnected
<1>6. ToldEnd(h, c, acked)[k][q].phase
        = IF c.p /\ k = h /\ q = c.port THEN "over" ELSE app[k][q].phase
  <2> DEFINE e == Ends(app[h][c.port], acked)
  <2>1. ToldEnd(h, c, acked) = IF ~c.p THEN app ELSE [app EXCEPT ![h][c.port] = e]
    BY DEF ToldEnd
  <2> HIDE DEF e
  <2>2. [app EXCEPT ![h][c.port] = e][k][q] = IF k = h /\ q = c.port THEN e ELSE app[k][q]
    BY <1>2
  <2>3. e.phase = "over"
    BY <1>3 DEF e
  <2> QED BY <2>1, <2>2, <2>3
<1> QED
  BY <1>4, <1>5, <1>6

\* What a program answers keeps the invariant's parts, once they hold of what it is told.
LEMMA AppSendEdits ==
  ASSUME Typed, NEW h \in Host, NEW i \in Slot, NEW c0 \in Conn, NEW answer, NEW told \in Apps,
         NEW left, NetOK(left), c0.st = "ESTABLISHED", c0.port \in Port,
         Reported(h, i, c0, told), Covered(h, i, c0), AppSend(h, i, c0, answer, told, left)
  PROVE  Edits(h, i) /\ NetOK(net') /\ app' \in Apps
<1> DEFINE c == [c0 EXCEPT !.nrtx = 0]
           become(d, out, a) == /\ conn' = [conn EXCEPT ![h][i] = d]
                                /\ Send(left, out)
                                /\ app' = a
           entry == told[h][c.port]
           closing == [c EXCEPT !.len = 1, !.st = "FIN_WAIT_1"]
           sending == [c EXCEPT !.len = DataLen]
           shut == [told EXCEPT ![h][c.port].phase = "closed"]
<1>1. /\ c \in Conn /\ c.st = "ESTABLISHED" /\ c.port = c0.port /\ c.p = c0.p
  BY SizeAssumption DEF Conn
<1>2. /\ closing \in Conn /\ closing.port = c.port /\ closing.st = "FIN_WAIT_1"
      /\ sending \in Conn /\ sending.port = c.port /\ sending.st = "ESTABLISHED" /\ sending.p = c.p
  BY <1>1 DEF Conn, State, Transient
<1>3. /\ Closed(c) \in Conn /\ Closed(c).st = "CLOSED"
  BY <1>1, SizeAssumption DEF Closed, Unused, Conn, State, Transient
<1> HIDE DEF c, closing, sending
<1>4. entry \in [phase : Phase, acked : Nat, rcvd : Seq(Nat)]
  BY <1>1 DEF Apps
<1>5. /\ shut \in Apps
      /\ \A k \in Host, q \in Port :
           shut[k][q].phase = IF k = h /\ q = c.port THEN "closed" ELSE told[k][q].phase
  <2> DEFINE e == [entry EXCEPT !.phase = "closed"]
  <2>1. e \in [phase : Phase, acked : Nat, rcvd : Seq(Nat)] /\ e.phase = "closed"
    BY <1>4 DEF Phase
  <2>2. shut = [told EXCEPT ![h][c.port] = e]
    BY <1>1 DEF Apps
  <2> HIDE DEF e
  <2>3. shut \in Apps
    BY <1>1, <2>1, <2>2, AppsUpdate
  <2>4. \A k \in Host, q \in Port :
          [told EXCEPT ![h][c.port] = e][k][q] = IF k = h /\ q = c.port THEN e ELSE told[k][q]
    BY DEF Apps
  <2> QED BY <2>1, <2>2, <2>3, <2>4
<1> HIDE DEF entry, shut
<1>6. /\ Reported(h, i, c, told) /\ Covered(h, i, c)
      /\ Reported(h, i, sending, told) /\ Covered(h, i, sending)
  BY <1>1, <1>2 DEF Reported, IsOpen, Covered
<1>7. c.p => Reported(h, i, closing, shut) /\ Reported(h, i, Closed(c), shut)
  BY <1>1, <1>2, <1>3, <1>5 DEF Reported, IsOpen
<1>8. Covered(h, i, closing) /\ Covered(h, i, Closed(c))
  BY <1>1, <1>2, <1>3, <1>6 DEF Covered
<1>9. \/ become(c, IF answer THEN {Segm(h, c, {"ACK"}, 0)} ELSE {}, told)
      \/ become(sending, {Segm(h, sending, {"ACK"}, entry.acked + 1)}, told)
      \/ c.p /\ become(closing, {Segm(h, closing, {"FIN", "ACK"}, 0)}, shut)
      \/ c.p /\ become(Closed(c), {Rst(h, c.port)}, shut)
  BY DEF AppSend, c, closing, sending, entry, shut
<1>10. CASE become(c, IF answer THEN {Segm(h, c, {"ACK"}, 0)} ELSE {}, told)
  <2>1. NetOK(net')
    BY <1>1, <1>10, SegmentTyped, SendOne, SendNone
  <2> QED BY <1>1, <1>6, <1>10, <2>1 DEF Edits, PortOK
<1>11. CASE become(sending, {Segm(h, sending, {"ACK"}, entry.acked + 1)}, told)
  <2>1. NetOK(net')
    <3>1. entry.acked + 1 \in Nat
      BY <1>4
    <3>2. Segm(h, sending, {"ACK"}, entry.acked + 1) \in Segment
      BY <1>1, <1>2, <3>1, SegmentTyped
    <3> QED BY <1>11, <3>2, SendOne
  <2> QED BY <1>1, <1>2, <1>6, <1>11, <2>1 DEF Edits, PortOK
<1>12. CASE c.p /\ become(closing, {Segm(h, closing, {"FIN", "ACK"}, 0)}, shut)
  <2>1. NetOK(net')
    BY <1>1, <1>2, <1>12, SegmentTyped, SendOne
  <2> QED BY <1>1, <1>2, <1>5, <1>7, <1>8, <1>12, <2>1 DEF Edits, PortOK
<1>13. CASE c.p /\ become(Closed(c), {Rst(h, c.port)}, shut)
  <2>1. NetOK(net')
    BY <1>1, <1>13, RstTyped, SendOne
  <2> QED BY <1>1, <1>3, <1>5, <1>7, <1>8, <1>13, <2>1 DEF Edits, PortOK
<1> QED
  BY <1>9, <1>10, <1>11, <1>12, <1>13

--------------------------------------------------------------------------------
(* Steps that set one entry.                                                    *)

Frame ==
  /\ NetOK(net') /\ copies' \in 0..MaxCopies /\ app' \in Apps
  /\ periodic' \in [Host -> BOOLEAN] /\ Awaiting' \subseteq Slot /\ lastport' \in 0..MaxPort
  /\ NumbersOK' /\ gone' \subseteq Host /\ TimerKept

Safe == Typed /\ TimerCovers /\ OpenIsConnected

LEMMA EditIsSafe ==
  ASSUME Safe, NEW h \in Host, NEW i \in Slot, Edits(h, i), Frame
  PROVE  Safe'
<1> USE DEF Safe
<1>1. PICK d \in Conn : /\ conn' = [conn EXCEPT ![h][i] = d]
                        /\ PortOK(d) /\ Covered(h, i, d) /\ Reported(h, i, d, app')
  BY DEF Edits
<1>2. /\ conn' \in [Host -> [Slot -> Conn]]
      /\ \A k \in Host, j \in Slot : conn'[k][j] = IF k = h /\ j = i THEN d ELSE conn[k][j]
  <2>1. [conn[h] EXCEPT ![i] = d] \in [Slot -> Conn]
    BY DEF Typed
  <2>2. conn' = [conn EXCEPT ![h] = [conn[h] EXCEPT ![i] = d]]
    BY <1>1 DEF Typed
  <2>3. conn' \in [Host -> [Slot -> Conn]]
    BY <2>1, <2>2 DEF Typed
  <2>4. \A k \in Host : conn'[k] = IF k = h THEN [conn[h] EXCEPT ![i] = d] ELSE conn[k]
    BY <2>2 DEF Typed
  <2>5. \A j \in Slot : [conn[h] EXCEPT ![i] = d][j] = IF j = i THEN d ELSE conn[h][j]
    BY DEF Typed
  <2> QED BY <2>3, <2>4, <2>5
<1>3. Typed'
  BY <1>1, <1>2 DEF Typed, Frame, ConnOK, PortOK, NetOK, Apps, Awaiting
<1>4. TimerCovers'
  <2>1. ASSUME NEW k \in Host, NEW j \in Slot, conn'[k][j].st \notin {"CLOSED", "SYN_RCVD"}
        PROVE  periodic'[k] \/ (k = Client /\ j \in Awaiting')
    <3>1. CASE conn[k][j].st \notin {"CLOSED", "SYN_RCVD"}
      <4>1. periodic[k] \/ (k = Client /\ j \in Awaiting)
        BY <3>1 DEF TimerCovers, Awaiting
      <4> QED BY <4>1 DEF Frame, TimerKept
    <3>2. CASE conn[k][j].st \in {"CLOSED", "SYN_RCVD"}
      BY <1>1, <1>2, <2>1, <3>2 DEF Covered
    <3> QED BY <3>1, <3>2
  <2> QED BY <2>1 DEF TimerCovers, Awaiting
<1>5. OpenIsConnected'
  <2>1. ASSUME NEW k \in Host, NEW q \in Port, app'[k][q].phase = "open"
        PROVE  \E j \in Slot : IsOpen(conn'[k][j]) /\ conn'[k][j].port = q
    <3>1. CASE k = h /\ IsOpen(d) /\ d.port = q
      BY <1>2, <3>1
    <3>2. CASE app[k][q].phase = "open" /\ ~(k = h /\ IsOpen(conn[h][i]) /\ conn[h][i].port = q)
      <4>1. PICK j \in Slot : IsOpen(conn[k][j]) /\ conn[k][j].port = q
        BY <3>2 DEF OpenIsConnected, IsOpen
      <4> QED BY <1>2, <3>2, <4>1
    <3> QED BY <1>1, <2>1, <3>1, <3>2 DEF Reported
  <2> QED BY <2>1 DEF OpenIsConnected, IsOpen
<1> QED
  BY <1>3, <1>4, <1>5

\* The program is told nothing, and the entry stays what it is for the program.
LEMMA NothingToReport ==
  ASSUME NEW h \in Host, NEW i \in Slot, NEW d,
         IsOpen(conn[h][i]) => IsOpen(d) /\ d.port = conn[h][i].port
  PROVE  Reported(h, i, d, app)
  BY DEF Reported

\* The program is told that the connection ended.
LEMMA EndReported ==
  ASSUME app \in Apps, NEW h \in Host, NEW i \in Slot, NEW d, NEW acked \in BOOLEAN,
         NEW c \in Conn, c.port \in Port, c.port = conn[h][i].port, c.p = conn[h][i].p
  PROVE  Reported(h, i, d, ToldEnd(h, c, acked))
<1> SUFFICES ASSUME NEW k \in Host, NEW q \in Port, ToldEnd(h, c, acked)[k][q].phase = "open"
             PROVE  app[k][q].phase = "open" /\ ~(k = h /\ IsOpen(conn[h][i]) /\ conn[h][i].port = q)
  BY DEF Reported
<1>1. ToldEnd(h, c, acked)[k][q].phase
        = IF c.p /\ k = h /\ q = c.port THEN "over" ELSE app[k][q].phase
  BY ToldPhases
<1> QED
  BY <1>1 DEF IsOpen

LEMMA BecomeEdits ==
  ASSUME Typed, NEW h \in Host, NEW i \in Slot, NEW d \in Conn, PortOK(d),
         NEW left, NetOK(left), NEW out \in SUBSET Segment, IsFiniteSet(out),
         Become(h, i, d, left, out), Covered(h, i, d), Reported(h, i, d, app')
  PROVE  Edits(h, i) /\ NetOK(net')
  BY SendKeeps DEF Become, Edits

--------------------------------------------------------------------------------
(* Input for a connection.                                                      *)

LEMMA ReceivesFacts ==
  ASSUME Safe, NEW h \in Host, NEW i \in Slot, NEW s, NEW left, Receives(h, i, s, left)
  PROVE  /\ conn[h][i] \in Conn /\ conn[h][i].st # "CLOSED" /\ conn[h][i].port \in Port
         /\ s.port = conn[h][i].port
         /\ s \in Segment /\ s.seq \in Nat /\ s.data \in Nat /\ Length(s) \in Nat
         /\ NetOK(left) /\ copies' \in 0..MaxCopies
<1>1. conn[h][i] \in Conn /\ PortOK(conn[h][i])
  BY DEF Safe, Typed, ConnOK
<1>2. NetOK(net) /\ copies \in 0..MaxCopies
  BY DEF Safe, Typed
<1>3. s \in net /\ Leaves(s, left) /\ conn[h][i].st # "CLOSED" /\ conn[h][i].port = s.port
  BY DEF Receives
<1>4. NetOK(left) /\ copies' \in 0..MaxCopies /\ s \in Segment
  BY <1>2, <1>3, LeavesKeeps
<1>5. s.seq \in Nat /\ s.data \in Nat
  BY <1>4 DEF Segment
<1> QED
  BY <1>1, <1>3, <1>4, <1>5, SizeAssumption DEF PortOK, Length

\* Typed changes of a connection.
LEMMA AckedTyped ==
  ASSUME NEW c \in Conn, NEW s
  PROVE  /\ Acked(c, s) \in Conn /\ Acked(c, s).st = c.st
         /\ Acked(c, s).port = c.port /\ Acked(c, s).p = c.p
<1>1. c.snd + c.len \in Nat /\ 0 \in {0, 1, DataLen}
  BY SizeAssumption DEF Conn
<1> DEFINE n == c.snd + c.len
<1> HIDE DEF n
<1>2. [c EXCEPT !.snd = n, !.len = 0] \in Conn
  BY <1>1 DEF Conn, n
<1>3. Acked(c, s) = IF Acks(c, s) THEN [c EXCEPT !.snd = n, !.len = 0] ELSE c
  BY DEF Acked, n
<1> QED
  BY <1>2, <1>3 DEF Conn

LEMMA StateTyped ==
  ASSUME NEW c \in Conn, NEW st \in State, NEW n \in Nat
  PROVE  /\ [c EXCEPT !.st = st] \in Conn /\ [c EXCEPT !.st = st].st = st
         /\ [c EXCEPT !.st = st].port = c.port /\ [c EXCEPT !.st = st].p = c.p
         /\ [c EXCEPT !.rcv = n] \in Conn /\ [c EXCEPT !.rcv = n].st = c.st
         /\ [c EXCEPT !.rcv = n].port = c.port /\ [c EXCEPT !.rcv = n].p = c.p
  BY DEF Conn

LEMMA ClosedTyped ==
  ASSUME NEW c \in Conn
  PROVE  Closed(c) \in Conn /\ Closed(c).st = "CLOSED" /\ PortOK(Closed(c))
  BY SizeAssumption DEF Closed, Unused, Conn, State, Transient, PortOK

\* A step for a connection that is past its handshake, or that closes it, needs no timer.
LEMMA AlreadyCovered ==
  ASSUME NEW h \in Host, NEW i \in Slot, NEW d,
         d.st = "CLOSED" \/ conn[h][i].st \notin {"CLOSED", "SYN_RCVD"}
  PROVE  Covered(h, i, d)
  BY DEF Covered

\* The frame of a step that leaves the other variables alone.
LEMMA QuietFrame ==
  ASSUME Safe, NetOK(net'), copies' \in 0..MaxCopies, app' \in Apps,
         UNCHANGED <<numbers, periodic, polls, refused, lastport, gone>>
  PROVE  Frame
  BY DEF Safe, Typed, Frame, TimerKept, Awaiting, numbers, NumbersOK

LEMMA AckOfTyped ==
  ASSUME NEW h \in Host, NEW c \in Conn, c.port \in Port
  PROVE  AckOf(h, c) \in SUBSET Segment /\ IsFiniteSet(AckOf(h, c))
<1>1. Segm(h, c, {"ACK"}, 0) \in Segment
  BY SegmentTyped
<1> QED
  BY <1>1, FS_Singleton DEF AckOf

LEMMA NoneTyped == {} \in SUBSET Segment /\ IsFiniteSet({})
  BY FS_EmptySet

LEMMA OneTyped == \A s \in Segment : {s} \in SUBSET Segment /\ IsFiniteSet({s})
  BY FS_Singleton

\* A step that keeps a connection for its program and tells it nothing.
LEMMA SilentStep ==
  ASSUME Safe, NEW h \in Host, NEW i \in Slot, NEW s, NEW left, Receives(h, i, s, left),
         NEW d \in Conn, d.port = conn[h][i].port, d.p = conn[h][i].p,
         NEW out \in SUBSET Segment, IsFiniteSet(out), Become(h, i, d, left, out),
         d.st = conn[h][i].st \/ ~IsOpen(conn[h][i]),
         conn[h][i].st \notin {"CLOSED", "SYN_RCVD"},
         app' = app, UNCHANGED <<numbers, periodic, polls, refused, lastport, gone>>
  PROVE  Safe'
<1>1. conn[h][i].port \in Port /\ NetOK(left) /\ copies' \in 0..MaxCopies
  BY ReceivesFacts
<1>2. Covered(h, i, d)
  BY AlreadyCovered
<1>3. Reported(h, i, d, app')
  BY NothingToReport DEF IsOpen
<1>4. Edits(h, i) /\ NetOK(net')
  BY <1>1, <1>2, <1>3, BecomeEdits DEF PortOK, Safe
<1>5. Frame
  BY <1>1, <1>4, QuietFrame DEF Safe, Typed
<1> QED
  BY <1>4, <1>5, EditIsSafe

\* A step that ends a connection for its program, which is told.
LEMMA EndingStep ==
  ASSUME Safe, NEW h \in Host, NEW i \in Slot, NEW s, NEW left, Receives(h, i, s, left),
         NEW d \in Conn, PortOK(d), NEW c \in Conn, c.port = conn[h][i].port, c.p = conn[h][i].p,
         NEW out \in SUBSET Segment, IsFiniteSet(out), Become(h, i, d, left, out),
         d.st = "CLOSED" \/ conn[h][i].st \notin {"CLOSED", "SYN_RCVD"},
         NEW acked \in BOOLEAN, app' = ToldEnd(h, c, acked),
         UNCHANGED <<numbers, periodic, polls, refused, lastport, gone>>
  PROVE  Safe'
<1>1. conn[h][i].port \in Port /\ NetOK(left) /\ copies' \in 0..MaxCopies
  BY ReceivesFacts
<1>2. Covered(h, i, d)
  BY AlreadyCovered
<1>3. app \in Apps /\ Typed
  BY DEF Safe, Typed
<1>4. Reported(h, i, d, app')
  BY <1>1, <1>3, EndReported
<1>5. app' \in Apps
  BY <1>1, <1>3, ToldTyped, 0 \in Nat
<1>6. Edits(h, i) /\ NetOK(net')
  BY <1>1, <1>2, <1>3, <1>4, BecomeEdits
<1>7. Frame
  BY <1>1, <1>5, <1>6, QuietFrame
<1> QED
  BY <1>6, <1>7, EditIsSafe

\* A step that changes nothing but the network.
LEMMA DroppedStep ==
  ASSUME Safe, NetOK(net'), copies' \in 0..MaxCopies,
         UNCHANGED <<conn, numbers, periodic, polls, refused, lastport, app, gone>>
  PROVE  Safe'
  BY DEF Safe, Typed, ConnOK, PortOK, NetOK, Apps, TimerCovers, OpenIsConnected, numbers, NumbersOK

\* The program is called for a connection that is established, and answers.
LEMMA CalledStep ==
  ASSUME Safe, NEW h \in Host, NEW i \in Slot, NEW left, NetOK(left), copies' \in 0..MaxCopies,
         NEW d \in Conn, d.st = "ESTABLISHED", d.port = conn[h][i].port, d.port \in Port,
         conn[h][i].p => d.p,
         NEW answer, NEW told \in Apps, AppSend(h, i, d, answer, told, left),
         \A k \in Host, q \in Port :
           told[k][q].phase = "open" => app[k][q].phase = "open" \/ (d.p /\ k = h /\ q = d.port),
         \/ UNCHANGED <<periodic, refused>> /\ conn[h][i].st \notin {"CLOSED", "SYN_RCVD"}
         \/ StartTimer(h),
         UNCHANGED <<numbers, polls, lastport, gone>>
  PROVE  Safe'
<1>1. Typed
  BY DEF Safe
<1>2. Reported(h, i, d, told)
  BY DEF Reported, IsOpen
<1>3. Covered(h, i, d)
  BY <1>1 DEF Covered, Typed, StartTimer
<1>4. Edits(h, i) /\ NetOK(net') /\ app' \in Apps
  BY <1>1, <1>2, <1>3, AppSendEdits
<1>5. /\ periodic' \in [Host -> BOOLEAN] /\ Awaiting' \subseteq Slot /\ TimerKept
  <2>1. CASE UNCHANGED <<periodic, refused>>
    BY <1>1, <2>1 DEF Typed, Awaiting, TimerKept
  <2>2. CASE StartTimer(h)
    <3>1. periodic' \in [Host -> BOOLEAN] /\ \A k \in Host : periodic[k] => periodic'[k]
      BY <1>1, <2>2 DEF Typed, StartTimer
    <3>2. (h # Client /\ refused' = refused) \/ (refused' = {} /\ periodic'[Client])
      BY <1>1, <2>2 DEF Typed, StartTimer
    <3> QED BY <1>1, <3>1, <3>2 DEF Typed, Awaiting, TimerKept
  <2> QED BY <2>1, <2>2
<1>6. NumbersOK' /\ lastport' \in 0..MaxPort /\ gone' \subseteq Host
  BY <1>1 DEF Typed, numbers, NumbersOK
<1>7. Frame
  BY <1>4, <1>5, <1>6 DEF Frame
<1> QED
  BY <1>4, <1>7, EditIsSafe

\* What the program is told of a new connection, or of data, does not touch others.
LEMMA ToldOpens ==
  ASSUME Safe, NEW h \in Host, NEW d \in Conn, d.port \in Port, NEW data \in Nat
  PROVE  /\ ToldConnected(h, d, data) \in Apps
         /\ \A k \in Host, q \in Port :
              ToldConnected(h, d, data)[k][q].phase = "open"
                => app[k][q].phase = "open" \/ (d.p /\ k = h /\ q = d.port)
<1>1. app \in Apps /\ TRUE \in BOOLEAN
  BY DEF Safe, Typed
<1>2. ToldConnected(h, d, data) \in Apps
  BY <1>1, ToldTyped
<1>3. ASSUME NEW k \in Host, NEW q \in Port
      PROVE  ToldConnected(h, d, data)[k][q].phase
               = IF d.p /\ k = h /\ q = d.port THEN "open" ELSE app[k][q].phase
  BY <1>1, ToldPhases, ZenonT(60)
<1> QED
  BY <1>2, <1>3

LEMMA ToldData ==
  ASSUME Safe, NEW h \in Host, NEW d \in Conn, d.port \in Port, NEW data \in Nat, NEW acked \in BOOLEAN
  PROVE  /\ Told(h, d, data, acked) \in Apps
         /\ \A k \in Host, q \in Port :
              Told(h, d, data, acked)[k][q].phase = "open" => app[k][q].phase = "open"
<1>1. app \in Apps
  BY DEF Safe, Typed
<1> QED
  BY <1>1, ToldTyped, ToldPhases

LEMMA ResetSafe ==
  ASSUME Safe, NEW h \in Host, NEW i \in Slot, NEW s, NEW left, InputReset(h, i, s, left)
  PROVE  Safe'
<1>1. Receives(h, i, s, left)
  BY DEF InputReset
<1>2. conn[h][i] \in Conn
  BY <1>1, ReceivesFacts
<1>3. Closed(conn[h][i]) \in Conn /\ Closed(conn[h][i]).st = "CLOSED" /\ PortOK(Closed(conn[h][i]))
  BY <1>2, ClosedTyped
<1> QED
  BY <1>1, <1>2, <1>3, EndingStep, NoneTyped DEF InputReset

LEMMA UnexpectedSafe ==
  ASSUME Safe, NEW h \in Host, NEW i \in Slot, NEW s, NEW left, InputUnexpected(h, i, s, left)
  PROVE  Safe'
<1>1. Receives(h, i, s, left)
  BY DEF InputUnexpected
<1>2. /\ conn[h][i] \in Conn /\ conn[h][i].port \in Port
      /\ NetOK(left) /\ copies' \in 0..MaxCopies
  BY <1>1, ReceivesFacts
<1>3. NetOK(net')
  BY <1>2, AckOfTyped, SendKeeps DEF InputUnexpected
<1> QED
  BY <1>2, <1>3, DroppedStep DEF InputUnexpected

LEMMA SynRcvdSafe ==
  ASSUME Safe, NEW h \in Host, NEW i \in Slot, NEW s, NEW left, InputSynRcvd(h, i, s, left)
  PROVE  Safe'
<1> DEFINE c == Acked(conn[h][i], s)
           e == [c EXCEPT !.st = "ESTABLISHED", !.rcv = c.rcv + Length(s)]
           d == Attached(h, e)
<1>1. Receives(h, i, s, left)
  BY DEF InputSynRcvd, Accepts
<1>2. /\ conn[h][i] \in Conn /\ conn[h][i].port \in Port /\ s.data \in Nat /\ Length(s) \in Nat
      /\ NetOK(left) /\ copies' \in 0..MaxCopies
  BY <1>1, ReceivesFacts
<1>3. /\ c \in Conn /\ c.port = conn[h][i].port /\ c.p = conn[h][i].p /\ c.rcv + Length(s) \in Nat
  BY <1>2, AckedTyped DEF Conn
<1> HIDE DEF c
<1>4. /\ e \in Conn /\ e.st = "ESTABLISHED" /\ e.port = conn[h][i].port /\ e.p = conn[h][i].p
  <2> DEFINE n == c.rcv + Length(s)
  <2>1. n \in Nat /\ "ESTABLISHED" \in State
    BY <1>3 DEF State
  <2> HIDE DEF n
  <2>2. /\ [c EXCEPT !.st = "ESTABLISHED", !.rcv = n] \in Conn
        /\ [c EXCEPT !.st = "ESTABLISHED", !.rcv = n].st = "ESTABLISHED"
        /\ [c EXCEPT !.st = "ESTABLISHED", !.rcv = n].port = c.port
        /\ [c EXCEPT !.st = "ESTABLISHED", !.rcv = n].p = c.p
    BY <1>3, <2>1 DEF Conn
  <2> QED BY <1>3, <2>2 DEF n
<1>5. InputSynRcvd(h, i, s, left)!2
        <=> IF Acks(conn[h][i], s)
            THEN AppSend(h, i, d, s.data # 0, ToldConnected(h, d, s.data), left) /\ StartTimer(h)
            ELSE net' = left /\ UNCHANGED <<conn, periodic, refused, app>>
  BY DEF c
<1> HIDE DEF e
<1>6. /\ d \in Conn /\ d.st = "ESTABLISHED" /\ d.port = conn[h][i].port /\ (conn[h][i].p => d.p)
  BY <1>4 DEF Attached, Conn
<1> HIDE DEF d
<1>8. /\ ToldConnected(h, d, s.data) \in Apps
      /\ \A k \in Host, q \in Port :
           ToldConnected(h, d, s.data)[k][q].phase = "open"
             => app[k][q].phase = "open" \/ (d.p /\ k = h /\ q = d.port)
  BY <1>2, <1>6, ToldOpens
<1>9. CASE Acks(conn[h][i], s)
  BY <1>2, <1>5, <1>6, <1>8, <1>9, CalledStep DEF InputSynRcvd
<1>10. CASE ~Acks(conn[h][i], s)
  BY <1>2, <1>5, <1>10, DroppedStep DEF InputSynRcvd
<1> QED
  BY <1>9, <1>10

LEMMA SynSentSafe ==
  ASSUME Safe, NEW h \in Host, NEW i \in Slot, NEW s, NEW left, InputSynSent(h, i, s, left)
  PROVE  Safe'
<1> DEFINE c == Acked(conn[h][i], s)
           n == s.seq + 1
           d == [c EXCEPT !.st = "ESTABLISHED", !.rcv = n]
<1>1. Receives(h, i, s, left) /\ conn[h][i].st = "SYN_SENT"
  BY DEF InputSynSent, Accepts
<1>2. /\ conn[h][i] \in Conn /\ conn[h][i].port \in Port /\ s.port = conn[h][i].port
      /\ n \in Nat /\ NetOK(left) /\ copies' \in 0..MaxCopies
  BY <1>1, ReceivesFacts
<1>3. /\ c \in Conn /\ c.port = conn[h][i].port /\ c.p = conn[h][i].p
  BY <1>2, AckedTyped
<1>4. \/ AppSend(h, i, d, TRUE, ToldConnected(h, d, 0), left) /\ StartTimer(h)
      \/ /\ Become(h, i, Closed(c), left, {Rst(h, s.port)})
         /\ app' = ToldEnd(h, c, FALSE)
         /\ UNCHANGED <<periodic, refused>>
  BY DEF InputSynSent
<1> HIDE DEF c, n
<1>5. /\ d \in Conn /\ d.st = "ESTABLISHED" /\ d.port = conn[h][i].port /\ d.p = conn[h][i].p
  BY <1>2, <1>3 DEF Conn, State
<1> HIDE DEF d
<1>6. CASE AppSend(h, i, d, TRUE, ToldConnected(h, d, 0), left) /\ StartTimer(h)
  <2>1. /\ ToldConnected(h, d, 0) \in Apps
        /\ \A k \in Host, q \in Port :
             ToldConnected(h, d, 0)[k][q].phase = "open"
               => app[k][q].phase = "open" \/ (d.p /\ k = h /\ q = d.port)
    BY <1>2, <1>5, ToldOpens, 0 \in Nat
  <2> QED BY <1>2, <1>5, <1>6, <2>1, CalledStep, ZenonT(60) DEF InputSynSent
<1>7. CASE /\ Become(h, i, Closed(c), left, {Rst(h, s.port)})
           /\ app' = ToldEnd(h, c, FALSE)
           /\ UNCHANGED <<periodic, refused>>
  <2>1. Closed(c) \in Conn /\ Closed(c).st = "CLOSED" /\ PortOK(Closed(c))
    BY <1>3, ClosedTyped
  <2>2. {Rst(h, s.port)} \in SUBSET Segment /\ IsFiniteSet({Rst(h, s.port)})
    BY <1>2, RstTyped, OneTyped
  <2> QED BY <1>1, <1>3, <1>7, <2>1, <2>2, EndingStep DEF InputSynSent
<1> QED
  BY <1>4, <1>6, <1>7

LEMMA EstablishedSafe ==
  ASSUME Safe, NEW h \in Host, NEW i \in Slot, NEW s, NEW left, InputEstablished(h, i, s, left)
  PROVE  Safe'
<1> DEFINE a == Acked(conn[h][i], s)
           acks == Acks(conn[h][i], s)
           n == a.rcv + Length(s)
           c == [a EXCEPT !.rcv = n]
<1>1. Receives(h, i, s, left) /\ conn[h][i].st = "ESTABLISHED"
  BY DEF InputEstablished, Accepts
<1>2. /\ conn[h][i] \in Conn /\ conn[h][i].port \in Port /\ Length(s) \in Nat /\ s.data \in Nat
      /\ NetOK(left) /\ copies' \in 0..MaxCopies
  BY <1>1, ReceivesFacts
<1>3. /\ a \in Conn /\ a.port = conn[h][i].port /\ a.p = conn[h][i].p /\ a.st = "ESTABLISHED"
      /\ a.rcv \in Nat
  BY <1>1, <1>2, AckedTyped DEF Conn
<1>4. /\ \/ AppSend(h, i, c, s.data # 0, Told(h, c, s.data, acks), left)
         \/ Become(h, i, c, left, {}) /\ UNCHANGED app
      /\ UNCHANGED <<numbers, periodic, polls, refused, lastport, gone>>
  BY DEF InputEstablished
<1> HIDE DEF a
<1>5. n \in Nat
  BY <1>2, <1>3
<1> HIDE DEF n
<1>6. /\ c \in Conn /\ c.st = "ESTABLISHED" /\ c.port = conn[h][i].port /\ c.p = conn[h][i].p
  BY <1>3, <1>5 DEF Conn
<1> HIDE DEF c
<1>7. CASE AppSend(h, i, c, s.data # 0, Told(h, c, s.data, acks), left)
  <2>1. acks \in BOOLEAN
    BY DEF Acks
  <2> HIDE DEF acks
  <2>2. /\ Told(h, c, s.data, acks) \in Apps
        /\ \A k \in Host, q \in Port :
             Told(h, c, s.data, acks)[k][q].phase = "open" => app[k][q].phase = "open"
    BY <1>2, <1>6, <2>1, ToldData
  <2> QED BY <1>1, <1>2, <1>4, <1>6, <1>7, <2>2, CalledStep
<1>8. CASE Become(h, i, c, left, {}) /\ UNCHANGED app
  BY <1>1, <1>4, <1>6, <1>8, NoneTyped, SilentStep
<1> QED
  BY <1>4, <1>7, <1>8

LEMMA FinSafe ==
  ASSUME Safe, NEW h \in Host, NEW i \in Slot, NEW s, NEW left, InputFin(h, i, s, left)
  PROVE  Safe'
<1> DEFINE c == Acked(conn[h][i], s)
           acks == Acks(conn[h][i], s)
           n == c.rcv + 1
           d == [c EXCEPT !.rcv = n, !.len = 1, !.st = "LAST_ACK", !.nrtx = 0]
<1>1. Receives(h, i, s, left) /\ conn[h][i].st = "ESTABLISHED"
  BY DEF InputFin, Accepts
<1>2. /\ conn[h][i] \in Conn /\ conn[h][i].port \in Port
      /\ NetOK(left) /\ copies' \in 0..MaxCopies
  BY <1>1, ReceivesFacts
<1>3. /\ c \in Conn /\ c.port = conn[h][i].port /\ c.p = conn[h][i].p /\ n \in Nat
  BY <1>2, AckedTyped DEF Conn
<1>4. /\ \/ net' = left /\ UNCHANGED <<conn, app>>
         \/ /\ Become(h, i, d, left, {Segm(h, d, {"FIN", "ACK"}, 0)})
            /\ app' = ToldEnd(h, c, acks)
      /\ UNCHANGED <<numbers, periodic, polls, refused, lastport, gone>>
  BY DEF InputFin
<1> HIDE DEF c, n
<1>5. /\ d \in Conn /\ d.port = conn[h][i].port
  <2>1. 0 \in 0..MaxRtx /\ 1 \in {0, 1, DataLen} /\ "LAST_ACK" \in State
    BY SizeAssumption DEF State, Transient
  <2> QED BY <1>3, <2>1 DEF Conn
<1> HIDE DEF d
<1>6. CASE net' = left /\ UNCHANGED <<conn, app>>
  BY <1>2, <1>4, <1>6, DroppedStep
<1>7. CASE /\ Become(h, i, d, left, {Segm(h, d, {"FIN", "ACK"}, 0)})
           /\ app' = ToldEnd(h, c, acks)
  <2>1. acks \in BOOLEAN
    BY DEF Acks
  <2>2. Segm(h, d, {"FIN", "ACK"}, 0) \in Segment
    BY <1>2, <1>5, SegmentTyped
  <2>3. PortOK(d)
    BY <1>2, <1>5 DEF PortOK
  <2> HIDE DEF acks
  <2> QED BY <1>1, <1>3, <1>4, <1>5, <1>7, <2>1, <2>2, <2>3, OneTyped, EndingStep
<1> QED
  BY <1>4, <1>6, <1>7

LEMMA LastAckSafe ==
  ASSUME Safe, NEW h \in Host, NEW i \in Slot, NEW s, NEW left, InputLastAck(h, i, s, left)
  PROVE  Safe'
<1> DEFINE c == Acked(conn[h][i], s)
<1>1. Receives(h, i, s, left)
  BY DEF InputLastAck, Accepts
<1>2. /\ conn[h][i] \in Conn /\ NetOK(left) /\ copies' \in 0..MaxCopies
  BY <1>1, ReceivesFacts
<1>3. /\ c \in Conn /\ c.port = conn[h][i].port /\ c.p = conn[h][i].p
  BY <1>2, AckedTyped
<1>4. /\ \/ Become(h, i, Closed(c), left, {}) /\ app' = ToldEnd(h, c, FALSE)
         \/ net' = left /\ UNCHANGED <<conn, app>>
      /\ UNCHANGED <<numbers, periodic, polls, refused, lastport, gone>>
  BY DEF InputLastAck
<1> HIDE DEF c
<1>5. Closed(c) \in Conn /\ Closed(c).st = "CLOSED" /\ PortOK(Closed(c))
  BY <1>3, ClosedTyped
<1>6. CASE Become(h, i, Closed(c), left, {}) /\ app' = ToldEnd(h, c, FALSE)
  BY <1>1, <1>3, <1>4, <1>5, <1>6, NoneTyped, EndingStep
<1>7. CASE net' = left /\ UNCHANGED <<conn, app>>
  BY <1>2, <1>4, <1>7, DroppedStep
<1> QED
  BY <1>4, <1>6, <1>7

LEMMA FinWait1Safe ==
  ASSUME Safe, NEW h \in Host, NEW i \in Slot, NEW s, NEW left, InputFinWait1(h, i, s, left)
  PROVE  Safe'
<1> DEFINE a == Acked(conn[h][i], s)
           acks == Acks(conn[h][i], s)
           n == a.rcv + Length(s)
           c == [a EXCEPT !.rcv = n]
           k == c.rcv + 1
           st == IF acks THEN "TIME_WAIT" ELSE "CLOSING"
           d == [c EXCEPT !.rcv = k, !.st = st]
           e == [c EXCEPT !.st = "FIN_WAIT_2"]
           out == IF s.data # 0 THEN AckOf(h, c) ELSE {}
<1>1. Receives(h, i, s, left) /\ conn[h][i].st = "FIN_WAIT_1"
  BY DEF InputFinWait1, Accepts
<1>2. conn[h][i] \in Conn /\ conn[h][i].port \in Port /\ Length(s) \in Nat
  BY <1>1, ReceivesFacts
<1>3. /\ a \in Conn /\ a.port = conn[h][i].port /\ a.p = conn[h][i].p /\ a.rcv \in Nat
  BY <1>2, AckedTyped DEF Conn
<1>4. /\ \/ Become(h, i, d, left, AckOf(h, d)) /\ app' = ToldEnd(h, d, FALSE)
         \/ Become(h, i, e, left, {}) /\ UNCHANGED app
         \/ Become(h, i, c, left, out) /\ UNCHANGED app
      /\ UNCHANGED <<numbers, periodic, polls, refused, lastport, gone>>
  BY DEF InputFinWait1
<1> HIDE DEF a
<1>5. n \in Nat
  BY <1>2, <1>3
<1> HIDE DEF n
<1>6. c \in Conn /\ c.port = conn[h][i].port /\ c.p = conn[h][i].p /\ k \in Nat
  BY <1>3, <1>5 DEF Conn
<1>7. st \in State /\ st # "CLOSED" /\ "FIN_WAIT_2" \in State
  BY DEF State, Transient
<1> HIDE DEF c, k, st
<1>8. /\ d \in Conn /\ d.port = conn[h][i].port /\ d.p = conn[h][i].p /\ d.st = st
      /\ e \in Conn /\ e.port = conn[h][i].port /\ e.p = conn[h][i].p
  BY <1>6, <1>7 DEF Conn
<1> HIDE DEF d, e
<1>9. ~IsOpen(conn[h][i])
  BY <1>1 DEF IsOpen
<1>10. CASE Become(h, i, d, left, AckOf(h, d)) /\ app' = ToldEnd(h, d, FALSE)
  <2>1. PortOK(d) /\ AckOf(h, d) \in SUBSET Segment /\ IsFiniteSet(AckOf(h, d))
    BY <1>2, <1>8, AckOfTyped DEF PortOK
  <2> QED BY <1>1, <1>4, <1>8, <1>10, <2>1, EndingStep
<1>11. CASE Become(h, i, e, left, {}) /\ UNCHANGED app
  BY <1>1, <1>4, <1>8, <1>9, <1>11, NoneTyped, SilentStep
<1>12. CASE Become(h, i, c, left, out) /\ UNCHANGED app
  <2>1. out \in SUBSET Segment /\ IsFiniteSet(out)
    BY <1>2, <1>6, AckOfTyped, NoneTyped
  <2> HIDE DEF out
  <2> QED BY <1>1, <1>4, <1>6, <1>9, <1>12, <2>1, SilentStep
<1> QED
  BY <1>4, <1>10, <1>11, <1>12

LEMMA FinWait2Safe ==
  ASSUME Safe, NEW h \in Host, NEW i \in Slot, NEW s, NEW left, InputFinWait2(h, i, s, left)
  PROVE  Safe'
<1> DEFINE a == conn[h][i]
           n == a.rcv + Length(s)
           c == [a EXCEPT !.rcv = n]
           k == c.rcv + 1
           d == [c EXCEPT !.rcv = k, !.st = "TIME_WAIT"]
           out == IF s.data # 0 THEN AckOf(h, c) ELSE {}
<1>1. Receives(h, i, s, left) /\ conn[h][i].st = "FIN_WAIT_2"
  BY DEF InputFinWait2, Accepts
<1>2. conn[h][i] \in Conn /\ conn[h][i].port \in Port /\ Length(s) \in Nat
  BY <1>1, ReceivesFacts
<1>3. /\ \/ Become(h, i, d, left, AckOf(h, d)) /\ app' = ToldEnd(h, d, FALSE)
         \/ Become(h, i, c, left, out) /\ UNCHANGED app
      /\ UNCHANGED <<numbers, periodic, polls, refused, lastport, gone>>
  BY DEF InputFinWait2
<1>4. n \in Nat
  BY <1>2 DEF Conn
<1> HIDE DEF n
<1>5. c \in Conn /\ c.port = conn[h][i].port /\ c.p = conn[h][i].p /\ k \in Nat
  BY <1>2, <1>4 DEF Conn
<1> HIDE DEF c, k
<1>6. /\ d \in Conn /\ d.port = conn[h][i].port /\ d.p = conn[h][i].p /\ d.st = "TIME_WAIT"
  BY <1>5 DEF Conn, State, Transient
<1> HIDE DEF d
<1>7. ~IsOpen(conn[h][i])
  BY <1>1 DEF IsOpen
<1>8. CASE Become(h, i, d, left, AckOf(h, d)) /\ app' = ToldEnd(h, d, FALSE)
  <2>1. PortOK(d) /\ AckOf(h, d) \in SUBSET Segment /\ IsFiniteSet(AckOf(h, d))
    BY <1>2, <1>6, AckOfTyped DEF PortOK
  <2> QED BY <1>1, <1>3, <1>6, <1>8, <2>1, EndingStep
<1>9. CASE Become(h, i, c, left, out) /\ UNCHANGED app
  <2>1. out \in SUBSET Segment /\ IsFiniteSet(out)
    BY <1>2, <1>5, AckOfTyped, NoneTyped
  <2> HIDE DEF out
  <2> QED BY <1>1, <1>3, <1>5, <1>7, <1>9, <2>1, SilentStep
<1> QED
  BY <1>3, <1>8, <1>9

LEMMA TimeWaitSafe ==
  ASSUME Safe, NEW h \in Host, NEW i \in Slot, NEW s, NEW left, InputTimeWait(h, i, s, left)
  PROVE  Safe'
<1> DEFINE c == Acked(conn[h][i], s)
<1>1. Receives(h, i, s, left) /\ conn[h][i].st = "TIME_WAIT"
  BY DEF InputTimeWait, Accepts
<1>2. conn[h][i] \in Conn /\ conn[h][i].port \in Port
  BY <1>1, ReceivesFacts
<1>3. c \in Conn /\ c.port = conn[h][i].port /\ c.p = conn[h][i].p /\ c.st = conn[h][i].st
  BY <1>2, AckedTyped
<1>4. Become(h, i, c, left, AckOf(h, c)) /\ UNCHANGED <<numbers, periodic, polls, refused, lastport, app, gone>>
  BY DEF InputTimeWait
<1> HIDE DEF c
<1>5. AckOf(h, c) \in SUBSET Segment /\ IsFiniteSet(AckOf(h, c))
  BY <1>2, <1>3, AckOfTyped
<1> QED
  BY <1>1, <1>3, <1>4, <1>5, SilentStep

LEMMA ClosingSafe ==
  ASSUME Safe, NEW h \in Host, NEW i \in Slot, NEW s, NEW left, InputClosing(h, i, s, left)
  PROVE  Safe'
<1> DEFINE c == Acked(conn[h][i], s)
           d == IF Acks(conn[h][i], s) THEN [c EXCEPT !.st = "TIME_WAIT"] ELSE c
<1>1. Receives(h, i, s, left) /\ conn[h][i].st = "CLOSING"
  BY DEF InputClosing, Accepts
<1>2. conn[h][i] \in Conn
  BY <1>1, ReceivesFacts
<1>3. c \in Conn /\ c.port = conn[h][i].port /\ c.p = conn[h][i].p
  BY <1>2, AckedTyped
<1>4. Become(h, i, d, left, {}) /\ UNCHANGED <<numbers, periodic, polls, refused, lastport, app, gone>>
  BY DEF InputClosing
<1> HIDE DEF c
<1>5. d \in Conn /\ d.port = conn[h][i].port /\ d.p = conn[h][i].p
  BY <1>3 DEF Conn, State, Transient
<1> HIDE DEF d
<1>6. ~IsOpen(conn[h][i])
  BY <1>1 DEF IsOpen
<1> QED
  BY <1>1, <1>4, <1>5, <1>6, NoneTyped, SilentStep

LEMMA InputSafe ==
  ASSUME Safe, NEW h \in Host, Input(h)
  PROVE  Safe'
<1>1. PICK i \in Slot, s \in net : \E left \in Left(s) :
        \/ InputReset(h, i, s, left)      \/ InputUnexpected(h, i, s, left)
        \/ InputSynRcvd(h, i, s, left)    \/ InputSynSent(h, i, s, left)
        \/ InputEstablished(h, i, s, left) \/ InputFin(h, i, s, left)
        \/ InputLastAck(h, i, s, left)    \/ InputFinWait1(h, i, s, left)
        \/ InputFinWait2(h, i, s, left)   \/ InputTimeWait(h, i, s, left)
        \/ InputClosing(h, i, s, left)
  BY DEF Input
<1> QED
  BY <1>1, ResetSafe, UnexpectedSafe, SynRcvdSafe, SynSentSafe, EstablishedSafe, FinSafe,
     LastAckSafe, FinWait1Safe, FinWait2Safe, TimeWaitSafe, ClosingSafe

--------------------------------------------------------------------------------
(* Opening, polls, the periodic timer, and exits.                               *)

LEMMA FreeFacts ==
  \A h \in Host : Free(h) \subseteq {i \in Slot : conn[h][i].st \in {"CLOSED", "TIME_WAIT"}}
  BY DEF Free

LEMMA ConnectSafe ==
  ASSUME Safe, tcp_connect
  PROVE  Safe'
<1> USE DEF Safe
<1>1. PICK i \in Free(Client) :
        /\ conn' = [conn EXCEPT ![Client][i] =
                      [st |-> "SYN_SENT", port |-> lastport', snd |-> ClientIss[lastport'], rcv |-> 0,
                       len |-> 1, nrtx |-> 0, p |-> TRUE]]
        /\ Poll(i)
  BY DEF tcp_connect
<1> DEFINE q == lastport'
           d == [st |-> "SYN_SENT", port |-> q, snd |-> ClientIss[q], rcv |-> 0,
                 len |-> 1, nrtx |-> 0, p |-> TRUE]
           e == [app[Client][q] EXCEPT !.phase = "open"]
<1>2. /\ Client \in Host /\ i \in Slot /\ conn[Client][i].st \in {"CLOSED", "TIME_WAIT"}
      /\ q \in Port /\ q \in 0..MaxPort /\ Typed
  BY <1>1, HostFacts, FreeFacts, SizeAssumption DEF tcp_connect, Port, Typed
<1>3. d \in Conn /\ d.st = "SYN_SENT" /\ d.port = q /\ d.p = TRUE
  <2>1. 0 \in 0..MaxRtx /\ "SYN_SENT" \in State /\ ClientIss[q] \in Nat
    BY <1>2, SizeAssumption, NumberAssumption DEF State, Transient
  <2> QED BY <1>2, <2>1 DEF Conn
<1>4. conn' = [conn EXCEPT ![Client][i] = d]
  BY <1>1
<1>5. /\ app' = [app EXCEPT ![Client][q].phase = "open"]
      /\ UNCHANGED <<numbers, periodic, net, copies, gone>>
  BY DEF tcp_connect
<1>6. app' = [app EXCEPT ![Client][q] = e]
  BY <1>5, <1>2 DEF Typed, Apps
<1>7. e \in [phase : Phase, acked : Nat, rcvd : Seq(Nat)]
  <2>1. app[Client][q] \in [phase : Phase, acked : Nat, rcvd : Seq(Nat)]
    BY <1>2 DEF Typed, Apps
  <2> QED BY <2>1 DEF Phase
<1> HIDE DEF q, d, e
<1>8. app' \in Apps
  BY <1>2, <1>6, <1>7, AppsUpdate DEF Typed
<1>9. ASSUME NEW k \in Host, NEW r \in Port, k # Client \/ r # q
      PROVE  app'[k][r] = app[k][r]
  BY <1>2, <1>6, <1>9 DEF Typed, Apps
<1>10. Reported(Client, i, d, app')
  BY <1>2, <1>3, <1>9 DEF Reported, IsOpen
<1>11. Covered(Client, i, d)
  BY <1>1, <1>5 DEF Covered, Poll, Awaiting
<1>12. Edits(Client, i)
  BY <1>2, <1>3, <1>4, <1>10, <1>11 DEF Edits, PortOK
<1>13. NumbersOK'
  BY <1>2, <1>5 DEF Typed, numbers, NumbersOK
<1>14. Awaiting' \subseteq Slot /\ (Awaiting \subseteq Awaiting' \/ periodic'[Client])
  BY <1>1, <1>2, <1>5 DEF Typed, Poll, Awaiting
<1>15. Frame
  BY <1>2, <1>5, <1>8, <1>13, <1>14 DEF Frame, Typed, TimerKept, q
<1> QED
  BY <1>2, <1>12, <1>15, EditIsSafe

LEMMA PollSafe ==
  ASSUME Safe, NEW i \in Slot, PollEvent(i)
  PROVE  Safe'
<1> DEFINE c == conn[Client][i]
<1>1. Typed /\ Client \in Host
  BY HostFacts DEF Safe
<1>2. /\ c \in Conn /\ PortOK(c)
      /\ polls' = polls \ {i} /\ StartTimer(Client)
      /\ UNCHANGED <<numbers, copies, lastport, gone>>
  BY <1>1 DEF PollEvent, Typed, ConnOK
<1>3. \/ c.st = "ESTABLISHED" /\ AppSend(Client, i, c, FALSE, app, net)
      \/ UNCHANGED <<conn, net, app>>
  BY DEF PollEvent
<1> HIDE DEF c
<1>4. CASE c.st = "ESTABLISHED" /\ AppSend(Client, i, c, FALSE, app, net)
  <2>1. c.port \in Port
    BY <1>2, <1>4 DEF PortOK
  <2>2. Reported(Client, i, c, app)
    BY DEF Reported, c
  <2>3. Covered(Client, i, c)
    BY <1>1, <1>2 DEF Covered, Typed, StartTimer
  <2>4. app \in Apps /\ NetOK(net)
    BY <1>1 DEF Typed
  <2>5. Edits(Client, i) /\ NetOK(net') /\ app' \in Apps
    BY <1>1, <1>2, <1>4, <2>1, <2>2, <2>3, <2>4, AppSendEdits
  <2>6. Frame
    BY <1>1, <1>2, <2>5 DEF Frame, Typed, TimerKept, Awaiting, StartTimer, numbers, NumbersOK
  <2> QED BY <1>1, <2>5, <2>6, EditIsSafe
<1>5. CASE UNCHANGED <<conn, net, app>>
  <2>1. Typed' /\ OpenIsConnected'
    BY <1>1, <1>2, <1>5 DEF Safe, Typed, ConnOK, PortOK, NetOK, Apps, OpenIsConnected, StartTimer,
       numbers, NumbersOK
  <2>2. TimerCovers'
    BY <1>1, <1>2, <1>5 DEF Safe, Typed, TimerCovers, StartTimer
  <2> QED BY <2>1, <2>2 DEF Safe
<1> QED
  BY <1>3, <1>4, <1>5

LEMMA UnknownSafe ==
  ASSUME Safe, NEW h \in Host, NEW s \in net, NEW left, InputUnknown(h, s, left)
  PROVE  Safe'
<1>1. /\ Leaves(s, left)
      /\ \/ net' = left /\ UNCHANGED <<conn, numbers>>
         \/ \E i \in Free(h), n \in Turns :
              LET c == [st |-> "SYN_RCVD", port |-> s.port, snd |-> iss + n, rcv |-> s.seq + 1,
                        len |-> 1, nrtx |-> 0, p |-> conn[h][i].p]
              IN /\ conn' = [conn EXCEPT ![h][i] = c]
                 /\ Begins(s.port, iss + n)
                 /\ Send(left, {Segm(h, c, {"SYN", "ACK"}, 0)})
         \/ Send(left, {}) /\ UNCHANGED <<conn, numbers>>
         \/ Send(left, {Rst(h, s.port)}) /\ UNCHANGED <<conn, numbers>>
  BY DEF InputUnknown
<1>2. UNCHANGED <<periodic, polls, refused, lastport, app, gone>>
  BY DEF InputUnknown
<1>3. Typed
  BY DEF Safe
<1>4. NetOK(left) /\ copies' \in 0..MaxCopies /\ s \in Segment
  BY <1>1, <1>3, LeavesKeeps DEF Typed
<1>5. s.seq \in Nat /\ s.port \in Port
  BY <1>4 DEF Segment
<1>6. CASE net' = left /\ UNCHANGED <<conn, numbers>>
  BY <1>2, <1>4, <1>6, DroppedStep
<1>7. CASE Send(left, {}) /\ UNCHANGED <<conn, numbers>>
  BY <1>2, <1>4, <1>7, SendNone, DroppedStep
<1>8. CASE Send(left, {Rst(h, s.port)}) /\ UNCHANGED <<conn, numbers>>
  BY <1>2, <1>4, <1>5, <1>8, RstTyped, SendOne, DroppedStep
<1>9. ASSUME NEW i \in Free(h), NEW n \in Turns, NEW c,
             c = [st |-> "SYN_RCVD", port |-> s.port, snd |-> iss + n, rcv |-> s.seq + 1,
                  len |-> 1, nrtx |-> 0, p |-> conn[h][i].p],
             conn' = [conn EXCEPT ![h][i] = c],
             Begins(s.port, iss + n),
             Send(left, {Segm(h, c, {"SYN", "ACK"}, 0)})
      PROVE  Safe'
  <2>1. i \in Slot /\ conn[h][i].st \in {"CLOSED", "TIME_WAIT"} /\ conn[h][i] \in Conn
    BY <1>3, FreeFacts DEF Typed
  <2>n. iss + n \in Nat
    BY <1>3, NumberAssumption DEF Typed, NumbersOK
  <2>2. c \in Conn /\ c.st = "SYN_RCVD" /\ c.port \in Port
    <3>1. /\ "SYN_RCVD" \in State /\ 0 \in 0..MaxRtx /\ s.seq + 1 \in Nat
          /\ conn[h][i].p \in BOOLEAN
      BY <1>3, <1>5, <2>1, SizeAssumption DEF State, Transient, Typed, Conn
    <3> QED BY <1>5, <1>9, <2>n, <3>1 DEF Conn
  <2>3. Segm(h, c, {"SYN", "ACK"}, 0) \in Segment
    BY <2>2, SegmentTyped
  <2>4. NetOK(net')
    BY <1>4, <1>9, <2>3, SendOne
  <2>5. Covered(h, i, c)
    BY <2>2 DEF Covered
  <2>6. Reported(h, i, c, app')
    BY <1>2, <2>1 DEF Reported, IsOpen
  <2>7. Edits(h, i)
    BY <1>9, <2>2, <2>5, <2>6 DEF Edits, PortOK
  <2>8. NumbersOK'
    <3>1. DataLen * ToSend[Server] \in Nat
      BY SizeAssumption, HostFacts
    <3>2. iss + n + DataLen * ToSend[Server] + 2 \in Nat
      BY <2>n, <3>1
    <3> QED BY <1>3, <1>9, <2>n, <3>2 DEF Typed, NumbersOK, Begins
  <2>9. Frame
    BY <1>2, <1>3, <1>4, <2>4, <2>8 DEF Frame, Typed, TimerKept, Awaiting
  <2> QED BY <2>1, <2>7, <2>9, EditIsSafe
<1> QED
  BY <1>1, <1>6, <1>7, <1>8, <1>9

LEMMA WaitSafe ==
  ASSUME Safe, NEW h \in Host, NEW i \in Slot, WaitIsOver(h, i)
  PROVE  Safe'
<1>1. Typed /\ conn[h][i] \in Conn /\ app \in Apps
  BY DEF Safe, Typed
<1>2. /\ Closed(conn[h][i]) \in Conn /\ Closed(conn[h][i]).st = "CLOSED"
      /\ PortOK(Closed(conn[h][i]))
  BY <1>1, ClosedTyped
<1>3. /\ conn[h][i].st \in {"TIME_WAIT", "FIN_WAIT_2"}
      /\ conn' = [conn EXCEPT ![h][i] = Closed(conn[h][i])]
      /\ UNCHANGED <<numbers, periodic, polls, refused, net, copies, lastport, app, gone>>
  BY DEF WaitIsOver
<1>4. Covered(h, i, Closed(conn[h][i])) /\ Reported(h, i, Closed(conn[h][i]), app')
  BY <1>2, <1>3 DEF Covered, Reported, IsOpen
<1>5. Edits(h, i)
  BY <1>2, <1>3, <1>4 DEF Edits
<1>6. Frame
  BY <1>1, <1>3, QuietFrame DEF Typed, NetOK
<1> QED
  BY <1>5, <1>6, EditIsSafe

LEMMA RetransmitSafe ==
  ASSUME Safe, NEW h \in Host, NEW i \in Slot, Retransmit(h, i)
  PROVE  Safe'
<1> DEFINE c == conn[h][i]
           d == [c EXCEPT !.nrtx = @ + 1]
<1>1. Typed /\ c \in Conn /\ app \in Apps /\ NetOK(net) /\ c.st # "CLOSED" /\ c.port \in Port
  BY DEF Safe, Typed, ConnOK, PortOK, Retransmit
<1>2. /\ \/ Become(h, i, Closed(c), net, {Rst(h, c.port)}) /\ app' = ToldEnd(h, c, FALSE)
         \/ ~GivesUp(c) /\ Become(h, i, d, net, Again(h, c)) /\ UNCHANGED app
      /\ UNCHANGED <<numbers, periodic, polls, refused, copies, lastport, gone>>
  BY DEF Retransmit
<1>3. /\ Closed(c) \in Conn /\ Closed(c).st = "CLOSED" /\ PortOK(Closed(c))
  BY <1>1, ClosedTyped
<1>4. CASE Become(h, i, Closed(c), net, {Rst(h, c.port)}) /\ app' = ToldEnd(h, c, FALSE)
  <2>1. Covered(h, i, Closed(c)) /\ Reported(h, i, Closed(c), app')
    BY <1>1, <1>3, <1>4, EndReported DEF Covered
  <2>2. {Rst(h, c.port)} \in SUBSET Segment /\ IsFiniteSet({Rst(h, c.port)})
    BY <1>1, RstTyped, OneTyped
  <2>3. Edits(h, i) /\ NetOK(net')
    BY <1>1, <1>3, <1>4, <2>1, <2>2, BecomeEdits
  <2>4. app' \in Apps
    BY <1>1, <1>4, ToldTyped, 0 \in Nat
  <2>5. Frame
    BY <1>1, <1>2, <2>3, <2>4, QuietFrame DEF Typed
  <2> QED BY <2>3, <2>5, EditIsSafe
<1>5. CASE ~GivesUp(c) /\ Become(h, i, d, net, Again(h, c)) /\ UNCHANGED app
  <2>1. d \in Conn /\ d.st = c.st /\ d.port = c.port /\ d.p = c.p
    <3>1. c.nrtx + 1 \in 0..MaxRtx
      BY <1>1, <1>5, SizeAssumption DEF GivesUp, Conn
    <3> QED BY <1>1, <3>1 DEF Conn
  <2>2. Again(h, c) \in SUBSET Segment /\ IsFiniteSet(Again(h, c))
    <3>1. app[h][c.port].acked + 1 \in Nat
      <4>1. app[h][c.port] \in [phase : Phase, acked : Nat, rcvd : Seq(Nat)]
        BY <1>1 DEF Apps
      <4> QED BY <4>1
    <3>2. /\ Segm(h, c, {"SYN", "ACK"}, 0) \in Segment /\ Syn(h, c) \in Segment
          /\ Segm(h, c, {"ACK"}, app[h][c.port].acked + 1) \in Segment
          /\ Segm(h, c, {"FIN", "ACK"}, 0) \in Segment
      BY <1>1, <3>1, SegmentTyped, SynTyped
    <3>3. \E s \in Segment : Again(h, c) \in {{}, {s}}
      BY <3>2 DEF Again
    <3> QED BY <3>3, NoneTyped, OneTyped
  <2> HIDE DEF d
  <2>3. Covered(h, i, d) /\ Reported(h, i, d, app')
    BY <1>5, <2>1, NothingToReport DEF Covered, IsOpen
  <2>4. PortOK(d)
    BY <1>1, <2>1 DEF PortOK
  <2>5. Edits(h, i) /\ NetOK(net')
    BY <1>1, <1>5, <2>1, <2>2, <2>3, <2>4, BecomeEdits
  <2>6. Frame
    BY <1>1, <1>2, <1>5, <2>5, QuietFrame DEF Typed
  <2> QED BY <2>5, <2>6, EditIsSafe
<1> QED
  BY <1>2, <1>4, <1>5

LEMMA PeriodicPollSafe ==
  ASSUME Safe, NEW h \in Host, NEW i \in Slot, PeriodicPoll(h, i)
  PROVE  Safe'
<1> DEFINE c == conn[h][i]
<1>1. /\ Typed /\ c \in Conn /\ app \in Apps /\ NetOK(net)
      /\ c.st = "ESTABLISHED" /\ c.port \in Port
  BY DEF Safe, Typed, ConnOK, PortOK, PeriodicPoll
<1>2. /\ AppSend(h, i, c, FALSE, app, net)
      /\ UNCHANGED <<numbers, periodic, polls, refused, copies, lastport, gone>>
  BY DEF PeriodicPoll
<1>3. copies' \in 0..MaxCopies
  BY <1>1, <1>2 DEF Typed
<1> QED
  BY <1>1, <1>2, <1>3, CalledStep

LEMMA PeriodicEndsSafe ==
  ASSUME Safe, NEW h \in Host, PeriodicEnds(h)
  PROVE  Safe'
<1>1. Typed' /\ OpenIsConnected'
  BY DEF Safe, Typed, PeriodicEnds, ConnOK, PortOK, NetOK, Apps, OpenIsConnected, numbers, NumbersOK
<1>2. TimerCovers'
  BY DEF Safe, Typed, PeriodicEnds, TimerCovers
<1> QED
  BY <1>1, <1>2 DEF Safe

LEMMA ProcessExitsSafe ==
  ASSUME Safe, NEW h \in Host, ProcessExits(h)
  PROVE  Safe'
<1>1. Typed
  BY DEF Safe
<1> DEFINE row == [i \in Slot |-> IF conn[h][i].p THEN Unused(FALSE) ELSE conn[h][i]]
           entries == [q \in Port |-> [app[h][q] EXCEPT !.phase = "over"]]
<1>2. /\ conn' = [conn EXCEPT ![h] = row] /\ app' = [app EXCEPT ![h] = entries]
      /\ gone' = gone \cup {h} /\ UNCHANGED <<numbers, periodic, polls, refused, net, copies, lastport>>
  BY DEF ProcessExits
<1>3. Unused(FALSE) \in Conn /\ Unused(FALSE).st = "CLOSED"
  BY SizeAssumption DEF Unused, Conn, State, Transient
<1>4. /\ row \in [Slot -> Conn] /\ \A i \in Slot : PortOK(row[i])
      /\ \A i \in Slot : row[i].st = "CLOSED" \/ row[i] = conn[h][i]
  BY <1>1, <1>3 DEF Typed, ConnOK, PortOK
<1>5. /\ entries \in [Port -> [phase : Phase, acked : Nat, rcvd : Seq(Nat)]]
      /\ \A q \in Port : entries[q].phase = "over"
  <2>1. ASSUME NEW q \in Port
        PROVE  /\ [app[h][q] EXCEPT !.phase = "over"] \in [phase : Phase, acked : Nat, rcvd : Seq(Nat)]
               /\ [app[h][q] EXCEPT !.phase = "over"].phase = "over"
    <3>1. app[h][q] \in [phase : Phase, acked : Nat, rcvd : Seq(Nat)]
      BY <1>1 DEF Typed, Apps
    <3> QED BY <3>1 DEF Phase
  <2> QED BY <2>1
<1> HIDE DEF row, entries
<1>6. /\ conn' \in [Host -> [Slot -> Conn]]
      /\ \A k \in Host : conn'[k] = IF k = h THEN row ELSE conn[k]
  BY <1>1, <1>2, <1>4 DEF Typed
<1>7. /\ app' \in Apps
      /\ \A k \in Host : app'[k] = IF k = h THEN entries ELSE app[k]
  BY <1>1, <1>2, <1>5 DEF Typed, Apps
<1>8. Typed'
  BY <1>1, <1>2, <1>4, <1>6, <1>7 DEF Typed, ConnOK, NetOK, PortOK, numbers, NumbersOK
<1>9. TimerCovers'
  BY <1>2, <1>4, <1>6 DEF TimerCovers, Safe
<1>10. OpenIsConnected'
  <2> SUFFICES ASSUME NEW k \in Host, NEW q \in Port, app'[k][q].phase = "open"
               PROVE  \E i \in Slot : conn'[k][i].port = q /\ IsOpen(conn'[k][i])
    BY DEF OpenIsConnected, IsOpen
  <2>1. k # h
    BY <1>5, <1>7
  <2>2. \E i \in Slot : conn[k][i].port = q /\ IsOpen(conn[k][i])
    BY <1>7, <2>1 DEF OpenIsConnected, IsOpen, Safe
  <2> QED BY <1>6, <2>1, <2>2
<1> QED
  BY <1>8, <1>9, <1>10 DEF Safe

--------------------------------------------------------------------------------
(* The theorems.                                                                *)

LEMMA InitSafe == Init => Safe
<1> SUFFICES ASSUME Init PROVE Safe
  OBVIOUS
<1>1. Unused(FALSE) \in Conn /\ Unused(FALSE).st = "CLOSED"
  BY SizeAssumption DEF Unused, Conn, State, Transient
<1>2. NetOK({})
  BY FS_EmptySet, SizeAssumption DEF NetOK
<1>3. app \in Apps /\ \A h \in Host, q \in Port : app[h][q].phase = "unused"
  BY EmptySeq DEF Init, Apps, Phase
<1>4. Typed
  <2>1. conn \in [Host -> [Slot -> Conn]] /\ ConnOK
    BY <1>1 DEF Init, ConnOK, PortOK
  <2>2. periodic \in [Host -> BOOLEAN] /\ NumbersOK
    BY NumberAssumption DEF Init, NumbersOK
  <2>3. lastport \in 0..MaxPort /\ copies \in 0..MaxCopies
    BY SizeAssumption DEF Init
  <2>4. polls \subseteq Slot /\ refused \subseteq Slot /\ gone \subseteq Host /\ NetOK(net)
    BY <1>2 DEF Init
  <2> QED BY <1>3, <2>1, <2>2, <2>3, <2>4 DEF Typed
<1> QED
  BY <1>1, <1>3, <1>4 DEF Init, Safe, TimerCovers, OpenIsConnected

LEMMA NextSafe == Safe /\ [Next]_vars => Safe'
<1> SUFFICES ASSUME Safe, [Next]_vars PROVE Safe'
  OBVIOUS
<1>1. CASE UNCHANGED vars
  BY <1>1 DEF vars, numbers, NumbersOK, Safe, Typed, ConnOK, PortOK, NetOK, Apps, TimerCovers,
     OpenIsConnected
<1>2. CASE Next
  BY <1>2, ConnectSafe, PollSafe, UnknownSafe, InputSafe, PeriodicEndsSafe, ProcessExitsSafe,
     WaitSafe, RetransmitSafe, PeriodicPollSafe DEF Next
<1> QED
  BY <1>1, <1>2

LEMMA AlwaysSafe == Spec => []Safe
  BY InitSafe, NextSafe, PTL DEF Spec

\* Every entry, segment and number of the model keeps its type (uip_conns, the network),
\* for any number of connections and any bounds.
THEOREM TcpTypeCorrect == Spec => []TypeOK
<1>1. Safe => TypeOK
  BY DEF Safe, Typed, TypeOK, NumbersOK, NetOK, Apps
<1> QED
  BY <1>1, AlwaysSafe, PTL

\* No connection past its handshake is left without the periodic timer, whatever order
\* segments, polls, rounds of the timer and exits come in, but one whose TCP_POLL the event
\* queue refused (tcpip.c:453, 662, 374-380).
THEOREM TimerAlwaysCovers == Spec => []TimerCovers
<1>1. Safe => TimerCovers
  BY DEF Safe
<1> QED
  BY <1>1, AlwaysSafe, PTL

\* A program never takes for open a connection that uIP has given up: each way to end one
\* tells the process it is attached to (uip.c, tcpip_uipcall()).
THEOREM EndIsAlwaysReported == Spec => []OpenIsConnected
<1>1. Safe => OpenIsConnected
  BY DEF Safe
<1> QED
  BY <1>1, AlwaysSafe, PTL

--------------------------------------------------------------------------------
(* The invariant, of connections cn, segments nt and programs ap.  lp is        *)
(* lastport, g the hosts in gone; for each port x holds the initial numbers of  *)
(* the server's connections.                                                    *)

Entry == [phase : Phase, acked : Nat, rcvd : Seq(Nat)]
Conns == [Host -> [Slot -> Conn]]

\* The number that follows k segments of a stream whose SYN has number base.
Pos(base, k) == base + 1 + k * DataLen

\* What the numbers of a stream of the server may span.
Span == DataLen * ToSend[Server] + 2

Spaced(x) == \A q \in Port : \A y, z \in x[q] : y < z => y + Span <= z
Issues(x) == x \in [Port -> SUBSET Nat] /\ Spaced(x)
Grown(x, x2) == \A q \in Port : x[q] \subseteq x2[q]
Base(b, h, q) == IF h = Client THEN ClientIss[q] ELSE b[q]

Handshake == {"CLOSED", "SYN_SENT", "SYN_RCVD"}
Synchronised == State \ Handshake
Ended == {"closed", "over"}
Valid(s) == "RST" \notin s.flags
Size(s) == IF "FIN" \in s.flags THEN Length(s) + 1 ELSE Length(s)

\* What a program without a connection counts does not count.
Counted(c, e) == IF c.p THEN e.acked ELSE 0

\* The next number to send agrees with what the program knows to be acknowledged.
SendOK(h, c, e, base) ==
  /\ c.st = "ESTABLISHED" \/ c.len > 0 => c.snd = Pos(base, Counted(c, e))
  /\ c.st = "ESTABLISHED" => c.len \in {0, DataLen} /\ (c.len > 0 => c.p /\ e.acked < ToSend[h])
  /\ c.st # "ESTABLISHED" => c.len \in {0, 1}

\* The number that is expected agrees with what the program has received, as long as it
\* may receive.
ReceiveOK(h, c, e, base) ==
  /\ base + 1 <= c.rcv /\ c.rcv <= Pos(base, ToSend[Peer(h)]) + 1
  /\ c.st = "ESTABLISHED" /\ c.p => c.rcv = Pos(base, Len(e.rcvd))
  /\ ~(c.st = "ESTABLISHED" /\ c.p) => e.phase \in Ended

SyncOK(h, c, e, b, T) ==
  /\ c.port \in T
  /\ SendOK(h, c, e, Base(b, h, c.port))
  /\ ReceiveOK(h, c, e, Base(b, Peer(h), c.port))

SynSentOK(h, c, T) ==
  h = Client /\ c.port \notin T /\ c.snd = ClientIss[c.port] /\ c.rcv = 0 /\ c.len = 1

SynRcvdOK(h, c, x) ==
  h = Server /\ c.snd \in x[c.port] /\ c.rcv = ClientIss[c.port] + 1 /\ c.len = 1

ConnNumbered(h, c, e, lp, x, g, b, T) ==
  c.st # "CLOSED" =>
    /\ c.port \in Port /\ c.port <= lp
    /\ h \in g => ~c.p
    /\ h = Client => c.p
    /\ c.st = "SYN_SENT" => SynSentOK(h, c, T)
    /\ c.st = "SYN_RCVD" => SynRcvdOK(h, c, x)
    /\ c.st \in Synchronised => SyncOK(h, c, e, b, T)

Unique(cn) ==
  \A h \in Host, i, j \in Slot :
    /\ cn[h][i].st # "CLOSED" /\ cn[h][j].st # "CLOSED" /\ cn[h][i].port = cn[h][j].port
    => i = j

\* What a segment of h may be.
DataSeg(h, s, b, T) ==
  /\ s.flags = {"ACK"}
  /\ s.data # 0 => /\ s.port \in T /\ s.data \in 1..ToSend[h]
                   /\ s.seq = Pos(Base(b, h, s.port), s.data - 1)
FinSeg(h, s, b, T) ==
  /\ s.flags = {"FIN", "ACK"} /\ s.data = 0 /\ s.port \in T
  /\ s.seq <= Pos(Base(b, h, s.port), ToSend[h])
SynSeg(h, s, x) ==
  /\ s.data = 0
  /\ \/ h = Client /\ s.flags = {"SYN"} /\ s.seq = ClientIss[s.port]
     \/ h = Server /\ s.flags = {"SYN", "ACK"} /\ s.seq \in x[s.port]

\* An acknowledgement by h, whose program has entry e.
AckOK(h, s, e, b, T) ==
  "ACK" \in s.flags =>
    \/ h = Client /\ s.ack = 0
    \/ /\ s.port \in T \/ h = Server
       /\ Base(b, Peer(h), s.port) + 1 <= s.ack
       /\ s.ack <= Pos(Base(b, Peer(h), s.port), ToSend[Peer(h)]) + 1
       /\ e.phase \in Ended \/ s.ack <= Pos(Base(b, Peer(h), s.port), Len(e.rcvd))

SegNumbered(h, s, e, lp, x, b, T) ==
  /\ s.port <= lp
  /\ Valid(s) => /\ DataSeg(h, s, b, T) \/ FinSeg(h, s, b, T) \/ SynSeg(h, s, x)
                 /\ AckOK(h, s, e, b, T)

\* Segment s of a synchronised connection c: what it holds is acknowledged or outstanding,
\* and it acknowledges no more than c has received.
OwnSegment(c, s) ==
  /\ Size(s) > 0 => s.seq + Size(s) <= c.snd \/ (s.seq = c.snd /\ Size(s) = c.len)
  /\ "ACK" \in s.flags => s.ack <= c.rcv

Owns(h, c, s) == c.st \in Synchronised /\ Valid(s) /\ s.to = Peer(h) /\ s.port = c.port

Agree(c, d) == d.rcv \in {c.snd, c.snd + c.len} /\ c.rcv \in {d.snd, d.snd + d.len}

\* Before the client has taken a SYN|ACK, and until the server is established.
EmptySeg(s) ==
  /\ s.data = 0 /\ "FIN" \notin s.flags
  /\ s.to = Client /\ "ACK" \in s.flags => s.ack = ClientIss[s.port] + 1
  /\ s.to = Server => s.ack = 0

Untaken(nt, ap, q) ==
  /\ \A h \in Host : ap[h][q].acked = 0 /\ ap[h][q].rcvd = <<>>
  /\ \A s \in nt : Valid(s) /\ s.port = q => EmptySeg(s)

Fresh(cn, nt, ap, b, q) ==
  /\ ap[Client][q].acked = 0
  /\ \A s \in nt : Valid(s) /\ s.to = Client /\ s.port = q => EmptySeg(s)
  /\ \A i \in Slot :
       cn[Client][i].st \in Synchronised /\ cn[Client][i].port = q =>
         cn[Client][i].snd = ClientIss[q] + 1 /\ cn[Client][i].rcv = b[q] + 1

\* The server may still become established with the number that the client took.
Halfway(cn, b, T, q) ==
  q \in T /\ \E j \in Slot :
    cn[Server][j].st = "SYN_RCVD" /\ cn[Server][j].port = q /\ cn[Server][j].snd = b[q]

StreamOK(h, e) ==
  /\ Len(e.rcvd) <= ToSend[Peer(h)] /\ \A k \in DOMAIN e.rcvd : e.rcvd[k] = k
  /\ e.acked <= ToSend[h]

Delivered(e, other) == e.acked <= Len(other.rcvd) \/ other.phase \in Ended

NumTyped(cn, nt, ap, lp, x, g, b, T) ==
  /\ cn \in [Host -> [Slot -> Conn]] /\ nt \subseteq Segment /\ ap \in Apps
  /\ lp \in 0..MaxPort /\ Issues(x) /\ g \subseteq Host /\ b \in [Port -> Nat] /\ T \subseteq Port

Taken(lp, x, b, T) == \A q \in T : q <= lp /\ b[q] \in x[q]

ConnsNumbered(cn, ap, lp, x, g, b, T) ==
  \A h \in Host, i \in Slot : ConnNumbered(h, cn[h][i], ap[h][cn[h][i].port], lp, x, g, b, T)

SegsNumbered(nt, ap, lp, x, b, T) ==
  \A s \in nt : SegNumbered(Peer(s.to), s, ap[Peer(s.to)][s.port], lp, x, b, T)

AllOwn(cn, nt) ==
  \A h \in Host, i \in Slot, s \in nt : Owns(h, cn[h][i], s) => OwnSegment(cn[h][i], s)

AllAgree(cn) ==
  \A i, j \in Slot :
    /\ cn[Client][i].st \in Synchronised /\ cn[Server][j].st \in Synchronised
    /\ cn[Client][i].port = cn[Server][j].port
    => Agree(cn[Client][i], cn[Server][j])

Opening(cn, nt, ap, b, T) ==
  /\ \A q \in Port \ T : Untaken(nt, ap, q)
  /\ \A q \in Port : Halfway(cn, b, T, q) => Fresh(cn, nt, ap, b, q)

Streams(ap, g) ==
  \A h \in Host, q \in Port :
    /\ StreamOK(h, ap[h][q]) /\ Delivered(ap[h][q], ap[Peer(h)][q])
    /\ h \in g => ap[h][q].phase \in Ended

Num(cn, nt, ap, lp, x, g, b, T) ==
  /\ NumTyped(cn, nt, ap, lp, x, g, b, T) /\ Taken(lp, x, b, T)
  /\ Unique(cn) /\ ConnsNumbered(cn, ap, lp, x, g, b, T)
  /\ SegsNumbered(nt, ap, lp, x, b, T)
  /\ AllOwn(cn, nt) /\ AllAgree(cn)
  /\ Opening(cn, nt, ap, b, T) /\ Streams(ap, g)

\* No connection of the server has come to the reach of its port.
Within(x) == \A q \in Port : \A y \in x[q] : y + Span <= reach[q]

Numbered ==
  apart => \E b \in [Port -> Nat], T \in SUBSET Port, u \in [Port -> SUBSET Nat] :
             Num(conn, net, app, lastport, u, gone, b, T) /\ Within(u)

--------------------------------------------------------------------------------
(* Numbers.                                                                     *)

LEMMA PosFacts ==
  ASSUME NEW base \in Nat, NEW k \in Nat
  PROVE  /\ Pos(base, k) \in Nat /\ Pos(base, 0) = base + 1
         /\ Pos(base, k + 1) = Pos(base, k) + DataLen
         /\ base + 1 <= Pos(base, k)
<1>1. DataLen \in Nat /\ DataLen > 0
  BY SizeAssumption
<1>2. k * DataLen \in Nat /\ (k + 1) * DataLen = k * DataLen + DataLen /\ 0 * DataLen = 0
  BY <1>1
<1> QED
  BY <1>1, <1>2 DEF Pos

LEMMA PosOrder ==
  ASSUME NEW base \in Nat, NEW k \in Nat, NEW m \in Nat
  PROVE  /\ k <= m => Pos(base, k) <= Pos(base, m)
         /\ Pos(base, k) <= Pos(base, m) => k <= m
         /\ k < m => Pos(base, k) + DataLen <= Pos(base, m)
<1>1. DataLen \in Nat /\ DataLen > 0
  BY SizeAssumption
<1>2. ASSUME NEW u \in Nat, NEW v \in Nat, u < v PROVE u * DataLen + DataLen <= v * DataLen
  <2>1. v - u - 1 \in Nat /\ (v - u - 1) * DataLen >= 0
    BY <1>1, <1>2
  <2>2. (v - u - 1) * DataLen = v * DataLen - u * DataLen - DataLen
    BY <1>1, <1>2
  <2> QED BY <1>1, <2>1, <2>2
<1>3. k * DataLen \in Nat /\ m * DataLen \in Nat
  BY <1>1
<1>4. k < m => k * DataLen + DataLen <= m * DataLen
  BY <1>2
<1>5. m < k => m * DataLen + DataLen <= k * DataLen
  BY <1>2
<1> QED
  BY <1>1, <1>3, <1>4, <1>5 DEF Pos

LEMMA ClientIssNat == \A q \in Port : ClientIss[q] \in Nat
  BY NumberAssumption

LEMMA BaseNat ==
  ASSUME NEW b \in [Port -> Nat], NEW h \in Host, NEW q \in Port
  PROVE  Base(b, h, q) \in Nat
  BY ClientIssNat DEF Base

\* The number that an acknowledgement is for is that of the connection that the client
\* took.
LEMMA IssMeets ==
  ASSUME NEW x, Issues(x), NEW q \in Port, NEW y \in x[q], NEW z \in x[q],
         y + 1 <= z + 1, z + 1 <= Pos(y, ToSend[Server]) + 1
  PROVE  y = z
<1>1. y \in Nat /\ z \in Nat
  BY DEF Issues
<1>2. ToSend[Server] \in Nat /\ DataLen \in Nat
  BY SizeAssumption, HostFacts
<1>3. /\ ToSend[Server] * DataLen = DataLen * ToSend[Server]
      /\ DataLen * ToSend[Server] \in Nat
  BY <1>2
<1>4. Pos(y, ToSend[Server]) = y + 1 + DataLen * ToSend[Server]
  BY <1>3 DEF Pos
<1>5. y < z => y + (DataLen * ToSend[Server] + 2) <= z
  BY DEF Issues, Spaced, Span
<1> QED
  BY <1>1, <1>3, <1>4, <1>5

--------------------------------------------------------------------------------
(* Changing one entry of uip_conns, what its program knows, and adding segments.*)

\* f with v for k of h.
Put(f, h, k, v) == [f EXCEPT ![h][k] = v]

LEMMA CnUpdate ==
  ASSUME NEW cn \in Conns, NEW h \in Host, NEW i \in Slot, NEW d \in Conn
  PROVE  /\ Put(cn, h, i, d) \in Conns
         /\ \A k \in Host, j \in Slot :
              Put(cn, h, i, d)[k][j] = IF k = h /\ j = i THEN d ELSE cn[k][j]
<1>1. [cn[h] EXCEPT ![i] = d] \in [Slot -> Conn]
  BY DEF Conns
<1>2. \A j \in Slot : [cn[h] EXCEPT ![i] = d][j] = IF j = i THEN d ELSE cn[h][j]
  BY DEF Conns
<1>3. [cn EXCEPT ![h][i] = d] = [cn EXCEPT ![h] = [cn[h] EXCEPT ![i] = d]]
  BY DEF Conns
<1> DEFINE row == [cn[h] EXCEPT ![i] = d]
<1> HIDE DEF row
<1>4. /\ [cn EXCEPT ![h] = row] \in [Host -> [Slot -> Conn]]
      /\ \A k \in Host : [cn EXCEPT ![h] = row][k] = IF k = h THEN row ELSE cn[k]
  BY <1>1 DEF row, Conns
<1> QED
  BY <1>2, <1>3, <1>4 DEF row, Put, Conns

LEMMA ApUpdate ==
  ASSUME NEW ap \in Apps, NEW h \in Host, NEW q \in Port, NEW e \in Entry,
         NEW ap2, ap2 = Put(ap, h, q, e)
  PROVE  /\ ap2 \in Apps /\ ap2[h][q] = e
         /\ \A k \in Host, r \in Port : k # h \/ r # q => ap2[k][r] = ap[k][r]
<1>1. ap2 \in Apps
  BY AppsUpdate DEF Entry, Put
<1> DEFINE row == [ap[h] EXCEPT ![q] = e]
<1>2. ap2 = [ap EXCEPT ![h] = row]
  BY DEF Apps, Put
<1>3. row[q] = e /\ \A r \in Port : r # q => row[r] = ap[h][r]
  BY DEF Apps
<1> HIDE DEF row
<1>4. ap2[h] = row /\ \A k \in Host : k # h => ap2[k] = ap[k]
  BY <1>2 DEF Apps
<1> QED
  BY <1>1, <1>3, <1>4

\* A change of entry i of host h to d, of what its program knows of port q to e, of the other
\* numbers and of T, and the segments out that are sent.  What it must do is said of its port
\* only.
EditOK(cn, nt, ap, lp, x, g, b, T, h, i, q, d, e, out, lp2, x2, b2, T2) ==
  LET k == Peer(h)
      f == ap[k][q]
      sent == nt \cup out
  IN /\ h \in Host /\ i \in Slot /\ q \in Port /\ d \in Conn /\ e \in Entry /\ out \subseteq Segment
     /\ lp2 \in 0..MaxPort /\ Issues(x2) /\ lp <= lp2 /\ Grown(x, x2)
     /\ b2 \in [Port -> Nat] /\ T2 \subseteq Port
     /\ \A r \in Port \ {q} : b2[r] = b[r] /\ (r \in T2 <=> r \in T)
     /\ q \in T2 => q <= lp2 /\ b2[q] \in x2[q]
     /\ \A j \in Slot \ {i} : cn[h][j].st = "CLOSED" \/ cn[h][j].port # q
     /\ d.st # "CLOSED" => d.port = q
     /\ ConnNumbered(h, d, e, lp2, x2, g, b2, T2)
     /\ \A j \in Slot : cn[k][j].st # "CLOSED" /\ cn[k][j].port = q =>
          ConnNumbered(k, cn[k][j], f, lp2, x2, g, b2, T2)
     /\ \A o \in out : o.to = k /\ o.port = q /\ SegNumbered(h, o, e, lp2, x2, b2, T2)
     /\ \A s \in nt : s.port = q /\ s.to = k => SegNumbered(h, s, e, lp2, x2, b2, T2)
     /\ \A s \in nt : s.port = q /\ s.to = h => SegNumbered(k, s, f, lp2, x2, b2, T2)
     /\ \A s \in sent : Owns(h, d, s) => OwnSegment(d, s)
     /\ d.st \in Synchronised => \A j \in Slot :
          cn[k][j].st \in Synchronised /\ cn[k][j].port = q =>
            Agree(d, cn[k][j]) /\ Agree(cn[k][j], d)
     /\ q \notin T2 => Untaken(sent, Put(ap, h, q, e), q)
     /\ Halfway(Put(cn, h, i, d), b2, T2, q) =>
          Fresh(Put(cn, h, i, d), sent, Put(ap, h, q, e), b2, q)
     /\ StreamOK(h, e) /\ Delivered(e, f) /\ Delivered(f, e)
     /\ h \in g => e.phase \in Ended

\* The one lemma that looks at the whole invariant.
LEMMA EditKeeps ==
  ASSUME NEW cn, NEW nt, NEW ap, NEW lp, NEW x, NEW g, NEW b, NEW T, NEW h, NEW i, NEW q, NEW d,
         NEW e, NEW out, NEW lp2, NEW x2, NEW b2, NEW T2, Num(cn, nt, ap, lp, x, g, b, T),
         EditOK(cn, nt, ap, lp, x, g, b, T, h, i, q, d, e, out, lp2, x2, b2, T2)
  PROVE  Num(Put(cn, h, i, d), nt \cup out, Put(ap, h, q, e), lp2, x2, g, b2, T2)
<1> DEFINE cn2 == Put(cn, h, i, d)
           ap2 == Put(ap, h, q, e)
           nt2 == nt \cup out
<1> USE DEF EditOK
<1>1. /\ NumTyped(cn, nt, ap, lp, x, g, b, T) /\ Taken(lp, x, b, T) /\ Unique(cn)
      /\ ConnsNumbered(cn, ap, lp, x, g, b, T) /\ SegsNumbered(nt, ap, lp, x, b, T)
      /\ AllOwn(cn, nt) /\ AllAgree(cn) /\ Opening(cn, nt, ap, b, T) /\ Streams(ap, g)
  BY DEF Num
<1>2. /\ cn \in Conns /\ nt \subseteq Segment /\ ap \in Apps
      /\ lp \in 0..MaxPort /\ Issues(x) /\ g \subseteq Host /\ b \in [Port -> Nat] /\ T \subseteq Port
  BY <1>1 DEF NumTyped, Conns
<1>3. /\ cn2 \in Conns
      /\ \A k \in Host, j \in Slot : cn2[k][j] = IF k = h /\ j = i THEN d ELSE cn[k][j]
  BY <1>2, CnUpdate
<1>4. /\ ap2 \in Apps
      /\ \A k \in Host, r \in Port : ap2[k][r] = IF k = h /\ r = q THEN e ELSE ap[k][r]
  <2>1. ap \in Apps
    BY <1>2
  <2>2. /\ ap2 \in Apps /\ ap2[h][q] = e
        /\ \A k \in Host, r \in Port : k # h \/ r # q => ap2[k][r] = ap[k][r]
    BY <2>1, ApUpdate
  <2> QED BY <2>2
<1>5. /\ Client \in Host /\ Server \in Host /\ Peer(h) \in Host /\ Peer(h) # h /\ Peer(Peer(h)) = h
      /\ \A k \in Host : k = h \/ k = Peer(h)
  BY HostFacts, PeerFacts DEF Host, Peer
<1>6. \A r \in Port : x[r] \subseteq x2[r]
  BY DEF Grown
<1>7. \A k \in Host, r \in Port \ {q} : Base(b2, k, r) = Base(b, k, r)
  BY DEF Base
<1>8. NumTyped(cn2, nt2, ap2, lp2, x2, g, b2, T2)
  BY <1>2, <1>3, <1>4 DEF NumTyped, Conns
<1>9. Taken(lp2, x2, b2, T2)
  <2>1. ASSUME NEW r \in T2 PROVE r <= lp2 /\ b2[r] \in x2[r]
    <3>1. CASE r = q
      BY <3>1, <2>1
    <3>2. CASE r # q
      <4>1. r \in T /\ b2[r] = b[r] /\ r \in Nat
        BY <3>2, <2>1 DEF Port
      <4> QED BY <1>1, <1>2, <1>6, <4>1 DEF Taken
    <3> QED BY <3>1, <3>2
  <2> QED BY <2>1 DEF Taken
<1>10. Unique(cn2)
  <2> SUFFICES ASSUME NEW k \in Host, NEW m \in Slot, NEW n \in Slot, cn2[k][m].st # "CLOSED",
                      cn2[k][n].st # "CLOSED", cn2[k][m].port = cn2[k][n].port
               PROVE  m = n
    BY DEF Unique
  <2>1. CASE k = h /\ (m = i \/ n = i)
    BY <1>3, <2>1
  <2>2. CASE ~(k = h /\ (m = i \/ n = i))
    BY <1>1, <1>3, <2>2 DEF Unique
  <2> QED BY <2>1, <2>2
<1>11. ConnsNumbered(cn2, ap2, lp2, x2, g, b2, T2)
  <2> SUFFICES ASSUME NEW k \in Host, NEW j \in Slot, cn2[k][j].st # "CLOSED"
               PROVE  ConnNumbered(k, cn2[k][j], ap2[k][cn2[k][j].port], lp2, x2, g, b2, T2)
    BY DEF ConnsNumbered, ConnNumbered
  <2>1. CASE k = h /\ j = i
    BY <1>3, <1>4, <2>1
  <2>2. CASE ~(k = h /\ j = i)
    <3> DEFINE c == cn[k][j]
    <3>1. c = cn2[k][j] /\ c \in Conn /\ c.st # "CLOSED"
      BY <1>2, <1>3, <2>2 DEF Conns
    <3>2. ConnNumbered(k, c, ap[k][c.port], lp, x, g, b, T)
      BY <1>1 DEF ConnsNumbered
    <3>3. c.port \in Port /\ c.port <= lp
      BY <3>1, <3>2 DEF ConnNumbered
    <3> HIDE DEF c
    <3>4. CASE c.port = q
      <4>1. k = Peer(h)
        BY <1>5, <2>2, <3>1, <3>4 DEF c
      <4> QED BY <1>4, <1>5, <3>1, <3>4, <4>1 DEF c
    <3>5. CASE c.port # q
      <4>1. ap2[k][c.port] = ap[k][c.port]
        BY <1>4, <3>3, <3>5
      <4>2. \A f \in Host : Base(b2, f, c.port) = Base(b, f, c.port)
        BY <1>7, <3>3, <3>5
      <4>3. c.port \in T2 <=> c.port \in T
        BY <3>3, <3>5
      <4>4. c.port <= lp2
        BY <1>2, <3>3 DEF Port
      <4>5. c.st = "SYN_SENT" => SynSentOK(k, c, T2)
        BY <3>1, <3>2, <4>3 DEF ConnNumbered, SynSentOK
      <4>6. c.st = "SYN_RCVD" => SynRcvdOK(k, c, x2)
        BY <1>6, <3>1, <3>2 DEF ConnNumbered, SynRcvdOK
      <4>7. c.st \in Synchronised => SyncOK(k, c, ap[k][c.port], b2, T2)
        BY <1>5, <3>1, <3>2, <4>2, <4>3, HostFacts DEF ConnNumbered, SyncOK
      <4> QED BY <3>1, <3>2, <3>3, <4>1, <4>4, <4>5, <4>6, <4>7 DEF ConnNumbered
    <3> QED BY <3>4, <3>5
  <2> QED BY <2>1, <2>2
<1>12. SegsNumbered(nt2, ap2, lp2, x2, b2, T2)
  <2> SUFFICES ASSUME NEW s \in nt2
               PROVE  SegNumbered(Peer(s.to), s, ap2[Peer(s.to)][s.port], lp2, x2, b2, T2)
    BY DEF SegsNumbered
  <2>1. s \in Segment /\ s.to \in Host /\ s.port \in Port /\ Peer(s.to) \in Host
    BY <1>2, HostFacts DEF Segment
  <2>2. CASE s \in out
    BY <1>4, <1>5, <2>2
  <2>3. CASE s \in nt /\ s.port = q
    <3>1. CASE s.to = h
      BY <1>4, <1>5, <2>3, <3>1
    <3>2. CASE s.to = Peer(h)
      BY <1>4, <1>5, <2>3, <3>2
    <3> QED BY <1>5, <2>1, <3>1, <3>2
  <2>4. CASE s \in nt /\ s.port # q
    <3> DEFINE k == Peer(s.to)
    <3>1. SegNumbered(k, s, ap[k][s.port], lp, x, b, T)
      BY <1>1, <2>4 DEF SegsNumbered
    <3>2. k \in Host /\ Peer(k) \in Host /\ ap2[k][s.port] = ap[k][s.port]
      BY <1>4, <2>1, <2>4, HostFacts
    <3> HIDE DEF k
    <3>3. \A f \in Host : Base(b2, f, s.port) = Base(b, f, s.port)
      BY <1>7, <2>1, <2>4
    <3>4. s.port \in T2 <=> s.port \in T
      BY <2>1, <2>4
    <3>5. s.port <= lp /\ s.port <= lp2
      BY <1>2, <2>1, <3>1 DEF Port, SegNumbered
    <3>6. DataSeg(k, s, b, T) => DataSeg(k, s, b2, T2)
      BY <3>2, <3>3, <3>4 DEF DataSeg
    <3>7. FinSeg(k, s, b, T) => FinSeg(k, s, b2, T2)
      BY <3>2, <3>3, <3>4 DEF FinSeg
    <3>8. SynSeg(k, s, x) => SynSeg(k, s, x2)
      BY <1>6, <2>1 DEF SynSeg
    <3>9. AckOK(k, s, ap[k][s.port], b, T) => AckOK(k, s, ap[k][s.port], b2, T2)
      BY <3>2, <3>3, <3>4 DEF AckOK
    <3> QED BY <3>1, <3>2, <3>5, <3>6, <3>7, <3>8, <3>9 DEF SegNumbered, k
  <2> QED BY <2>2, <2>3, <2>4
<1>13. AllOwn(cn2, nt2)
  <2> SUFFICES ASSUME NEW k \in Host, NEW j \in Slot, NEW s \in nt2, Owns(k, cn2[k][j], s)
               PROVE  OwnSegment(cn2[k][j], s)
    BY DEF AllOwn
  <2>1. CASE k = h /\ j = i
    BY <1>3, <2>1
  <2>2. CASE ~(k = h /\ j = i)
    <3>1. cn2[k][j] = cn[k][j]
      BY <1>3, <2>2
    <3>2. CASE s \in nt
      BY <1>1, <3>1, <3>2 DEF AllOwn
    <3>3. CASE s \in out
      <4>1. Peer(k) = Peer(h) /\ cn[k][j].port = q /\ cn[k][j].st # "CLOSED"
        BY <3>1, <3>3 DEF Owns, Synchronised, Handshake
      <4>2. k = h
        BY <4>1, PeerFacts
      <4> QED BY <2>2, <4>1, <4>2
    <3> QED BY <3>2, <3>3
  <2> QED BY <2>1, <2>2
<1>14. AllAgree(cn2)
  <2> SUFFICES ASSUME NEW m \in Slot, NEW n \in Slot,
                      cn2[Client][m].st \in Synchronised, cn2[Server][n].st \in Synchronised,
                      cn2[Client][m].port = cn2[Server][n].port
               PROVE  Agree(cn2[Client][m], cn2[Server][n])
    BY DEF AllAgree
  <2>1. CASE h = Client /\ m = i
    <3>1. cn2[Client][m] = d /\ cn2[Server][n] = cn[Server][n] /\ Peer(h) = Server
      BY <1>3, <1>5, <2>1, HostAssumption DEF Peer
    <3> QED BY <3>1 DEF Synchronised, Handshake
  <2>2. CASE h = Server /\ n = i
    <3>1. cn2[Server][n] = d /\ cn2[Client][m] = cn[Client][m] /\ Peer(h) = Client
      BY <1>3, <1>5, <2>2, HostAssumption DEF Peer
    <3> QED BY <3>1 DEF Synchronised, Handshake
  <2>3. CASE ~(h = Client /\ m = i) /\ ~(h = Server /\ n = i)
    BY <1>1, <1>3, <1>5, <2>3 DEF AllAgree
  <2> QED BY <2>1, <2>2, <2>3
<1>15. Opening(cn2, nt2, ap2, b2, T2)
  <2>1. ASSUME NEW r \in Port \ T2 PROVE Untaken(nt2, ap2, r)
    <3>1. CASE r = q
      BY <2>1, <3>1
    <3>2. CASE r # q
      <4>1. Untaken(nt, ap, r)
        BY <1>1, <2>1, <3>2 DEF Opening
      <4> QED BY <1>4, <3>2, <4>1 DEF Untaken
    <3> QED BY <3>1, <3>2
  <2>2. ASSUME NEW r \in Port, Halfway(cn2, b2, T2, r) PROVE Fresh(cn2, nt2, ap2, b2, r)
    <3>1. CASE r = q
      BY <2>2, <3>1
    <3>2. CASE r # q
      <4>1. Halfway(cn, b, T, r)
        <5>1. PICK j \in Slot :
                cn2[Server][j].st = "SYN_RCVD" /\ cn2[Server][j].port = r /\ cn2[Server][j].snd = b2[r]
          BY <2>2 DEF Halfway
        <5>2. cn2[Server][j] = cn[Server][j]
          BY <1>3, <1>5, <3>2, <5>1
        <5> QED BY <2>2, <3>2, <5>1, <5>2 DEF Halfway
      <4>2. Fresh(cn, nt, ap, b, r)
        BY <1>1, <4>1 DEF Opening
      <4>3. ASSUME NEW j \in Slot, cn2[Client][j].st \in Synchronised, cn2[Client][j].port = r
            PROVE  cn2[Client][j].snd = ClientIss[r] + 1 /\ cn2[Client][j].rcv = b2[r] + 1
        <5>1. cn2[Client][j] = cn[Client][j]
          BY <1>3, <1>5, <3>2, <4>3 DEF Synchronised, Handshake
        <5> QED BY <3>2, <4>2, <4>3, <5>1 DEF Fresh
      <4>4. ap2[Client][r] = ap[Client][r]
        BY <1>4, <1>5, <3>2
      <4>5. \A s \in nt2 : s.port = r => s \in nt
        BY <3>2
      <4> QED BY <4>2, <4>3, <4>4, <4>5 DEF Fresh
    <3> QED BY <3>1, <3>2
  <2> QED BY <2>1, <2>2 DEF Opening
<1>16. Streams(ap2, g)
  <2> SUFFICES ASSUME NEW k \in Host, NEW r \in Port
               PROVE  /\ StreamOK(k, ap2[k][r]) /\ Delivered(ap2[k][r], ap2[Peer(k)][r])
                      /\ k \in g => ap2[k][r].phase \in Ended
    BY DEF Streams
  <2>1. CASE r # q
    <3>1. ap2[k][r] = ap[k][r] /\ ap2[Peer(k)][r] = ap[Peer(k)][r]
      BY <1>4, <2>1, HostFacts
    <3> QED BY <1>1, <3>1 DEF Streams
  <2>2. CASE r = q
    <3>1. ap2[h][q] = e /\ ap2[Peer(h)][q] = ap[Peer(h)][q]
      BY <1>4, <1>5
    <3>2. CASE k = h
      BY <2>2, <3>1, <3>2
    <3>3. CASE k = Peer(h)
      BY <1>1, <1>5, <2>2, <3>1, <3>3 DEF Streams
    <3> QED BY <1>5, <3>2, <3>3
  <2> QED BY <2>1, <2>2
<1> QED
  BY <1>8, <1>9, <1>10, <1>11, <1>12, <1>13, <1>14, <1>15, <1>16 DEF Num

\* A change of a connection of which the numbers that the client took stay, after which the
\* host has received what it received before.
LaterOK(cn, nt, ap, lp, x, g, b, T, h, i, q, d, e, out) ==
  LET k == Peer(h)
      sent == nt \cup out
  IN /\ h \in Host /\ i \in Slot /\ q \in Port /\ d \in Conn /\ e \in Entry /\ out \subseteq Segment
     /\ \A j \in Slot \ {i} : cn[h][j].st = "CLOSED" \/ cn[h][j].port # q
     /\ d.st # "CLOSED" => d.port = q
     /\ ConnNumbered(h, d, e, lp, x, g, b, T)
     /\ \A o \in out : o.to = k /\ o.port = q /\ SegNumbered(h, o, e, lp, x, b, T)
     /\ \A s \in sent : Owns(h, d, s) => OwnSegment(d, s)
     /\ d.st \in Synchronised => \A j \in Slot :
          cn[k][j].st \in Synchronised /\ cn[k][j].port = q =>
            Agree(d, cn[k][j]) /\ Agree(cn[k][j], d)
     /\ q \notin T => Untaken(sent, Put(ap, h, q, e), q)
     /\ Halfway(Put(cn, h, i, d), b, T, q) =>
          Fresh(Put(cn, h, i, d), sent, Put(ap, h, q, e), b, q)
     /\ StreamOK(h, e) /\ Delivered(e, ap[k][q])
     /\ \/ e.phase \in Ended
        \/ ap[h][q].phase \notin Ended /\ Len(ap[h][q].rcvd) <= Len(e.rcvd)

LEMMA LaterKeeps ==
  ASSUME NEW cn, NEW nt, NEW ap, NEW lp, NEW x, NEW g, NEW b, NEW T, NEW h, NEW i, NEW q, NEW d,
         NEW e, NEW out, Num(cn, nt, ap, lp, x, g, b, T),
         LaterOK(cn, nt, ap, lp, x, g, b, T, h, i, q, d, e, out)
  PROVE  Num(Put(cn, h, i, d), nt \cup out, Put(ap, h, q, e), lp, x, g, b, T)
<1> USE DEF LaterOK
<1> DEFINE e0 == ap[h][q]
           f == ap[Peer(h)][q]
<1>1. /\ NumTyped(cn, nt, ap, lp, x, g, b, T) /\ Taken(lp, x, b, T)
      /\ ConnsNumbered(cn, ap, lp, x, g, b, T) /\ SegsNumbered(nt, ap, lp, x, b, T)
      /\ Streams(ap, g)
  BY DEF Num
<1>2. /\ cn \in [Host -> [Slot -> Conn]] /\ nt \subseteq Segment /\ ap \in Apps
      /\ lp \in 0..MaxPort /\ Issues(x) /\ g \subseteq Host /\ b \in [Port -> Nat] /\ T \subseteq Port
  BY <1>1 DEF NumTyped
<1>3. Peer(h) \in Host /\ Peer(Peer(h)) = h
  BY HostFacts, PeerFacts
<1>4. e0 \in Entry /\ f \in Entry
  BY <1>2, <1>3 DEF Apps, Entry
<1>5. Len(e0.rcvd) \in Nat /\ Len(e.rcvd) \in Nat /\ f.acked \in Nat
  BY <1>4, LenProperties DEF Entry
<1>6. Delivered(f, e0) /\ (h \in g => e0.phase \in Ended)
  BY <1>1, <1>3 DEF Streams
<1>7. Delivered(f, e)
  BY <1>5, <1>6 DEF Delivered
<1>8. \A j \in Slot : cn[Peer(h)][j].st # "CLOSED" /\ cn[Peer(h)][j].port = q =>
        ConnNumbered(Peer(h), cn[Peer(h)][j], f, lp, x, g, b, T)
  BY <1>1, <1>3 DEF ConnsNumbered
<1>9. \A s \in nt : s.port = q /\ s.to = h => SegNumbered(Peer(h), s, f, lp, x, b, T)
  BY <1>1 DEF SegsNumbered
<1>10. ASSUME NEW s \in nt, s.port = q, s.to = Peer(h) PROVE SegNumbered(h, s, e, lp, x, b, T)
  <2>1. SegNumbered(h, s, e0, lp, x, b, T)
    BY <1>1, <1>3, <1>10 DEF SegsNumbered
  <2>2. SUFFICES ASSUME AckOK(h, s, e0, b, T) PROVE AckOK(h, s, e, b, T)
    BY <2>1 DEF SegNumbered
  <2> DEFINE base == Base(b, Peer(h), s.port)
             m == Pos(base, Len(e0.rcvd))
             n == Pos(base, Len(e.rcvd))
  <2>3. base \in Nat
    BY <1>2, <1>3, <1>10, BaseNat
  <2> HIDE DEF base
  <2>4. m \in Nat /\ n \in Nat /\ (Len(e0.rcvd) <= Len(e.rcvd) => m <= n)
    BY <1>5, <2>3, PosFacts, PosOrder
  <2>5. s.ack \in Nat
    BY <1>2, <1>10 DEF Segment
  <2>6. e0.phase \in Ended \/ s.ack <= m => e.phase \in Ended \/ s.ack <= n
    <3> HIDE DEF m, n
    <3> QED BY <2>4, <2>5
  <2> QED BY <2>2, <2>6 DEF AckOK, base
<1>11. q \in T => q <= lp /\ b[q] \in x[q]
  BY <1>1 DEF Taken
<1>12. lp <= lp /\ Grown(x, x)
  BY <1>2 DEF Grown
<1>13. h \in g => e.phase \in Ended
  BY <1>6
<1>14. \A r \in Port \ {q} : b[r] = b[r] /\ (r \in T <=> r \in T)
  OBVIOUS
<1>15. EditOK(cn, nt, ap, lp, x, g, b, T, h, i, q, d, e, out, lp, x, b, T)
  BY <1>2, <1>7, <1>8, <1>9, <1>10, <1>11, <1>12, <1>13, <1>14 DEF EditOK
<1> QED
  BY <1>15, EditKeeps

\* What is known of a connection that is not closed, and of its program.
LEMMA ConnFacts ==
  ASSUME NEW cn, NEW nt, NEW ap, NEW lp, NEW x, NEW g, NEW b, NEW T,
         Num(cn, nt, ap, lp, x, g, b, T), NEW h \in Host, NEW i \in Slot, cn[h][i].st # "CLOSED"
  PROVE  /\ cn[h][i] \in Conn /\ cn[h][i].port \in Port /\ cn[h][i].port <= lp
         /\ ConnNumbered(h, cn[h][i], ap[h][cn[h][i].port], lp, x, g, b, T)
         /\ \A j \in Slot \ {i} : cn[h][j].st = "CLOSED" \/ cn[h][j].port # cn[h][i].port
         /\ ap[h][cn[h][i].port] \in Entry /\ ap[Peer(h)][cn[h][i].port] \in Entry
<1>1. cn \in Conns /\ ap \in Apps /\ Unique(cn) /\ ConnsNumbered(cn, ap, lp, x, g, b, T)
  BY DEF Num, NumTyped, Conns
<1>2. cn[h][i] \in Conn
  BY <1>1 DEF Conns
<1>3. ConnNumbered(h, cn[h][i], ap[h][cn[h][i].port], lp, x, g, b, T)
  BY <1>1 DEF ConnsNumbered
<1>4. cn[h][i].port \in Port /\ cn[h][i].port <= lp
  BY <1>3 DEF ConnNumbered
<1>5. ap[h][cn[h][i].port] \in Entry /\ ap[Peer(h)][cn[h][i].port] \in Entry
  BY <1>1, <1>4, HostFacts DEF Apps, Entry
<1>6. \A j \in Slot \ {i} : cn[h][j].st = "CLOSED" \/ cn[h][j].port # cn[h][i].port
  BY <1>1 DEF Unique
<1> QED
  BY <1>2, <1>3, <1>4, <1>5, <1>6

\* The same of a segment in the network.
LEMMA SegFacts ==
  ASSUME NEW cn, NEW nt, NEW ap, NEW lp, NEW x, NEW g, NEW b, NEW T,
         Num(cn, nt, ap, lp, x, g, b, T), NEW h \in Host, NEW s \in nt, s.to = h
  PROVE  /\ s \in Segment /\ s.port \in Port /\ s.port <= lp
         /\ SegNumbered(Peer(h), s, ap[Peer(h)][s.port], lp, x, b, T)
  BY DEF Num, NumTyped, SegsNumbered, SegNumbered, Segment

\* A change of a synchronised connection that stays one.
StepOK(cn, nt, ap, lp, x, g, b, T, h, i, d, e, out) ==
  LET c == cn[h][i]
      q == c.port
      k == Peer(h)
  IN /\ h \in Host /\ i \in Slot /\ d \in Conn /\ e \in Entry /\ out \subseteq Segment
     /\ c.st \in Synchronised /\ d.st \in Synchronised /\ d.port = q /\ d.p = c.p
     /\ SyncOK(h, d, e, b, T)
     /\ \A o \in out :
          o.to = k /\ o.port = q /\ SegNumbered(h, o, e, lp, x, b, T) /\ OwnSegment(d, o)
     /\ \A s \in nt : Owns(h, c, s) => OwnSegment(d, s)
     /\ \A j \in Slot : cn[k][j].st \in Synchronised /\ cn[k][j].port = q =>
          Agree(d, cn[k][j]) /\ Agree(cn[k][j], d)
     /\ h = Client /\ Fresh(cn, nt, ap, b, q) =>
          d.snd = c.snd /\ d.rcv = c.rcv /\ e.acked = ap[h][q].acked
     /\ StreamOK(h, e) /\ Delivered(e, ap[k][q])
     /\ \/ e.phase \in Ended
        \/ ap[h][q].phase \notin Ended /\ Len(ap[h][q].rcvd) <= Len(e.rcvd)

LEMMA StepKeeps ==
  ASSUME NEW cn, NEW nt, NEW ap, NEW lp, NEW x, NEW g, NEW b, NEW T, NEW h, NEW i, NEW d,
         NEW e, NEW out, Num(cn, nt, ap, lp, x, g, b, T),
         StepOK(cn, nt, ap, lp, x, g, b, T, h, i, d, e, out)
  PROVE  Num(Put(cn, h, i, d), nt \cup out, Put(ap, h, cn[h][i].port, e), lp, x, g, b, T)
<1> DEFINE c == cn[h][i]
           q == c.port
           cn2 == Put(cn, h, i, d)
           ap2 == Put(ap, h, q, e)
           sent == nt \cup out
<1>1. /\ h \in Host /\ i \in Slot /\ d \in Conn /\ e \in Entry /\ out \subseteq Segment
      /\ c.st \in Synchronised /\ d.st \in Synchronised /\ d.port = q /\ d.p = c.p
      /\ SyncOK(h, d, e, b, T)
  BY DEF StepOK
<1>2. c.st # "CLOSED" /\ c.st # "SYN_RCVD" /\ d.st # "SYN_SENT" /\ d.st # "SYN_RCVD"
  BY <1>1 DEF Synchronised, Handshake
<1>3. /\ c \in Conn /\ q \in Port /\ q <= lp
      /\ ConnNumbered(h, c, ap[h][q], lp, x, g, b, T)
      /\ \A j \in Slot \ {i} : cn[h][j].st = "CLOSED" \/ cn[h][j].port # q
  BY <1>1, <1>2, ConnFacts
<1>4. cn \in Conns /\ ap \in Apps /\ Opening(cn, nt, ap, b, T)
  BY DEF Num, NumTyped, Conns
<1>5. /\ cn2 \in Conns
      /\ \A m \in Host, j \in Slot : cn2[m][j] = IF m = h /\ j = i THEN d ELSE cn[m][j]
  BY <1>1, <1>4, CnUpdate
<1>6. ap2[h][q] = e
  BY <1>1, <1>3, <1>4, ApUpdate
<1>7. q \in T
  BY <1>1 DEF SyncOK
<1>8. ConnNumbered(h, d, e, lp, x, g, b, T)
  BY <1>1, <1>2, <1>3 DEF ConnNumbered
<1>9. \A s \in sent : Owns(h, d, s) => OwnSegment(d, s)
  <2>1. ASSUME NEW s \in nt, Owns(h, d, s) PROVE OwnSegment(d, s)
    <3>1. Owns(h, c, s)
      BY <1>1, <2>1 DEF Owns
    <3> QED BY <3>1 DEF StepOK
  <2> QED BY <2>1 DEF StepOK
<1>10. ASSUME Halfway(cn2, b, T, q) PROVE Fresh(cn2, sent, ap2, b, q)
  <2>1. PICK j \in Slot : cn2[Server][j].st = "SYN_RCVD" /\ cn2[Server][j].port = q
                          /\ cn2[Server][j].snd = b[q]
    BY <1>10 DEF Halfway
  <2>2. h = Client
    <3>1. SUFFICES ASSUME h = Server PROVE FALSE
      BY <1>1 DEF Host
    <3>2. j # i
      BY <1>1, <1>2, <1>5, <2>1, <3>1
    <3>3. cn[h][j].st = "SYN_RCVD" /\ cn[h][j].port = q
      BY <1>1, <1>5, <2>1, <3>1, <3>2
    <3> QED BY <1>3, <3>2, <3>3
  <2>3. cn2[Server][j] = cn[Server][j]
    BY <1>1, <1>5, <2>2, HostFacts, HostAssumption
  <2>4. Fresh(cn, nt, ap, b, q)
    <3>1. Halfway(cn, b, T, q)
      BY <1>7, <2>1, <2>3 DEF Halfway
    <3> QED BY <1>3, <1>4, <3>1 DEF Opening
  <2>5. d.snd = c.snd /\ d.rcv = c.rcv /\ e.acked = ap[h][q].acked
    BY <2>2, <2>4 DEF StepOK
  <2>6. \A s \in sent : s.to = Client => s \in nt
    BY <2>2, PeerFacts, HostFacts DEF StepOK
  <2>7. ASSUME NEW m \in Slot, cn2[Client][m].st \in Synchronised, cn2[Client][m].port = q
        PROVE  cn2[Client][m].snd = ClientIss[q] + 1 /\ cn2[Client][m].rcv = b[q] + 1
    <3>1. CASE m = i
      BY <1>1, <1>5, <2>2, <2>4, <2>5, <3>1 DEF Fresh
    <3>2. CASE m # i
      BY <1>1, <1>5, <2>2, <2>4, <2>7, <3>2 DEF Fresh
    <3> QED BY <3>1, <3>2
  <2> QED BY <1>6, <2>2, <2>4, <2>5, <2>6, <2>7 DEF Fresh
<1>11. LaterOK(cn, nt, ap, lp, x, g, b, T, h, i, q, d, e, out)
  BY <1>1, <1>3, <1>7, <1>8, <1>9, <1>10 DEF LaterOK, StepOK
<1> QED
  BY <1>11, LaterKeeps

LEMMA SyncFacts ==
  ASSUME NEW cn, NEW nt, NEW ap, NEW lp, NEW x, NEW g, NEW b, NEW T,
         Num(cn, nt, ap, lp, x, g, b, T), NEW h \in Host, NEW i \in Slot,
         cn[h][i].st \in Synchronised
  PROVE  LET c == cn[h][i]
             q == c.port
             e == ap[h][q]
             f == ap[Peer(h)][q]
         IN /\ c \in Conn /\ c.snd \in Nat /\ c.rcv \in Nat /\ c.len \in {0, 1, DataLen}
            /\ q \in T /\ q \in Port /\ q <= lp
            /\ Base(b, h, q) \in Nat /\ Base(b, Peer(h), q) \in Nat
            /\ e \in Entry /\ e.acked \in Nat /\ Len(e.rcvd) \in Nat
            /\ f \in Entry /\ f.acked \in Nat /\ Len(f.rcvd) \in Nat
            /\ SendOK(h, c, e, Base(b, h, q)) /\ ReceiveOK(h, c, e, Base(b, Peer(h), q))
            /\ StreamOK(h, e) /\ Delivered(e, f) /\ Delivered(f, e)
            /\ DataLen \in Nat \ {0} /\ ToSend[h] \in Nat /\ ToSend[Peer(h)] \in Nat
<1> DEFINE c == cn[h][i]
           q == c.port
           e == ap[h][q]
           f == ap[Peer(h)][q]
<1>1. c.st # "CLOSED"
  BY DEF Synchronised, Handshake
<1>2. /\ c \in Conn /\ q \in Port /\ q <= lp
      /\ ConnNumbered(h, c, e, lp, x, g, b, T)
      /\ e \in Entry /\ f \in Entry
  BY <1>1, ConnFacts
<1>3. c.snd \in Nat /\ c.rcv \in Nat /\ c.len \in {0, 1, DataLen}
  BY <1>2 DEF Conn
<1>4. b \in [Port -> Nat] /\ T \subseteq Port /\ Streams(ap, g)
  BY DEF Num, NumTyped
<1>5. Base(b, h, q) \in Nat /\ Base(b, Peer(h), q) \in Nat
  BY <1>2, <1>4, BaseNat, HostFacts
<1>6. SyncOK(h, c, e, b, T)
  BY <1>1, <1>2 DEF ConnNumbered
<1>7. e.acked \in Nat /\ Len(e.rcvd) \in Nat /\ f.acked \in Nat /\ Len(f.rcvd) \in Nat
  BY <1>2, LenProperties DEF Entry
<1>8. StreamOK(h, e) /\ Delivered(e, f)
  BY <1>2, <1>4 DEF Streams
<1>9. Delivered(f, e)
  BY <1>2, <1>4, HostFacts, PeerFacts DEF Streams
<1>10. DataLen \in Nat \ {0} /\ ToSend[h] \in Nat /\ ToSend[Peer(h)] \in Nat
  BY SizeAssumption, HostFacts
<1> QED
  BY <1>2, <1>3, <1>5, <1>6, <1>7, <1>8, <1>9, <1>10 DEF SyncOK

LEMMA OtherEnd ==
  ASSUME NEW cn, NEW nt, NEW ap, NEW lp, NEW x, NEW g, NEW b, NEW T,
         Num(cn, nt, ap, lp, x, g, b, T), NEW h \in Host, NEW i \in Slot, NEW j \in Slot,
         cn[h][i].st \in Synchronised, cn[Peer(h)][j].st \in Synchronised,
         cn[Peer(h)][j].port = cn[h][i].port
  PROVE  LET c == cn[h][i]
             d == cn[Peer(h)][j]
         IN /\ d.snd \in Nat /\ d.rcv \in Nat /\ d.len \in Nat
            /\ Agree(c, d) /\ Agree(d, c)
            /\ \A s \in nt : Valid(s) /\ s.to = h /\ s.port = c.port => OwnSegment(d, s)
<1>1. cn \in Conns /\ AllOwn(cn, nt) /\ AllAgree(cn)
  BY DEF Num, NumTyped, Conns
<1>2. Peer(h) \in Host /\ Peer(Peer(h)) = h /\ Peer(h) # h
  BY HostFacts, PeerFacts
<1> DEFINE c == cn[h][i]
           d == cn[Peer(h)][j]
<1>3. d \in Conn
  BY <1>1, <1>2 DEF Conns
<1>4. d.snd \in Nat /\ d.rcv \in Nat /\ d.len \in Nat
  BY <1>3, SizeAssumption DEF Conn
<1>5. \A s \in nt : Valid(s) /\ s.to = h /\ s.port = c.port => OwnSegment(d, s)
  BY <1>1, <1>2 DEF AllOwn, Owns
<1>6. Agree(c, d) /\ Agree(d, c)
  <2>1. CASE h = Client
    BY <1>1, <1>2, <2>1 DEF AllAgree, Agree, Peer
  <2>2. CASE h = Server
    BY <1>1, <1>2, <2>2 DEF AllAgree, Agree, Peer
  <2> QED BY <2>1, <2>2 DEF Host
<1> QED
  BY <1>4, <1>5, <1>6

LEMMA SizeFacts ==
  ASSUME NEW s \in Segment
  PROVE  /\ s.seq \in Nat /\ s.ack \in Nat /\ s.data \in Nat /\ Size(s) \in Nat
         /\ s.data # 0 /\ "FIN" \notin s.flags => Size(s) = DataLen
         /\ s.data = 0 /\ "FIN" \in s.flags => Size(s) = 1
         /\ s.data = 0 /\ "FIN" \notin s.flags <=> Size(s) = 0
<1>1. s.seq \in Nat /\ s.ack \in Nat /\ s.data \in Nat
  BY DEF Segment
<1>2. DataLen \in Nat /\ DataLen > 0
  BY SizeAssumption
<1>3. /\ s.data = 0 => Length(s) = 0
      /\ s.data # 0 => Length(s) = DataLen
  BY DEF Length
<1>4. /\ "FIN" \in s.flags => Size(s) = Length(s) + 1
      /\ "FIN" \notin s.flags => Size(s) = Length(s)
  BY DEF Size
<1> QED
  BY <1>1, <1>2, <1>3, <1>4

\* UIP_ACKDATA for a synchronised connection: what was outstanding had arrived.
LEMMA AckKeeps ==
  ASSUME NEW cn, NEW nt, NEW ap, NEW lp, NEW x, NEW g, NEW b, NEW T,
         Num(cn, nt, ap, lp, x, g, b, T), NEW h \in Host, NEW i \in Slot,
         cn[h][i].st \in Synchronised, NEW s \in nt, Valid(s), s.to = h, s.port = cn[h][i].port,
         Acks(cn[h][i], s),
         NEW d \in Conn, d.st = cn[h][i].st, d.port = cn[h][i].port, d.p = cn[h][i].p,
         d.rcv = cn[h][i].rcv, d.snd = cn[h][i].snd + cn[h][i].len, d.len = 0,
         NEW e \in Entry, e.phase = ap[h][cn[h][i].port].phase,
         e.rcvd = ap[h][cn[h][i].port].rcvd,
         e.acked = IF cn[h][i].st = "ESTABLISHED" THEN ap[h][cn[h][i].port].acked + 1
                                                ELSE ap[h][cn[h][i].port].acked
  PROVE  Num(Put(cn, h, i, d), nt \cup {}, Put(ap, h, cn[h][i].port, e), lp, x, g, b, T)
<1> DEFINE c == cn[h][i]
           q == c.port
           k == Peer(h)
           e0 == ap[h][q]
           f == ap[k][q]
           base == Base(b, h, q)
<1>0. /\ c.st \in Synchronised /\ s.port = q /\ Acks(c, s)
      /\ d.st = c.st /\ d.port = q /\ d.p = c.p /\ d.rcv = c.rcv /\ d.snd = c.snd + c.len
      /\ e.phase = e0.phase /\ e.rcvd = e0.rcvd
      /\ e.acked = IF c.st = "ESTABLISHED" THEN e0.acked + 1 ELSE e0.acked
  OBVIOUS
<1>1. /\ c \in Conn /\ c.snd \in Nat /\ c.rcv \in Nat /\ c.len \in {0, 1, DataLen}
      /\ q \in T /\ q \in Port /\ base \in Nat
      /\ e0 \in Entry /\ e0.acked \in Nat /\ Len(e0.rcvd) \in Nat /\ Len(f.rcvd) \in Nat
      /\ SendOK(h, c, e0, base) /\ ReceiveOK(h, c, e0, Base(b, k, q))
      /\ StreamOK(h, e0) /\ Delivered(e0, f)
      /\ DataLen \in Nat \ {0} /\ ToSend[h] \in Nat
  BY SyncFacts, ZenonT(150)
<1>2. k \in Host /\ Peer(k) = h
  BY HostFacts, PeerFacts
<1>4. SegNumbered(k, s, f, lp, x, b, T)
  BY SegFacts
<1> HIDE DEF c, q, k, e0, f, base
<1>3. "ACK" \in s.flags /\ c.len \in Nat /\ c.len > 0 /\ s.ack = c.snd + c.len
  BY <1>0, <1>1 DEF Acks
<1>5. AckOK(k, s, f, b, T)
  BY <1>4 DEF SegNumbered
<1>6. c.st = "ESTABLISHED" =>
        /\ c.p /\ c.len = DataLen /\ e0.acked < ToSend[h]
        /\ c.snd = Pos(base, e0.acked) /\ c.snd + c.len = Pos(base, e0.acked + 1)
  <2>1. Pos(base, e0.acked + 1) = Pos(base, e0.acked) + DataLen
    BY <1>0, <1>1, PosFacts
  <2>2. c.st = "ESTABLISHED" =>
          c.p /\ c.len = DataLen /\ e0.acked < ToSend[h] /\ c.snd = Pos(base, e0.acked)
    BY <1>0, <1>1, <1>3 DEF SendOK, Counted
  <2> QED BY <2>1, <2>2
<1>7. SyncOK(h, d, e, b, T)
  <2>1. SendOK(h, d, e, base)
    BY <1>0, <1>1, <1>6 DEF SendOK, Counted
  <2>2. ReceiveOK(h, d, e, Base(b, k, q))
    BY <1>0, <1>1 DEF ReceiveOK
  <2> QED BY <1>0, <1>1, <2>1, <2>2 DEF SyncOK, base, k
<1>8. \A r \in nt : Owns(h, c, r) => OwnSegment(d, r)
  <2> SUFFICES ASSUME NEW r \in nt, Owns(h, c, r) PROVE OwnSegment(d, r)
    OBVIOUS
  <2>1. OwnSegment(c, r)
    BY DEF Num, AllOwn, c
  <2>2. r \in Segment
    BY DEF Num, NumTyped
  <2>3. r.seq \in Nat /\ Size(r) \in Nat
    BY <1>0, <1>1, <2>2 DEF Segment, Size, Length
  <2> QED BY <1>0, <1>1, <1>3, <2>1, <2>3 DEF OwnSegment
<1>9. ASSUME NEW j \in Slot, cn[k][j].st \in Synchronised, cn[k][j].port = q
      PROVE  Agree(d, cn[k][j]) /\ Agree(cn[k][j], d)
  <2> DEFINE d2 == cn[k][j]
  <2>1. /\ d2.snd \in Nat /\ d2.rcv \in Nat /\ d2.len \in Nat /\ Agree(c, d2)
        /\ OwnSegment(d2, s)
    BY <1>0, <1>9, OtherEnd DEF c, q, k
  <2> HIDE DEF d2
  <2>2. s.ack <= d2.rcv
    BY <1>3, <2>1 DEF OwnSegment
  <2>3. d2.rcv = c.snd + c.len
    BY <1>0, <1>1, <1>3, <2>1, <2>2 DEF Agree
  <2>4. Agree(d, d2) /\ Agree(d2, d)
    BY <1>0, <1>1, <1>3, <2>1, <2>3 DEF Agree
  <2> QED BY <2>4 DEF d2
<1>10. ~(h = Client /\ Fresh(cn, nt, ap, b, q))
  <2> SUFFICES ASSUME h = Client, Fresh(cn, nt, ap, b, q) PROVE FALSE
    OBVIOUS
  <2>1. EmptySeg(s)
    BY <1>0 DEF Fresh
  <2>2. c.snd = ClientIss[q] + 1
    BY <1>0 DEF Fresh, c
  <2>3. s.ack = ClientIss[q] + 1
    BY <1>0, <1>3, <2>1 DEF EmptySeg
  <2> QED BY <1>0, <1>1, <1>3, <2>2, <2>3
<1>11. Delivered(e, f)
  <2>1. CASE c.st # "ESTABLISHED"
    BY <1>0, <1>1, <2>1 DEF Delivered
  <2>2. CASE c.st = "ESTABLISHED"
    <3>1. f.phase \in Ended \/ s.ack <= Pos(base, Len(f.rcvd))
      <4>1. s.ack # 0
        BY <1>0, <1>1, <1>3
      <4> QED BY <1>0, <1>2, <1>3, <1>5, <4>1 DEF AckOK, base
    <3>2. s.ack = Pos(base, e0.acked + 1)
      BY <1>3, <1>6, <2>2
    <3>3. Pos(base, e0.acked + 1) <= Pos(base, Len(f.rcvd)) => e0.acked + 1 <= Len(f.rcvd)
      BY <1>0, <1>1, PosOrder
    <3> QED BY <1>0, <2>2, <3>1, <3>2, <3>3 DEF Delivered
  <2> QED BY <2>1, <2>2
<1>12. StreamOK(h, e)
  BY <1>0, <1>1, <1>6 DEF StreamOK
<1>13. e.phase \in Ended \/ (e0.phase \notin Ended /\ Len(e0.rcvd) <= Len(e.rcvd))
  BY <1>0, <1>1
<1>14. StepOK(cn, nt, ap, lp, x, g, b, T, h, i, d, e, {})
  BY <1>0, <1>1, <1>7, <1>8, <1>9, <1>10, <1>11, <1>12, <1>13 DEF StepOK, c, q, k, e0, f
<1> QED
  BY <1>14, StepKeeps DEF c, q

\* What takes room in the stream is the segment that was expected: the next of the program's,
\* or the end.
LEMMA ReceiveKeeps ==
  ASSUME NEW cn, NEW nt, NEW ap, NEW lp, NEW x, NEW g, NEW b, NEW T,
         Num(cn, nt, ap, lp, x, g, b, T), NEW h \in Host, NEW i \in Slot,
         cn[h][i].st \in Synchronised, NEW s \in nt, Valid(s), s.to = h, s.port = cn[h][i].port,
         Size(s) > 0, s.seq = cn[h][i].rcv,
         NEW d \in Conn, d.st \in Synchronised, d.port = cn[h][i].port, d.p = cn[h][i].p,
         d.snd = cn[h][i].snd, d.len = cn[h][i].len, d.rcv = cn[h][i].rcv + Size(s),
         d.st = "ESTABLISHED" => cn[h][i].st = "ESTABLISHED",
         d.st = cn[h][i].st \/ d.len = 0 \/ cn[h][i].st # "ESTABLISHED",
         NEW e \in Entry, e.acked = ap[h][cn[h][i].port].acked,
         \/ /\ d.st = "ESTABLISHED" /\ d.p /\ "FIN" \notin s.flags
            /\ e.phase = ap[h][cn[h][i].port].phase
            /\ e.rcvd = Got(ap[h][cn[h][i].port].rcvd, s.data)
         \/ /\ ~(d.st = "ESTABLISHED" /\ d.p)
            /\ e.phase \in Ended /\ e.rcvd = ap[h][cn[h][i].port].rcvd
  PROVE  Num(Put(cn, h, i, d), nt \cup {}, Put(ap, h, cn[h][i].port, e), lp, x, g, b, T)
<1> DEFINE c == cn[h][i]
           q == c.port
           k == Peer(h)
           e0 == ap[h][q]
           f == ap[k][q]
           base == Base(b, k, q)
<1>0. /\ c.st \in Synchronised /\ s.port = q /\ s.seq = c.rcv
      /\ d.port = q /\ d.p = c.p /\ d.snd = c.snd /\ d.len = c.len /\ d.rcv = c.rcv + Size(s)
      /\ d.st = "ESTABLISHED" => c.st = "ESTABLISHED"
      /\ d.st = c.st \/ d.len = 0 \/ c.st # "ESTABLISHED"
      /\ e.acked = e0.acked
      /\ \/ /\ d.st = "ESTABLISHED" /\ d.p /\ "FIN" \notin s.flags
            /\ e.phase = e0.phase /\ e.rcvd = Got(e0.rcvd, s.data)
         \/ ~(d.st = "ESTABLISHED" /\ d.p) /\ e.phase \in Ended /\ e.rcvd = e0.rcvd
  OBVIOUS
<1>1. /\ c \in Conn /\ c.snd \in Nat /\ c.rcv \in Nat /\ c.len \in {0, 1, DataLen}
      /\ q \in T /\ q \in Port /\ Base(b, h, q) \in Nat /\ base \in Nat
      /\ e0 \in Entry /\ e0.acked \in Nat /\ Len(e0.rcvd) \in Nat /\ Len(f.rcvd) \in Nat
      /\ SendOK(h, c, e0, Base(b, h, q)) /\ ReceiveOK(h, c, e0, base)
      /\ StreamOK(h, e0) /\ Delivered(e0, f)
      /\ DataLen \in Nat \ {0} /\ ToSend[k] \in Nat
  BY SyncFacts, ZenonT(150)
<1>2. k \in Host /\ Peer(k) = h
  BY HostFacts, PeerFacts
<1>3. s \in Segment /\ SegNumbered(k, s, f, lp, x, b, T)
  BY SegFacts
<1> HIDE DEF c, q, k, e0, f, base
<1> DEFINE n == Len(e0.rcvd)
<1>4. /\ s.data \in Nat /\ Size(s) \in Nat /\ ~(s.data = 0 /\ "FIN" \notin s.flags)
      /\ s.data # 0 /\ "FIN" \notin s.flags => Size(s) = DataLen
      /\ s.data = 0 /\ "FIN" \in s.flags => Size(s) = 1
  BY <1>3, SizeFacts
<1>n. n \in Nat
  BY <1>1
<1> HIDE DEF n
\* It is a data segment or the end.
<1>5. \/ /\ "FIN" \notin s.flags /\ Size(s) = DataLen /\ s.data \in 1..ToSend[k]
         /\ s.seq = Pos(base, s.data - 1)
      \/ "FIN" \in s.flags /\ Size(s) = 1 /\ s.seq <= Pos(base, ToSend[k])
  <2>1. DataSeg(k, s, b, T) \/ FinSeg(k, s, b, T)
    <3>1. ~SynSeg(k, s, x)
      BY <1>4 DEF SynSeg
    <3> QED BY <1>3, <3>1 DEF SegNumbered
  <2>2. CASE DataSeg(k, s, b, T)
    <3>1. "FIN" \notin s.flags /\ s.data # 0
      BY <1>4, <2>2 DEF DataSeg
    <3>2. Size(s) = DataLen
      BY <1>4, <3>1
    <3> QED BY <1>0, <2>2, <3>1, <3>2 DEF DataSeg, base
  <2>3. CASE FinSeg(k, s, b, T)
    BY <1>0, <1>4, <2>3 DEF FinSeg, base
  <2> QED BY <2>1, <2>2, <2>3
<1>6. /\ Pos(base, n + 1) = Pos(base, n) + DataLen /\ Pos(base, n) \in Nat
      /\ Pos(base, ToSend[k]) \in Nat
  BY <1>1, <1>n, PosFacts
<1>7. "FIN" \notin s.flags =>
        /\ s.data - 1 \in Nat /\ Pos(base, s.data) = s.seq + DataLen
        /\ Pos(base, s.data) <= Pos(base, ToSend[k])
  <2> SUFFICES ASSUME "FIN" \notin s.flags
               PROVE  /\ s.data - 1 \in Nat /\ Pos(base, s.data) = s.seq + DataLen
                      /\ Pos(base, s.data) <= Pos(base, ToSend[k])
    OBVIOUS
  <2>0. s.data \in 1..ToSend[k] /\ s.seq = Pos(base, s.data - 1)
    BY <1>5
  <2>1. s.data - 1 \in Nat /\ (s.data - 1) + 1 = s.data /\ s.data <= ToSend[k]
        /\ s.seq = Pos(base, s.data - 1)
    BY <1>1, <1>4, <2>0
  <2>2. Pos(base, (s.data - 1) + 1) = Pos(base, s.data - 1) + DataLen
    BY <1>1, <2>1, PosFacts
  <2>3. Pos(base, s.data) <= Pos(base, ToSend[k])
    BY <1>1, <1>4, <2>1, PosOrder
  <2> QED BY <2>1, <2>2, <2>3
<1>8. d.st = "ESTABLISHED" /\ d.p => s.data = n + 1 /\ d.rcv = Pos(base, n + 1)
  <2> SUFFICES ASSUME d.st = "ESTABLISHED", d.p PROVE s.data = n + 1 /\ d.rcv = Pos(base, n + 1)
    OBVIOUS
  <2>1. "FIN" \notin s.flags /\ c.st = "ESTABLISHED" /\ c.p
    BY <1>0
  <2>2. c.rcv = Pos(base, n)
    BY <1>1, <2>1 DEF ReceiveOK, n
  <2> DEFINE m == s.data - 1
  <2>3. m \in Nat /\ Pos(base, m) = Pos(base, n)
    BY <1>0, <1>5, <1>7, <2>1, <2>2
  <2>a. s.data = m + 1
    BY <1>4
  <2> HIDE DEF m
  <2>4. (Pos(base, m) <= Pos(base, n) => m <= n) /\ (Pos(base, n) <= Pos(base, m) => n <= m)
    BY <1>1, <1>n, <2>3, PosOrder
  <2>5. m = n
    BY <1>n, <1>6, <2>3, <2>4
  <2>6. Size(s) = DataLen
    BY <1>5, <2>1
  <2> QED BY <1>0, <1>6, <2>2, <2>5, <2>6, <2>a
<1>9. d.st = "ESTABLISHED" /\ d.p =>
        Len(e.rcvd) = n + 1 /\ \A m \in DOMAIN e.rcvd : e.rcvd[m] = IF m = n + 1 THEN s.data ELSE m
  <2> DEFINE r == e0.rcvd
  <2>1. r \in Seq(Nat) /\ n = Len(r)
    BY <1>1 DEF Entry, n
  <2>2. \A m \in DOMAIN r : r[m] = m
    BY <1>1 DEF StreamOK
  <2> HIDE DEF r
  <2>3. Len(Append(r, s.data)) = n + 1
        /\ \A m \in DOMAIN Append(r, s.data) :
             Append(r, s.data)[m] = IF m = n + 1 THEN s.data ELSE m
    BY <1>4, <2>1, <2>2, AppendProperties, LenProperties
  <2>4. d.st = "ESTABLISHED" /\ d.p => e.rcvd = Append(r, s.data)
    BY <1>0, <1>5, <1>7, <1>4 DEF Got, r
  <2> QED BY <2>3, <2>4
<1>10. SyncOK(h, d, e, b, T)
  <2>1. SendOK(h, d, e, Base(b, h, q))
    BY <1>0, <1>1 DEF SendOK, Counted
  <2>2. ReceiveOK(h, d, e, base)
    <3>1. d.rcv <= Pos(base, ToSend[k]) + 1
      BY <1>0, <1>1, <1>5, <1>6, <1>7
    <3>2. base + 1 <= d.rcv
      BY <1>0, <1>1, <1>4 DEF ReceiveOK
    <3>3. d.st = "ESTABLISHED" /\ d.p => d.rcv = Pos(base, Len(e.rcvd))
      BY <1>8, <1>9
    <3> QED BY <1>0, <3>1, <3>2, <3>3 DEF ReceiveOK, k
  <2> QED BY <1>0, <1>1, <2>1, <2>2 DEF SyncOK, base, k
<1>11. \A r \in nt : Owns(h, c, r) => OwnSegment(d, r)
  <2> SUFFICES ASSUME NEW r \in nt, Owns(h, c, r) PROVE OwnSegment(d, r)
    OBVIOUS
  <2>1. OwnSegment(c, r)
    BY DEF Num, AllOwn, c
  <2>2. r \in Segment
    BY DEF Num, NumTyped
  <2>3. r.ack \in Nat
    BY <2>2 DEF Segment
  <2> QED BY <1>0, <1>1, <1>4, <2>1, <2>3 DEF OwnSegment
<1>12. ASSUME NEW j \in Slot, cn[k][j].st \in Synchronised, cn[k][j].port = q
      PROVE  Agree(d, cn[k][j]) /\ Agree(cn[k][j], d)
  <2> DEFINE d2 == cn[k][j]
  <2>1. /\ d2.snd \in Nat /\ d2.rcv \in Nat /\ d2.len \in Nat /\ Agree(c, d2)
        /\ OwnSegment(d2, s)
    BY <1>0, <1>12, OtherEnd DEF c, q, k
  <2> HIDE DEF d2
  <2>2. c.rcv = d2.snd /\ Size(s) = d2.len
    BY <1>0, <1>1, <1>4, <2>1 DEF OwnSegment, Agree
  <2>3. Agree(d, d2) /\ Agree(d2, d)
    BY <1>0, <1>1, <1>4, <2>1, <2>2 DEF Agree
  <2> QED BY <2>3 DEF d2
<1>13. ~(h = Client /\ Fresh(cn, nt, ap, b, q))
  <2> SUFFICES ASSUME h = Client, Fresh(cn, nt, ap, b, q) PROVE FALSE
    OBVIOUS
  <2>1. EmptySeg(s)
    BY <1>0 DEF Fresh
  <2> QED BY <1>4, <2>1 DEF EmptySeg
<1>14. Delivered(e, f)
  BY <1>0, <1>1 DEF Delivered
<1>15. StreamOK(h, e)
  <2>1. CASE d.st = "ESTABLISHED" /\ d.p
    <3>1. s.data = n + 1 /\ s.data <= ToSend[k]
      BY <1>0, <1>4, <1>5, <1>8, <2>1
    <3> QED BY <1>0, <1>1, <1>9, <2>1, <3>1 DEF StreamOK, k
  <2>2. CASE ~(d.st = "ESTABLISHED" /\ d.p)
    BY <1>0, <1>1, <2>2 DEF StreamOK
  <2> QED BY <2>1, <2>2
<1>16. e.phase \in Ended \/ (e0.phase \notin Ended /\ Len(e0.rcvd) <= Len(e.rcvd))
  BY <1>0, <1>1, <1>9 DEF n
<1>17. StepOK(cn, nt, ap, lp, x, g, b, T, h, i, d, e, {})
  BY <1>0, <1>1, <1>10, <1>11, <1>12, <1>13, <1>14, <1>15, <1>16 DEF StepOK, c, q, k, e0, f
<1> QED
  BY <1>17, StepKeeps DEF c, q

\* The same, its conditions together.
Receipt(c, e0, s, d, e) ==
  /\ c.st \in Synchronised /\ s.port = c.port /\ Size(s) > 0 /\ s.seq = c.rcv
  /\ d \in Conn /\ d.st \in Synchronised /\ d.port = c.port /\ d.p = c.p
  /\ d.snd = c.snd /\ d.len = c.len /\ d.rcv = c.rcv + Size(s)
  /\ d.st = "ESTABLISHED" => c.st = "ESTABLISHED"
  /\ d.st = c.st \/ d.len = 0 \/ c.st # "ESTABLISHED"
  /\ e \in Entry /\ e.acked = e0.acked
  /\ \/ /\ d.st = "ESTABLISHED" /\ d.p /\ "FIN" \notin s.flags
        /\ e.phase = e0.phase /\ e.rcvd = Got(e0.rcvd, s.data)
     \/ /\ ~(d.st = "ESTABLISHED" /\ d.p)
        /\ e.phase \in Ended /\ e.rcvd = e0.rcvd

LEMMA ReceiptKeeps ==
  ASSUME NEW cn, NEW nt, NEW ap, NEW lp, NEW x, NEW g, NEW b, NEW T,
         Num(cn, nt, ap, lp, x, g, b, T), NEW h \in Host, NEW i \in Slot,
         NEW s \in nt, Valid(s), s.to = h, NEW d, NEW e,
         Receipt(cn[h][i], ap[h][cn[h][i].port], s, d, e)
  PROVE  Num(Put(cn, h, i, d), nt, Put(ap, h, cn[h][i].port, e), lp, x, g, b, T)
<1>1. Num(Put(cn, h, i, d), nt \cup {}, Put(ap, h, cn[h][i].port, e), lp, x, g, b, T)
  BY ReceiveKeeps DEF Receipt
<1>2. nt \cup {} = nt
  OBVIOUS
<1> QED
  BY <1>1, <1>2

LEMMA SegmFields ==
  ASSUME NEW h, NEW c, NEW flags, NEW data, NEW s, s = Segm(h, c, flags, data)
  PROVE  /\ s.to = Peer(h) /\ s.port = c.port /\ s.seq = c.snd /\ s.ack = c.rcv
         /\ s.flags = flags /\ s.data = data
  BY DEF Segm

\* What a synchronised connection sends: an acknowledgement, its data, or its end.
Outgoing(h, d, e, out) ==
  \/ out = {}
  \/ out = {Segm(h, d, {"ACK"}, 0)}
  \/ d.st = "ESTABLISHED" /\ d.len > 0 /\ out = {Segm(h, d, {"ACK"}, e.acked + 1)}
  \/ d.st # "ESTABLISHED" /\ d.len > 0 /\ out = {Segm(h, d, {"FIN", "ACK"}, 0)}

LEMMA OutTyped ==
  ASSUME NEW h \in Host, NEW d \in Conn, d.port \in Port, NEW e \in Entry, NEW out,
         Outgoing(h, d, e, out)
  PROVE  out \in SUBSET Segment
<1>1. e.acked + 1 \in Nat
  BY DEF Entry
<1>2. /\ Segm(h, d, {"ACK"}, 0) \in Segment /\ Segm(h, d, {"ACK"}, e.acked + 1) \in Segment
      /\ Segm(h, d, {"FIN", "ACK"}, 0) \in Segment
  BY <1>1, SegmentTyped
<1> QED
  BY <1>2 DEF Outgoing

\* Sending, for the first time or again, with or without a change of the state.
LEMMA OutKeeps ==
  ASSUME NEW cn, NEW nt, NEW ap, NEW lp, NEW x, NEW g, NEW b, NEW T,
         Num(cn, nt, ap, lp, x, g, b, T), NEW h \in Host, NEW i \in Slot,
         cn[h][i].st \in Synchronised,
         NEW d \in Conn, d.st \in Synchronised, d.port = cn[h][i].port, d.p = cn[h][i].p,
         d.snd = cn[h][i].snd, d.rcv = cn[h][i].rcv, d.len = cn[h][i].len \/ cn[h][i].len = 0,
         d.st = "ESTABLISHED" => cn[h][i].st = "ESTABLISHED",
         NEW e \in Entry, e.acked = ap[h][cn[h][i].port].acked,
         e.rcvd = ap[h][cn[h][i].port].rcvd,
         e.phase = ap[h][cn[h][i].port].phase \/ e.phase \in Ended,
         d.st # "ESTABLISHED" => e.phase \in Ended,
         SendOK(h, d, e, Base(b, h, d.port)), NEW out, Outgoing(h, d, e, out)
  PROVE  Num(Put(cn, h, i, d), nt \cup out, Put(ap, h, cn[h][i].port, e), lp, x, g, b, T)
<1> DEFINE c == cn[h][i]
           q == c.port
           k == Peer(h)
           e0 == ap[h][q]
           f == ap[k][q]
           base == Base(b, k, q)
           mine == Base(b, h, q)
<1>0. /\ c.st \in Synchronised
      /\ d.port = q /\ d.p = c.p /\ d.snd = c.snd /\ d.rcv = c.rcv /\ (d.len = c.len \/ c.len = 0)
      /\ d.st = "ESTABLISHED" => c.st = "ESTABLISHED"
      /\ e.acked = e0.acked /\ e.rcvd = e0.rcvd /\ (e.phase = e0.phase \/ e.phase \in Ended)
      /\ d.st # "ESTABLISHED" => e.phase \in Ended
      /\ SendOK(h, d, e, mine)
  OBVIOUS
<1>1. /\ c \in Conn /\ c.snd \in Nat /\ c.rcv \in Nat /\ c.len \in {0, 1, DataLen}
      /\ q \in T /\ q \in Port /\ q <= lp /\ mine \in Nat /\ base \in Nat
      /\ e0 \in Entry /\ e0.acked \in Nat /\ Len(e0.rcvd) \in Nat /\ Len(f.rcvd) \in Nat
      /\ SendOK(h, c, e0, mine) /\ ReceiveOK(h, c, e0, base)
      /\ StreamOK(h, e0) /\ Delivered(e0, f)
      /\ DataLen \in Nat \ {0} /\ ToSend[h] \in Nat
  BY SyncFacts, ZenonT(60)
<1>2. k \in Host /\ Peer(k) = h
  BY HostFacts, PeerFacts
<1> HIDE DEF c, q, k, e0, f, base, mine
<1>3. d.len \in {0, 1, DataLen}
  BY DEF Conn
<1>4. ReceiveOK(h, d, e, base)
  BY <1>0, <1>1 DEF ReceiveOK
<1>5. SyncOK(h, d, e, b, T)
  BY <1>0, <1>1, <1>4 DEF SyncOK, base, mine, k
<1>6. StreamOK(h, e)
  BY <1>0, <1>1 DEF StreamOK
<1>7. out \subseteq Segment
  BY <1>0, <1>1, OutTyped
<1>8. ASSUME NEW o \in out
      PROVE  o.to = k /\ o.port = q /\ SegNumbered(h, o, e, lp, x, b, T) /\ OwnSegment(d, o)
  <2>1. /\ o.to = k /\ o.port = q /\ o.seq = d.snd /\ o.ack = d.rcv /\ "ACK" \in o.flags
        /\ "RST" \notin o.flags
    BY <1>0, <1>8, SegmFields DEF Outgoing, k
  <2>2. \/ o.flags = {"ACK"} /\ o.data = 0
        \/ d.st = "ESTABLISHED" /\ d.len > 0 /\ o.flags = {"ACK"} /\ o.data = e.acked + 1
        \/ d.st # "ESTABLISHED" /\ d.len > 0 /\ o.flags = {"FIN", "ACK"} /\ o.data = 0
    BY <1>8, SegmFields DEF Outgoing
  <2>3. AckOK(h, o, e, b, T)
    <3>1. e.phase \in Ended \/ d.rcv = Pos(base, Len(e.rcvd))
      BY <1>4 DEF ReceiveOK
    <3>2. Pos(base, Len(e.rcvd)) \in Nat /\ d.rcv \in Nat
      BY <1>0, <1>1, PosFacts
    <3> QED BY <1>1, <1>4, <2>1, <3>1, <3>2 DEF AckOK, ReceiveOK, base, k
  <2>4. o \in Segment
    BY <1>7
  <2>5. CASE o.flags = {"ACK"} /\ o.data = 0
    <3>1. Size(o) = 0
      BY <2>4, <2>5, SizeFacts
    <3>2. DataSeg(h, o, b, T)
      BY <2>5 DEF DataSeg
    <3> QED BY <1>0, <1>1, <2>1, <2>3, <3>1, <3>2 DEF SegNumbered, OwnSegment
  <2>6. CASE d.st = "ESTABLISHED" /\ d.len > 0 /\ o.flags = {"ACK"} /\ o.data = e.acked + 1
    <3>1. d.len = DataLen /\ d.p /\ e.acked < ToSend[h] /\ d.snd = Pos(mine, e.acked)
      BY <1>0, <2>6 DEF SendOK, Counted
    <3>2. o.data \in 1..ToSend[h] /\ o.data - 1 = e.acked
      BY <1>0, <1>1, <2>6, <3>1, SMTT(30)
    <3>3. Size(o) = d.len
      BY <2>4, <2>6, <3>1, <3>2, SizeFacts, SMTT(30)
    <3>4. DataSeg(h, o, b, T)
      BY <1>1, <2>1, <2>6, <3>1, <3>2 DEF DataSeg, mine
    <3> QED BY <1>0, <1>1, <2>1, <2>3, <3>3, <3>4 DEF SegNumbered, OwnSegment
  <2>7. CASE d.st # "ESTABLISHED" /\ d.len > 0 /\ o.flags = {"FIN", "ACK"} /\ o.data = 0
    <3>1. d.len = 1 /\ d.snd = Pos(mine, Counted(d, e))
      BY <1>0, <2>7 DEF SendOK
    <3>2. Counted(d, e) \in Nat /\ Counted(d, e) <= ToSend[h]
      BY <1>0, <1>1, <1>6 DEF Counted, StreamOK
    <3>3. Pos(mine, Counted(d, e)) <= Pos(mine, ToSend[h])
      BY <1>1, <3>2, PosOrder
    <3>4. Size(o) = 1
      BY <2>4, <2>7, SizeFacts
    <3>5. FinSeg(h, o, b, T)
      BY <1>1, <2>1, <2>7, <3>1, <3>3 DEF FinSeg, mine
    <3> QED BY <1>0, <1>1, <2>1, <2>3, <3>1, <3>4, <3>5 DEF SegNumbered, OwnSegment
  <2> QED BY <2>2, <2>5, <2>6, <2>7
<1>9. \A r \in nt : Owns(h, c, r) => OwnSegment(d, r)
  <2> SUFFICES ASSUME NEW r \in nt, Owns(h, c, r) PROVE OwnSegment(d, r)
    OBVIOUS
  <2>1. OwnSegment(c, r)
    BY DEF Num, AllOwn, c
  <2>2. r \in Segment
    BY DEF Num, NumTyped
  <2>3. r.seq \in Nat /\ r.ack \in Nat /\ Size(r) \in Nat
    BY <2>2, SizeFacts
  <2> QED BY <1>0, <1>1, <2>1, <2>3 DEF OwnSegment
<1>10. ASSUME NEW j \in Slot, cn[k][j].st \in Synchronised, cn[k][j].port = q
      PROVE  Agree(d, cn[k][j]) /\ Agree(cn[k][j], d)
  <2> DEFINE d2 == cn[k][j]
  <2>1. d2.snd \in Nat /\ d2.rcv \in Nat /\ d2.len \in Nat /\ Agree(c, d2)
    BY <1>0, <1>10, OtherEnd DEF c, q, k
  <2> HIDE DEF d2
  <2>2. Agree(d, d2) /\ Agree(d2, d)
    BY <1>0, <1>1, <1>3, <2>1 DEF Agree
  <2> QED BY <2>2 DEF d2
<1>11. Delivered(e, f)
  BY <1>0, <1>1 DEF Delivered
<1>12. e.phase \in Ended \/ (e0.phase \notin Ended /\ Len(e0.rcvd) <= Len(e.rcvd))
  BY <1>0, <1>1
<1>13. StepOK(cn, nt, ap, lp, x, g, b, T, h, i, d, e, out)
  BY <1>0, <1>1, <1>5, <1>6, <1>7, <1>8, <1>9, <1>10, <1>11, <1>12 DEF StepOK, c, q, k, e0, f
<1> QED
  BY <1>13, StepKeeps DEF c, q

--------------------------------------------------------------------------------
(* Losing segments, resets, closing.                                            *)

\* Putting back what was there, and putting twice.
LEMMA PutConn ==
  ASSUME NEW cn \in Conns, NEW h \in Host, NEW i \in Slot, NEW c \in Conn, NEW d
  PROVE  /\ Put(cn, h, i, cn[h][i]) = cn
         /\ Put(Put(cn, h, i, c), h, i, d) = Put(cn, h, i, d)
         /\ Put(cn, h, i, c)[h][i] = c
  BY DEF Put, Conns

LEMMA PutEntry ==
  ASSUME NEW ap \in Apps, NEW h \in Host, NEW q \in Port, NEW e0 \in Entry, NEW e
  PROVE  /\ Put(ap, h, q, ap[h][q]) = ap
         /\ Put(Put(ap, h, q, e0), h, q, e) = Put(ap, h, q, e)
         /\ Put(ap, h, q, e0)[h][q] = e0
  BY DEF Put, Apps

\* The network loses segments.
LEMMA LossKeeps ==
  ASSUME NEW cn, NEW nt, NEW ap, NEW lp, NEW x, NEW g, NEW b, NEW T,
         Num(cn, nt, ap, lp, x, g, b, T), NEW nt2, nt2 \subseteq nt
  PROVE  Num(cn, nt2, ap, lp, x, g, b, T)
<1>1. NumTyped(cn, nt2, ap, lp, x, g, b, T)
  BY DEF Num, NumTyped
<1>2. SegsNumbered(nt2, ap, lp, x, b, T)
  BY DEF Num, SegsNumbered
<1>3. AllOwn(cn, nt2)
  BY DEF Num, AllOwn
<1>4. Opening(cn, nt2, ap, b, T)
  BY DEF Num, Opening, Untaken, Fresh
<1> QED
  BY <1>1, <1>2, <1>3, <1>4 DEF Num

\* A RST has no numbers.
LEMMA RstKeeps ==
  ASSUME NEW cn, NEW nt, NEW ap, NEW lp, NEW x, NEW g, NEW b, NEW T,
         Num(cn, nt, ap, lp, x, g, b, T), NEW h \in Host, NEW q \in Port, q <= lp
  PROVE  Num(cn, nt \cup {Rst(h, q)}, ap, lp, x, g, b, T)
<1> DEFINE o == Rst(h, q)
           nt2 == nt \cup {o}
<1>1. o \in Segment /\ ~Valid(o) /\ o.port = q
  BY RstTyped DEF Rst, Valid
<1> HIDE DEF o
<1>2. NumTyped(cn, nt2, ap, lp, x, g, b, T)
  BY <1>1 DEF Num, NumTyped
<1>3. SegsNumbered(nt2, ap, lp, x, b, T)
  BY <1>1 DEF Num, SegsNumbered, SegNumbered
<1>4. AllOwn(cn, nt2)
  BY <1>1 DEF Num, AllOwn, Owns
<1>5. Opening(cn, nt2, ap, b, T)
  BY <1>1 DEF Num, Opening, Untaken, Fresh
<1> QED
  BY <1>2, <1>3, <1>4, <1>5 DEF Num, o

\* A connection is closed; its program may be told.
LEMMA CloseKeeps ==
  ASSUME NEW cn, NEW nt, NEW ap, NEW lp, NEW x, NEW g, NEW b, NEW T,
         Num(cn, nt, ap, lp, x, g, b, T), NEW h \in Host, NEW i \in Slot, cn[h][i].st # "CLOSED",
         NEW d \in Conn, d.st = "CLOSED",
         NEW e \in Entry, e.acked = ap[h][cn[h][i].port].acked,
         e.rcvd = ap[h][cn[h][i].port].rcvd,
         e.phase = ap[h][cn[h][i].port].phase \/ e.phase \in Ended
  PROVE  Num(Put(cn, h, i, d), nt \cup {}, Put(ap, h, cn[h][i].port, e), lp, x, g, b, T)
<1> DEFINE c == cn[h][i]
           q == c.port
           k == Peer(h)
           e0 == ap[h][q]
           f == ap[k][q]
           cn2 == Put(cn, h, i, d)
           ap2 == Put(ap, h, q, e)
           sent == nt \cup {}
<1>0. e.acked = e0.acked /\ e.rcvd = e0.rcvd /\ (e.phase = e0.phase \/ e.phase \in Ended)
  OBVIOUS
<1>1. /\ q \in Port /\ e0 \in Entry
      /\ \A j \in Slot \ {i} : cn[h][j].st = "CLOSED" \/ cn[h][j].port # q
  BY ConnFacts, SMTT(150)
<1>2. /\ cn \in Conns /\ ap \in Apps /\ Opening(cn, nt, ap, b, T) /\ Streams(ap, g)
  BY DEF Num, NumTyped, Conns
<1>3. Len(e.rcvd) \in Nat /\ Len(e0.rcvd) \in Nat
  BY <1>1, LenProperties DEF Entry
<1>4. StreamOK(h, e0) /\ Delivered(e0, f)
  BY <1>1, <1>2 DEF Streams
<1> HIDE DEF q, k, e0, f, c
<1>5. /\ cn2 \in Conns
      /\ \A m \in Host, j \in Slot : cn2[m][j] = IF m = h /\ j = i THEN d ELSE cn[m][j]
  BY <1>2, CnUpdate
<1>6. /\ ap2[h][q] = e
      /\ \A m \in Host, r \in Port : m # h \/ r # q => ap2[m][r] = ap[m][r]
  BY <1>1, <1>2, ApUpdate
<1>7. StreamOK(h, e) /\ Delivered(e, f)
  BY <1>0, <1>4 DEF StreamOK, Delivered
<1>8. e.phase \in Ended \/ (e0.phase \notin Ended /\ Len(e0.rcvd) <= Len(e.rcvd))
  BY <1>0, <1>3
<1>9. \A s \in sent : ~Owns(h, d, s)
  BY DEF Owns, Synchronised, Handshake
<1>10. q \notin T => Untaken(sent, ap2, q)
  <2>1. q \notin T => Untaken(nt, ap, q)
    BY <1>1, <1>2 DEF Opening
  <2> QED BY <1>0, <1>1, <1>6, <2>1 DEF Untaken, e0
<1>11. ASSUME Halfway(cn2, b, T, q) PROVE Fresh(cn2, sent, ap2, b, q)
  <2>1. PICK j \in Slot : cn2[Server][j].st = "SYN_RCVD" /\ cn2[Server][j].port = q
                          /\ cn2[Server][j].snd = b[q]
    BY <1>11 DEF Halfway
  <2>2. cn2[Server][j] = cn[Server][j]
    BY <1>5, <2>1, HostFacts
  <2>3. h = Client
    BY <1>1, <1>5, <2>1, <2>2 DEF Host
  <2>4. Fresh(cn, nt, ap, b, q)
    <3>1. Halfway(cn, b, T, q)
      BY <1>11, <2>1, <2>2 DEF Halfway
    <3> QED BY <1>1, <1>2, <3>1 DEF Opening
  <2>5. ap2[Client][q].acked = 0
    BY <1>0, <1>6, <2>3, <2>4 DEF Fresh, e0
  <2>6. \A m \in Slot : ~(cn2[Client][m].st \in Synchronised /\ cn2[Client][m].port = q)
    BY <1>1, <1>5, <2>3 DEF Synchronised, Handshake
  <2> QED BY <2>4, <2>5, <2>6 DEF Fresh
<1>12. ConnNumbered(h, d, e, lp, x, g, b, T)
  BY DEF ConnNumbered
<1>13. LaterOK(cn, nt, ap, lp, x, g, b, T, h, i, q, d, e, {})
  BY <1>1, <1>7, <1>8, <1>9, <1>10, <1>11, <1>12
     DEF LaterOK, e0, f, k, Synchronised, Handshake
<1> QED
  BY <1>13, LaterKeeps DEF q, c

--------------------------------------------------------------------------------
(* The handshake.                                                               *)

\* Sending in the handshake: the SYN or SYN|ACK again, or an acknowledgement.
Greeting(h, d, out) ==
  \/ out = {}
  \/ out = {Segm(h, d, {"ACK"}, 0)}
  \/ d.st = "SYN_SENT" /\ out = {Syn(h, d)}
  \/ d.st = "SYN_RCVD" /\ out = {Segm(h, d, {"SYN", "ACK"}, 0)}

LEMMA GreetingTyped ==
  ASSUME NEW h \in Host, NEW d \in Conn, d.port \in Port, NEW out, Greeting(h, d, out)
  PROVE  /\ out \in SUBSET Segment
         /\ \A o \in out :
              /\ o.to = Peer(h) /\ o.port = d.port /\ o.seq = d.snd /\ o.data = 0 /\ Valid(o)
              /\ \/ o.flags = {"ACK"} /\ o.ack = d.rcv
                 \/ d.st = "SYN_SENT" /\ o.flags = {"SYN"} /\ o.ack = 0
                 \/ d.st = "SYN_RCVD" /\ o.flags = {"SYN", "ACK"} /\ o.ack = d.rcv
<1>1. /\ Segm(h, d, {"ACK"}, 0) \in Segment /\ Syn(h, d) \in Segment
      /\ Segm(h, d, {"SYN", "ACK"}, 0) \in Segment
  BY SegmentTyped, SynTyped
<1>2. \A s : s = Syn(h, d) => /\ s.to = Peer(h) /\ s.port = d.port /\ s.seq = d.snd
                              /\ s.flags = {"SYN"} /\ s.data = 0 /\ s.ack = 0
  BY DEF Syn, Segm
<1>3. out \in SUBSET Segment
  BY <1>1 DEF Greeting
<1>4. ASSUME NEW o \in out
      PROVE  /\ o.to = Peer(h) /\ o.port = d.port /\ o.seq = d.snd /\ o.data = 0 /\ Valid(o)
             /\ \/ o.flags = {"ACK"} /\ o.ack = d.rcv
                \/ d.st = "SYN_SENT" /\ o.flags = {"SYN"} /\ o.ack = 0
                \/ d.st = "SYN_RCVD" /\ o.flags = {"SYN", "ACK"} /\ o.ack = d.rcv
  <2>1. CASE o = Segm(h, d, {"ACK"}, 0)
    BY <2>1, SegmFields DEF Valid
  <2>2. CASE d.st = "SYN_SENT" /\ o = Syn(h, d)
    BY <1>2, <2>2 DEF Valid
  <2>3. CASE d.st = "SYN_RCVD" /\ o = Segm(h, d, {"SYN", "ACK"}, 0)
    BY <2>3, SegmFields DEF Valid
  <2> QED BY <1>4, <2>1, <2>2, <2>3 DEF Greeting
<1> QED
  BY <1>3, <1>4

LEMMA GreetingKeeps ==
  ASSUME NEW cn, NEW nt, NEW ap, NEW lp, NEW x, NEW g, NEW b, NEW T,
         Num(cn, nt, ap, lp, x, g, b, T), NEW h \in Host, NEW i \in Slot,
         cn[h][i].st \in {"SYN_SENT", "SYN_RCVD"},
         NEW d \in Conn, d.st = cn[h][i].st, d.port = cn[h][i].port, d.p = cn[h][i].p,
         d.snd = cn[h][i].snd, d.rcv = cn[h][i].rcv, d.len = cn[h][i].len,
         NEW out, Greeting(h, d, out)
  PROVE  Num(Put(cn, h, i, d), nt \cup out, ap, lp, x, g, b, T)
<1> DEFINE c == cn[h][i]
           q == c.port
           k == Peer(h)
           e == ap[h][q]
           f == ap[k][q]
           cn2 == Put(cn, h, i, d)
           ap2 == Put(ap, h, q, e)
           sent == nt \cup out
<1>0. /\ c.st \in {"SYN_SENT", "SYN_RCVD"} /\ d.st = c.st /\ d.port = q /\ d.p = c.p
      /\ d.snd = c.snd /\ d.rcv = c.rcv /\ d.len = c.len
  OBVIOUS
<1>1. /\ q \in Port /\ q <= lp /\ e \in Entry
      /\ ConnNumbered(h, c, e, lp, x, g, b, T)
      /\ \A j \in Slot \ {i} : cn[h][j].st = "CLOSED" \/ cn[h][j].port # q
  BY ConnFacts
<1>2. /\ cn \in Conns /\ ap \in Apps /\ b \in [Port -> Nat] /\ lp \in Nat
      /\ Opening(cn, nt, ap, b, T) /\ Streams(ap, g)
  BY DEF Num, NumTyped, Conns
<1>3. StreamOK(h, e) /\ Delivered(e, f) /\ Len(e.rcvd) \in Nat
  BY <1>1, <1>2, LenProperties DEF Streams, Entry
<1>4. ap2 = ap
  BY <1>1, <1>2, PutEntry
<1>5. /\ cn2 \in Conns
      /\ \A m \in Host, j \in Slot : cn2[m][j] = IF m = h /\ j = i THEN d ELSE cn[m][j]
  BY <1>2, CnUpdate
<1> HIDE DEF c, q, k, e, f, ap2, cn2
<1>6. /\ out \subseteq Segment
      /\ \A o \in out :
           /\ o.to = k /\ o.port = q /\ o.seq = d.snd /\ o.data = 0 /\ Valid(o)
           /\ \/ o.flags = {"ACK"} /\ o.ack = d.rcv
              \/ d.st = "SYN_SENT" /\ o.flags = {"SYN"} /\ o.ack = 0
              \/ d.st = "SYN_RCVD" /\ o.flags = {"SYN", "ACK"} /\ o.ack = d.rcv
  BY <1>0, <1>1, GreetingTyped DEF k
<1>7. ConnNumbered(h, d, e, lp, x, g, b, T)
  <2>1. c.st # "CLOSED" /\ d.st \notin Synchronised
    BY <1>0 DEF Synchronised, Handshake
  <2>2. /\ h \in g => ~c.p
        /\ h = Client => c.p
        /\ c.st = "SYN_SENT" => SynSentOK(h, c, T)
        /\ c.st = "SYN_RCVD" => SynRcvdOK(h, c, x)
    BY <1>1, <2>1 DEF ConnNumbered
  <2>3. c.st = "SYN_SENT" => SynSentOK(h, d, T)
    BY <1>0, <2>2 DEF SynSentOK, q
  <2>4. c.st = "SYN_RCVD" => SynRcvdOK(h, d, x)
    BY <1>0, <2>2 DEF SynRcvdOK, q
  <2> QED BY <1>0, <1>1, <2>1, <2>2, <2>3, <2>4 DEF ConnNumbered
<1>8. /\ d.st = "SYN_SENT" => /\ h = Client /\ q \notin T /\ d.snd = ClientIss[q] /\ d.rcv = 0
      /\ d.st = "SYN_RCVD" => /\ h = Server /\ d.snd \in x[q] /\ d.rcv = ClientIss[q] + 1
  BY <1>0, <1>7 DEF ConnNumbered, SynSentOK, SynRcvdOK
<1>9. ASSUME NEW o \in out PROVE EmptySeg(o) /\ SegNumbered(h, o, e, lp, x, b, T)
  <2>1. /\ o.to = k /\ o.port = q /\ o.seq = d.snd /\ o.data = 0 /\ Valid(o)
        /\ \/ o.flags = {"ACK"} /\ o.ack = d.rcv
           \/ d.st = "SYN_SENT" /\ o.flags = {"SYN"} /\ o.ack = 0
           \/ d.st = "SYN_RCVD" /\ o.flags = {"SYN", "ACK"} /\ o.ack = d.rcv
    BY <1>6
  <2>2. DataSeg(h, o, b, T) \/ SynSeg(h, o, x)
    BY <1>8, <2>1 DEF DataSeg, SynSeg
  <2>3. h = Client => k = Server
    BY DEF k, Peer
  <2>4. h = Server => k = Client
    BY HostAssumption DEF k, Peer
  <2>5. CASE d.st = "SYN_SENT"
    <3>1. o.ack = 0 /\ "FIN" \notin o.flags /\ o.to = Server /\ h = Client
      BY <1>8, <2>1, <2>3, <2>5
    <3>2. EmptySeg(o)
      BY <2>1, <3>1, HostAssumption DEF EmptySeg
    <3>3. AckOK(h, o, e, b, T)
      BY <3>1 DEF AckOK
    <3> QED BY <1>1, <2>1, <2>2, <3>2, <3>3 DEF SegNumbered
  <2>6. CASE d.st = "SYN_RCVD"
    <3>1. o.ack = ClientIss[q] + 1 /\ "FIN" \notin o.flags /\ o.to = Client /\ h = Server
      BY <1>8, <2>1, <2>4, <2>6
    <3>2. EmptySeg(o)
      BY <2>1, <3>1, HostAssumption DEF EmptySeg
    <3> DEFINE base == Base(b, Peer(h), q)
    <3>3. base = ClientIss[q] /\ base \in Nat
      BY <1>1, <2>4, <3>1, ClientIssNat DEF Base, k
    <3> HIDE DEF base
    <3>4. /\ base + 1 <= Pos(base, Len(e.rcvd)) /\ Pos(base, Len(e.rcvd)) \in Nat
      BY <1>3, <3>3, PosFacts
    <3>5. base + 1 <= Pos(base, ToSend[Peer(h)]) /\ Pos(base, ToSend[Peer(h)]) \in Nat
      <4>1. ToSend[Peer(h)] \in Nat
        BY SizeAssumption, HostFacts
      <4> QED BY <3>3, <4>1, PosFacts
    <3>6. o.ack = base + 1 /\ o.ack <= Pos(base, ToSend[Peer(h)]) + 1
          /\ o.ack <= Pos(base, Len(e.rcvd))
      BY <3>1, <3>3, <3>4, <3>5
    <3>7. AckOK(h, o, e, b, T)
      BY <2>1, <3>1, <3>3, <3>6 DEF AckOK, base
    <3> QED BY <1>1, <2>1, <2>2, <3>2, <3>7 DEF SegNumbered
  <2> QED BY <1>0, <2>5, <2>6
<1>10. q \notin T => Untaken(sent, ap2, q)
  <2>1. q \notin T => Untaken(nt, ap, q)
    BY <1>1, <1>2 DEF Opening
  <2> QED BY <1>4, <1>9, <2>1 DEF Untaken
<1>11. ASSUME Halfway(cn2, b, T, q) PROVE Fresh(cn2, sent, ap2, b, q)
  <2>1. PICK j \in Slot : cn2[Server][j].st = "SYN_RCVD" /\ cn2[Server][j].port = q
                          /\ cn2[Server][j].snd = b[q]
    BY <1>11 DEF Halfway
  <2>2. cn[Server][j].st = "SYN_RCVD" /\ cn[Server][j].port = q /\ cn[Server][j].snd = b[q]
    BY <1>0, <1>5, <2>1, HostFacts DEF c
  <2>3. Fresh(cn, nt, ap, b, q)
    <3>1. Halfway(cn, b, T, q)
      BY <1>11, <2>2 DEF Halfway
    <3> QED BY <1>1, <1>2, <3>1 DEF Opening
  <2>4. \A m \in Slot : cn2[Client][m].st \in Synchronised => cn2[Client][m] = cn[Client][m]
    BY <1>0, <1>5, HostFacts DEF Synchronised, Handshake
  <2> QED BY <1>4, <1>9, <2>3, <2>4 DEF Fresh
<1>12. \A s \in sent : ~Owns(h, d, s)
  BY <1>0 DEF Owns, Synchronised, Handshake
<1>13. d.st \notin Synchronised
  BY <1>0 DEF Synchronised, Handshake
<1>14. e.phase \in Ended \/ (e.phase \notin Ended /\ Len(e.rcvd) <= Len(e.rcvd))
  BY <1>3
<1>15. LaterOK(cn, nt, ap, lp, x, g, b, T, h, i, q, d, e, out)
  BY <1>0, <1>1, <1>3, <1>6, <1>7, <1>9, <1>10, <1>11, <1>12, <1>13, <1>14
     DEF LaterOK, e, f, k, ap2, cn2
<1> QED
  BY <1>4, <1>15, LaterKeeps DEF ap2

Opened == [phase |-> "open", acked |-> 0, rcvd |-> <<>>]

LEMMA OpenedFacts ==
  /\ Opened \in Entry /\ Opened.phase = "open" /\ Opened.acked = 0 /\ Opened.rcvd = <<>>
  /\ Len(Opened.rcvd) = 0 /\ \A h \in Host : StreamOK(h, Opened)
<1>1. <<>> \in Seq(Nat) /\ Len(<<>>) = 0 /\ DOMAIN <<>> = {}
  BY EmptySeq, LenProperties
<1>2. \A h \in Host : ToSend[h] \in Nat /\ ToSend[Peer(h)] \in Nat
  BY SizeAssumption, HostFacts
<1>3. Opened.rcvd = <<>> /\ Opened.acked = 0 /\ Opened.phase = "open"
  BY DEF Opened
<1>4. Opened \in Entry
  BY <1>1 DEF Opened, Entry, Phase
<1> QED
  BY <1>1, <1>2, <1>3, <1>4 DEF StreamOK

\* uip_connected() on the server: the acknowledgement of its SYN|ACK tells that the client
\* took the number of this connection, and no other.
LEMMA AcceptKeeps ==
  ASSUME NEW cn, NEW nt, NEW ap, NEW lp, NEW x, NEW g, NEW b, NEW T,
         Num(cn, nt, ap, lp, x, g, b, T), NEW i \in Slot, cn[Server][i].st = "SYN_RCVD",
         NEW s \in nt, Valid(s), s.to = Server, s.port = cn[Server][i].port,
         Acks(cn[Server][i], s),
         NEW d \in Conn, d.st = "ESTABLISHED", d.port = cn[Server][i].port,
         d.p <=> Server \notin g,
         d.snd = cn[Server][i].snd + cn[Server][i].len, d.rcv = cn[Server][i].rcv, d.len = 0,
         NEW e, e = IF d.p THEN Opened ELSE ap[Server][cn[Server][i].port]
  PROVE  Num(Put(cn, Server, i, d), nt \cup {}, Put(ap, Server, cn[Server][i].port, e),
             lp, x, g, b, T)
<1> DEFINE c == cn[Server][i]
           q == c.port
           e0 == ap[Server][q]
           f == ap[Client][q]
           cn2 == Put(cn, Server, i, d)
           ap2 == Put(ap, Server, q, e)
           sent == nt \cup {}
<1>0. /\ c.st = "SYN_RCVD" /\ s.port = q /\ Acks(c, s)
      /\ d.port = q /\ d.snd = c.snd + c.len /\ d.rcv = c.rcv
      /\ e = IF d.p THEN Opened ELSE e0
  OBVIOUS
<1>h. Client \in Host /\ Server \in Host /\ Peer(Server) = Client /\ Peer(Client) = Server
  BY HostFacts, HostAssumption DEF Peer
<1>1. /\ c \in Conn /\ q \in Port /\ q <= lp
      /\ ConnNumbered(Server, c, e0, lp, x, g, b, T)
      /\ \A j \in Slot \ {i} : cn[Server][j].st = "CLOSED" \/ cn[Server][j].port # q
      /\ e0 \in Entry /\ f \in Entry
  BY <1>h, ConnFacts
<1>2. /\ cn \in Conns /\ ap \in Apps /\ b \in [Port -> Nat] /\ T \subseteq Port /\ lp \in 0..MaxPort
      /\ Issues(x) /\ Taken(lp, x, b, T) /\ ConnsNumbered(cn, ap, lp, x, g, b, T)
      /\ SegsNumbered(nt, ap, lp, x, b, T) /\ Opening(cn, nt, ap, b, T) /\ Streams(ap, g)
  BY DEF Num, NumTyped, Conns
<1>3. s \in Segment /\ SegNumbered(Client, s, f, lp, x, b, T)
  BY <1>h, SegFacts
<1>4. /\ StreamOK(Server, e0) /\ Delivered(e0, f) /\ Delivered(f, e0)
      /\ Server \in g => e0.phase \in Ended
  BY <1>1, <1>2, <1>h DEF Streams
<1>5. /\ cn2 \in Conns
      /\ \A m \in Host, j \in Slot : cn2[m][j] = IF m = Server /\ j = i THEN d ELSE cn[m][j]
  BY <1>2, <1>h, CnUpdate
<1>6. /\ e \in Entry /\ StreamOK(Server, e) /\ Len(e.rcvd) \in Nat
      /\ d.p => e.phase = "open" /\ e.acked = 0 /\ Len(e.rcvd) = 0
      /\ ~d.p => e = e0 /\ e.phase \in Ended
  <2>1. CASE d.p
    BY <1>0, <1>h, <2>1, OpenedFacts
  <2>2. CASE ~d.p
    <3>1. e = e0
      BY <2>2
    <3>2. Len(e0.rcvd) \in Nat
      BY <1>1, LenProperties DEF Entry
    <3> QED BY <1>1, <1>4, <2>2, <3>1, <3>2
  <2> QED BY <2>1, <2>2
<1>7. ap2 \in Apps /\ ap2[Server][q] = e
      /\ \A m \in Host, r \in Port : m # Server \/ r # q => ap2[m][r] = ap[m][r]
  <2>1. ap \in Apps /\ Server \in Host /\ q \in Port /\ e \in Entry
    BY <1>1, <1>2, <1>6, <1>h
  <2> HIDE DEF q
  <2> QED BY <2>1, ApUpdate
<1> HIDE DEF c, q, e0, f, cn2, ap2
\* The number that the client took.
<1>8. SynRcvdOK(Server, c, x) /\ c.snd \in Nat /\ c.len = 1
  BY <1>0, <1>1 DEF ConnNumbered, SynRcvdOK, Conn
<1>9. "ACK" \in s.flags /\ s.ack = c.snd + 1
  BY <1>0, <1>8 DEF Acks
<1>10. q \in T /\ b[q] + 1 <= s.ack /\ s.ack <= Pos(b[q], ToSend[Server]) + 1
  BY <1>0, <1>3, <1>8, <1>9, <1>h, HostAssumption DEF SegNumbered, AckOK, Base
<1>11. b[q] \in x[q] /\ c.snd \in x[q] /\ b[q] \in Nat
  BY <1>1, <1>2, <1>8, <1>10 DEF Taken, SynRcvdOK, q
<1>12. c.snd = b[q]
  BY <1>1, <1>2, <1>9, <1>10, <1>11, IssMeets
<1>13. Fresh(cn, nt, ap, b, q)
  <2>1. Halfway(cn, b, T, q)
    BY <1>0, <1>10, <1>12 DEF Halfway, c, q
  <2> QED BY <1>1, <1>2, <2>1 DEF Opening
<1> DEFINE base == Base(b, Client, q)
<1>14. base = ClientIss[q] /\ base \in Nat /\ Base(b, Server, q) = b[q]
  BY <1>1, HostAssumption, ClientIssNat DEF Base
<1> HIDE DEF base
<1>15. d.rcv = base + 1 /\ d.snd = b[q] + 1
  BY <1>0, <1>8, <1>12, <1>14 DEF SynRcvdOK, q
<1>16. \A k \in Nat : Pos(base, 0) = base + 1 /\ Pos(base, k) \in Nat /\ base + 1 <= Pos(base, k)
  BY <1>14, PosFacts
<1>17. Pos(b[q], 0) = b[q] + 1
  BY <1>11, PosFacts
<1>18. ToSend[Client] \in Nat
  BY SizeAssumption, <1>h
<1>19. ConnNumbered(Server, d, e, lp, x, g, b, T)
  <2>1. SendOK(Server, d, e, b[q])
    <3>1. Counted(d, e) = 0
      BY <1>6 DEF Counted
    <3> QED BY <1>15, <1>17, <3>1 DEF SendOK
  <2>2. ReceiveOK(Server, d, e, base)
    <3>1. d.rcv <= Pos(base, ToSend[Client]) + 1 /\ base + 1 <= d.rcv
      BY <1>14, <1>15, <1>16, <1>18
    <3> QED BY <1>6, <1>15, <1>16, <1>h, <3>1 DEF ReceiveOK
  <2>3. SyncOK(Server, d, e, b, T)
    BY <1>0, <1>10, <1>14, <1>h, <2>1, <2>2 DEF SyncOK, base
  <2> QED BY <1>0, <1>1, <2>3, HostAssumption DEF ConnNumbered
<1>20. ASSUME NEW r \in nt, Valid(r), r.to = Client, r.port = q
       PROVE  /\ Size(r) = 0
              /\ "ACK" \in r.flags => r.ack = base + 1
  <2>1. EmptySeg(r)
    BY <1>13, <1>20 DEF Fresh
  <2> QED BY <1>14, <1>20, <2>1 DEF EmptySeg, Size, Length
<1>21. ASSUME NEW r \in nt, r.port = q, r.to = Client PROVE SegNumbered(Server, r, e, lp, x, b, T)
  <2>1. SegNumbered(Server, r, e0, lp, x, b, T)
    BY <1>2, <1>21, <1>h DEF SegsNumbered, e0
  <2>2. ASSUME Valid(r) PROVE AckOK(Server, r, e, b, T)
    <3>1. "ACK" \in r.flags => r.ack = base + 1
      BY <1>20, <1>21, <2>2
    <3>2. base + 1 <= Pos(base, ToSend[Client]) + 1 /\ base + 1 <= Pos(base, Len(e.rcvd))
          /\ base + 1 <= base + 1
      <4>1. Pos(base, ToSend[Client]) \in Nat /\ base + 1 <= Pos(base, ToSend[Client])
        BY <1>16, <1>18
      <4>2. base + 1 <= Pos(base, Len(e.rcvd))
        BY <1>6, <1>16
      <4> QED BY <1>14, <4>1, <4>2
    <3> QED BY <1>21, <1>h, <3>1, <3>2 DEF AckOK, base
  <2> QED BY <2>1, <2>2 DEF SegNumbered
<1>22. ASSUME NEW r \in sent, Owns(Server, d, r) PROVE OwnSegment(d, r)
  <2>1. Size(r) = 0 /\ ("ACK" \in r.flags => r.ack = d.rcv)
    BY <1>0, <1>15, <1>20, <1>22, <1>h DEF Owns
  <2>2. d.rcv <= d.rcv
    BY <1>14, <1>15
  <2> QED BY <2>1, <2>2 DEF OwnSegment
<1>23. ASSUME NEW j \in Slot, cn[Client][j].st \in Synchronised, cn[Client][j].port = q
       PROVE  Agree(d, cn[Client][j]) /\ Agree(cn[Client][j], d)
  BY <1>13, <1>14, <1>15, <1>23 DEF Fresh, Agree
<1>24. ~Halfway(cn2, b, T, q)
  BY <1>1, <1>5, <1>h DEF Halfway
<1>25. Delivered(e, f) /\ Delivered(f, e)
  <2>1. f.acked = 0
    BY <1>13 DEF Fresh, f
  <2>2. Len(f.rcvd) \in Nat
    BY <1>1, LenProperties DEF Entry
  <2> QED BY <1>4, <1>6, <2>1, <2>2, SMTT(60) DEF Delivered
<1>26. \A j \in Slot : cn[Client][j].st # "CLOSED" /\ cn[Client][j].port = q =>
         ConnNumbered(Client, cn[Client][j], f, lp, x, g, b, T)
  BY <1>2, <1>h DEF ConnsNumbered, f
<1>27. \A r \in nt : r.port = q /\ r.to = Server => SegNumbered(Client, r, f, lp, x, b, T)
  BY <1>2, <1>h DEF SegsNumbered, f
<1>28. lp <= lp /\ Grown(x, x) /\ (Server \in g => e.phase \in Ended)
  BY <1>2, <1>6, SMTT(60) DEF Grown
<1>29. EditOK(cn, nt, ap, lp, x, g, b, T, Server, i, q, d, e, {}, lp, x, b, T)
  BY <1>0, <1>1, <1>2, <1>6, <1>10, <1>11, <1>19, <1>21, <1>22, <1>23, <1>24, <1>25, <1>26, <1>27,
     <1>28, <1>h DEF EditOK, f, cn2
<1> QED
  BY <1>29, EditKeeps DEF q, c

\* uip_connected() on the client: it takes the number of a SYN|ACK.
Taking(c, s, d, b, T, b2, T2) ==
  /\ c.st = "SYN_SENT" /\ s.to = Client /\ s.port = c.port /\ s.flags = {"SYN", "ACK"}
  /\ d \in Conn /\ d.st = "ESTABLISHED" /\ d.port = c.port /\ d.p = c.p
  /\ d.snd = c.snd + c.len /\ d.rcv = s.seq + 1 /\ d.len = 0
  /\ b2 = [b EXCEPT ![c.port] = s.seq] /\ T2 = T \cup {c.port}

LEMMA ConnectedKeeps ==
  ASSUME NEW cn, NEW nt, NEW ap, NEW lp, NEW x, NEW g, NEW b, NEW T,
         Num(cn, nt, ap, lp, x, g, b, T), NEW i \in Slot, NEW s \in nt, NEW d, NEW b2, NEW T2,
         Taking(cn[Client][i], s, d, b, T, b2, T2)
  PROVE  /\ b2 \in [Port -> Nat] /\ T2 \subseteq Port
         /\ Num(Put(cn, Client, i, d), nt, Put(ap, Client, cn[Client][i].port, Opened),
                lp, x, g, b2, T2)
<1> DEFINE c == cn[Client][i]
           q == c.port
           e0 == ap[Client][q]
           f == ap[Server][q]
           cn2 == Put(cn, Client, i, d)
           ap2 == Put(ap, Client, q, Opened)
           sent == nt \cup {}
<1> /\ cn[Client][i].st = "SYN_SENT" /\ s.to = Client /\ s.port = cn[Client][i].port
    /\ s.flags = {"SYN", "ACK"}
    /\ d \in Conn /\ d.st = "ESTABLISHED" /\ d.port = cn[Client][i].port
    /\ d.p = cn[Client][i].p
    /\ d.snd = cn[Client][i].snd + cn[Client][i].len /\ d.rcv = s.seq + 1 /\ d.len = 0
    /\ b2 = [b EXCEPT ![cn[Client][i].port] = s.seq] /\ T2 = T \cup {cn[Client][i].port}
  BY DEF Taking
<1>0. /\ c.st = "SYN_SENT" /\ s.port = q /\ d.port = q /\ d.p = c.p /\ d.snd = c.snd + c.len
      /\ b2 = [b EXCEPT ![q] = s.seq] /\ T2 = T \cup {q}
  OBVIOUS
<1>h. Client \in Host /\ Server \in Host /\ Peer(Server) = Client /\ Peer(Client) = Server
  BY HostFacts, HostAssumption DEF Peer
<1>1. /\ c \in Conn /\ q \in Port /\ q <= lp
      /\ ConnNumbered(Client, c, e0, lp, x, g, b, T)
      /\ \A j \in Slot \ {i} : cn[Client][j].st = "CLOSED" \/ cn[Client][j].port # q
      /\ e0 \in Entry /\ f \in Entry
  BY <1>h, ConnFacts
<1>2. /\ cn \in Conns /\ ap \in Apps /\ b \in [Port -> Nat] /\ T \subseteq Port /\ lp \in 0..MaxPort
      /\ Issues(x) /\ Taken(lp, x, b, T) /\ ConnsNumbered(cn, ap, lp, x, g, b, T)
      /\ SegsNumbered(nt, ap, lp, x, b, T) /\ Opening(cn, nt, ap, b, T)
  BY DEF Num, NumTyped, Conns
<1>3. s \in Segment /\ SegNumbered(Server, s, f, lp, x, b, T)
  BY <1>h, SegFacts
<1>4. s.seq \in Nat
  BY <1>3 DEF Segment
<1>5. /\ cn2 \in Conns
      /\ \A m \in Host, j \in Slot : cn2[m][j] = IF m = Client /\ j = i THEN d ELSE cn[m][j]
  BY <1>2, <1>h, CnUpdate
<1>6. ap2[Client][q] = Opened
  <2>1. ap \in Apps /\ Client \in Host /\ q \in Port /\ Opened \in Entry
    BY <1>1, <1>2, <1>h, OpenedFacts
  <2> HIDE DEF q
  <2> QED BY <2>1, ApUpdate
<1> HIDE DEF c, q, e0, f, cn2, ap2
<1>7. SynSentOK(Client, c, T) /\ c.p /\ Client \notin g
  BY <1>0, <1>1 DEF ConnNumbered
<1>8. q \notin T /\ d.snd = ClientIss[q] + 1
  BY <1>0, <1>7 DEF SynSentOK, q
<1>9. Untaken(nt, ap, q)
  BY <1>1, <1>2, <1>8 DEF Opening
<1>10. b2 \in [Port -> Nat] /\ T2 \subseteq Port /\ b2[q] = s.seq /\ q \in T2
       /\ \A r \in Port \ {q} : b2[r] = b[r] /\ (r \in T2 <=> r \in T)
  BY <1>0, <1>1, <1>2, <1>4
<1>11. b2[q] \in x[q]
  <2>1. SynSeg(Server, s, x)
    BY <1>3 DEF SegNumbered, Valid, DataSeg, FinSeg
  <2> QED BY <1>0, <1>10, <2>1, HostAssumption DEF SynSeg
<1>12. ClientIss[q] \in Nat /\ Base(b2, Client, q) = ClientIss[q] /\ Base(b, Client, q) = ClientIss[q]
       /\ Base(b2, Server, q) = s.seq
  BY <1>1, <1>10, ClientIssNat, HostAssumption DEF Base
<1>13. ToSend[Server] \in Nat
  BY SizeAssumption, <1>h
<1>14. /\ Pos(ClientIss[q], 0) = ClientIss[q] + 1 /\ Pos(s.seq, 0) = s.seq + 1
       /\ s.seq + 1 <= Pos(s.seq, ToSend[Server]) /\ Pos(s.seq, ToSend[Server]) \in Nat
  BY <1>4, <1>12, <1>13, PosFacts
<1>15. ConnNumbered(Client, d, Opened, lp, x, g, b2, T2)
  <2>1. SendOK(Client, d, Opened, ClientIss[q])
    BY <1>8, <1>14, OpenedFacts DEF SendOK, Counted
  <2>2. ReceiveOK(Client, d, Opened, s.seq)
    BY <1>0, <1>4, <1>7, <1>14, <1>h, OpenedFacts DEF ReceiveOK
  <2>3. SyncOK(Client, d, Opened, b2, T2)
    BY <1>0, <1>10, <1>12, <1>h, <2>1, <2>2 DEF SyncOK
  <2> QED BY <1>0, <1>1, <1>7, <2>3 DEF ConnNumbered
<1>16. ASSUME NEW j \in Slot, cn[Server][j].st # "CLOSED", cn[Server][j].port = q
       PROVE  /\ ConnNumbered(Server, cn[Server][j], f, lp, x, g, b2, T2)
              /\ cn[Server][j].st \notin Synchronised
  <2> DEFINE c2 == cn[Server][j]
  <2>1. ConnNumbered(Server, c2, f, lp, x, g, b, T)
    BY <1>2, <1>16, <1>h DEF ConnsNumbered, f
  <2>2. c2.st # "CLOSED" /\ c2.port = q
    BY <1>16
  <2> HIDE DEF c2
  <2>3. c2.st \notin Synchronised
    BY <1>8, <2>1, <2>2 DEF ConnNumbered, SyncOK
  <2>4. c2.st # "SYN_SENT"
    BY <2>1, <2>2, HostAssumption DEF ConnNumbered, SynSentOK
  <2>5. ConnNumbered(Server, c2, f, lp, x, g, b2, T2)
    BY <2>1, <2>2, <2>3, <2>4 DEF ConnNumbered
  <2> QED BY <2>3, <2>5 DEF c2
<1>17. ASSUME NEW r \in nt, Valid(r), r.port = q
       PROVE  r.data = 0 /\ "FIN" \notin r.flags /\ Size(r) = 0
              /\ (r.to = Server => r.ack = 0)
  <2>1. EmptySeg(r)
    BY <1>9, <1>17 DEF Untaken
  <2> QED BY <2>1 DEF EmptySeg, Size, Length
<1>18. ASSUME NEW r \in nt, r.port = q, r.to = Server
       PROVE  SegNumbered(Client, r, Opened, lp, x, b2, T2)
  <2>1. SegNumbered(Client, r, e0, lp, x, b, T)
    BY <1>2, <1>18, <1>h DEF SegsNumbered, e0
  <2>2. ASSUME Valid(r) PROVE DataSeg(Client, r, b2, T2) \/ SynSeg(Client, r, x)
    BY <1>17, <1>18, <2>1, <2>2 DEF SegNumbered, DataSeg, FinSeg
  <2>3. ASSUME Valid(r) PROVE AckOK(Client, r, Opened, b2, T2)
    BY <1>17, <1>18, <2>3 DEF AckOK
  <2> QED BY <2>1, <2>2, <2>3 DEF SegNumbered
<1>19. ASSUME NEW r \in nt, r.port = q, r.to = Client
       PROVE  SegNumbered(Server, r, f, lp, x, b2, T2)
  <2>1. SegNumbered(Server, r, f, lp, x, b, T)
    BY <1>2, <1>19, <1>h DEF SegsNumbered, f
  <2>2. ASSUME Valid(r) PROVE DataSeg(Server, r, b2, T2) \/ SynSeg(Server, r, x)
    BY <1>17, <1>19, <2>1, <2>2 DEF SegNumbered, DataSeg, FinSeg
  <2>3. ASSUME Valid(r) PROVE AckOK(Server, r, f, b2, T2)
    BY <1>12, <1>19, <1>h, <2>1, <2>3, HostAssumption DEF SegNumbered, AckOK
  <2> QED BY <2>1, <2>2, <2>3 DEF SegNumbered
<1>20. ASSUME NEW r \in sent, Owns(Client, d, r) PROVE OwnSegment(d, r)
  <2>1. Size(r) = 0 /\ r.ack = 0
    BY <1>0, <1>17, <1>20, <1>h DEF Owns
  <2> QED BY <1>4, <2>1 DEF OwnSegment
<1>21. Fresh(cn2, sent, ap2, b2, q)
  <2>1. \A r \in sent : Valid(r) /\ r.to = Client /\ r.port = q => EmptySeg(r)
    BY <1>9 DEF Untaken
  <2>2. ASSUME NEW m \in Slot, cn2[Client][m].st \in Synchronised, cn2[Client][m].port = q
        PROVE  cn2[Client][m].snd = ClientIss[q] + 1 /\ cn2[Client][m].rcv = b2[q] + 1
    <3>1. m = i
      BY <1>1, <1>5, <1>h, <2>2 DEF Synchronised, Handshake
    <3> QED BY <1>5, <1>8, <1>10, <1>h, <3>1
  <2> QED BY <1>6, <2>1, <2>2, OpenedFacts DEF Fresh
<1>22. Delivered(Opened, f) /\ Delivered(f, Opened)
  <2>1. f.acked = 0
    BY <1>9, <1>h DEF Untaken, f
  <2>2. Len(f.rcvd) \in Nat
    BY <1>1, LenProperties DEF Entry
  <2> QED BY <2>1, <2>2, OpenedFacts DEF Delivered
<1>23. lp <= lp /\ Grown(x, x)
  BY <1>2 DEF Grown
<1>24. EditOK(cn, nt, ap, lp, x, g, b, T, Client, i, q, d, Opened, {}, lp, x, b2, T2)
  <2>1. \A j \in Slot : ~(cn[Server][j].st \in Synchronised /\ cn[Server][j].port = q)
    BY <1>16 DEF Synchronised, Handshake
  <2>2. \A j \in Slot : cn[Server][j].st # "CLOSED" /\ cn[Server][j].port = q =>
          ConnNumbered(Server, cn[Server][j], f, lp, x, g, b2, T2)
    BY <1>16
  <2>3. /\ \A r \in nt : r.port = q /\ r.to = Server => SegNumbered(Client, r, Opened, lp, x, b2, T2)
        /\ \A r \in nt : r.port = q /\ r.to = Client => SegNumbered(Server, r, f, lp, x, b2, T2)
    BY <1>18, <1>19
  <2>4. \A r \in sent : Owns(Client, d, r) => OwnSegment(d, r)
    BY <1>20
  <2>5. Opened \in Entry /\ StreamOK(Client, Opened)
    BY <1>h, OpenedFacts
  <2> QED BY <1>0, <1>1, <1>2, <1>7, <1>10, <1>11, <1>15, <1>21, <1>22, <1>23, <1>h,
             <2>1, <2>2, <2>3, <2>4, <2>5 DEF EditOK, f, cn2, ap2
<1>25. Num(Put(cn, Client, i, d), nt \cup {}, Put(ap, Client, q, Opened), lp, x, g, b2, T2)
  BY <1>24, EditKeeps
<1>26. nt \cup {} = nt
  OBVIOUS
<1> QED
  BY <1>10, <1>25, <1>26 DEF q, c

\* tcp_connect(): the next port and the next number.
LEMMA OpenKeeps ==
  ASSUME NEW cn, NEW nt, NEW ap, NEW lp, NEW x, NEW g, NEW b, NEW T,
         Num(cn, nt, ap, lp, x, g, b, T), NEW i \in Slot, Client \notin g,
         NEW q \in Port, q = lp + 1,
         NEW d \in Conn, d.st = "SYN_SENT", d.port = q, d.p, d.snd = ClientIss[q], d.rcv = 0,
         d.len = 1,
         NEW e \in Entry, e.acked = ap[Client][q].acked, e.rcvd = ap[Client][q].rcvd
  PROVE  Num(Put(cn, Client, i, d), nt \cup {}, Put(ap, Client, q, e), q, x, g, b, T)
<1> DEFINE e0 == ap[Client][q]
           f == ap[Server][q]
           cn2 == Put(cn, Client, i, d)
           ap2 == Put(ap, Client, q, e)
           sent == nt \cup {}
<1>0. e.acked = e0.acked /\ e.rcvd = e0.rcvd
  OBVIOUS
<1>h. Client \in Host /\ Server \in Host /\ Peer(Server) = Client /\ Peer(Client) = Server
  BY HostFacts, HostAssumption DEF Peer
<1>2. /\ cn \in Conns /\ ap \in Apps /\ b \in [Port -> Nat] /\ T \subseteq Port /\ lp \in 0..MaxPort
      /\ Issues(x) /\ Taken(lp, x, b, T) /\ ConnsNumbered(cn, ap, lp, x, g, b, T)
      /\ SegsNumbered(nt, ap, lp, x, b, T) /\ Opening(cn, nt, ap, b, T) /\ Streams(ap, g)
      /\ nt \subseteq Segment
  BY DEF Num, NumTyped, Conns
<1>3. q \in 0..MaxPort /\ ~(q <= lp) /\ lp <= q /\ lp \in Nat /\ q \in Nat
  BY <1>2, SizeAssumption DEF Port
<1>4. e0 \in Entry /\ f \in Entry /\ StreamOK(Client, e0)
  BY <1>2, <1>h DEF Streams, Apps, Entry
<1>5. \A k \in Host, j \in Slot : cn[k][j].st = "CLOSED" \/ cn[k][j].port # q
  BY <1>2, <1>3 DEF ConnsNumbered, ConnNumbered
<1>6. \A s \in nt : s.port # q
  BY <1>2, <1>3 DEF SegsNumbered, SegNumbered
<1>7. q \notin T
  BY <1>2, <1>3 DEF Taken
<1>8. Untaken(nt, ap, q)
  BY <1>2, <1>7 DEF Opening
<1>9. ap2[Client][q] = e /\ ap2[Server][q] = f
  BY <1>2, <1>h, HostAssumption, ApUpdate
<1> HIDE DEF e0, f, cn2, ap2
<1>10. Untaken(sent, ap2, q)
  <2>1. e.acked = 0 /\ e.rcvd = <<>> /\ f.acked = 0 /\ f.rcvd = <<>>
    BY <1>0, <1>8, <1>h DEF Untaken, e0, f
  <2> QED BY <1>6, <1>9, <2>1 DEF Untaken, Host
<1>11. ConnNumbered(Client, d, e, q, x, g, b, T)
  <2>1. SynSentOK(Client, d, T)
    BY <1>7 DEF SynSentOK
  <2>2. d.st \notin Synchronised /\ q <= q
    BY <1>3 DEF Synchronised, Handshake
  <2> QED BY <2>1, <2>2 DEF ConnNumbered
<1>12. StreamOK(Client, e)
  BY <1>0, <1>4 DEF StreamOK
<1>13. Delivered(e, f) /\ Delivered(f, e)
  <2>1. e.acked = 0 /\ f.acked = 0
    BY <1>0, <1>8, <1>h DEF Untaken, e0, f
  <2>2. Len(e.rcvd) \in Nat /\ Len(f.rcvd) \in Nat
    BY <1>4, LenProperties DEF Entry
  <2> QED BY <2>1, <2>2 DEF Delivered
<1>14. ~Halfway(cn2, b, T, q)
  BY <1>7 DEF Halfway
<1>15. \A s \in sent : ~Owns(Client, d, s)
  BY DEF Owns, Synchronised, Handshake
<1>16. d.st \notin Synchronised /\ Grown(x, x)
  BY <1>2 DEF Synchronised, Handshake, Grown
<1>17. EditOK(cn, nt, ap, lp, x, g, b, T, Client, i, q, d, e, {}, q, x, b, T)
  BY <1>2, <1>3, <1>5, <1>6, <1>7, <1>10, <1>11, <1>12, <1>13, <1>14, <1>15, <1>16, <1>h
     DEF EditOK, f, cn2, ap2
<1> QED
  BY <1>17, EditKeeps

\* The server uses another initial number.
LEMMA IssKeeps ==
  ASSUME NEW cn, NEW nt, NEW ap, NEW lp, NEW x, NEW g, NEW b, NEW T,
         Num(cn, nt, ap, lp, x, g, b, T), NEW x2, Issues(x2), Grown(x, x2)
  PROVE  Num(cn, nt, ap, lp, x2, g, b, T)
<1>1. Issues(x) /\ Taken(lp, x, b, T) /\ ConnsNumbered(cn, ap, lp, x, g, b, T)
      /\ SegsNumbered(nt, ap, lp, x, b, T)
  BY DEF Num, NumTyped
<1>2. /\ \A q \in Port : x[q] \subseteq x2[q]
      /\ cn \in Conns /\ nt \subseteq Segment /\ T \subseteq Port
  BY DEF Grown, Num, NumTyped, Conns
<1>3. Taken(lp, x2, b, T)
  BY <1>1, <1>2 DEF Taken
<1>4. ConnsNumbered(cn, ap, lp, x2, g, b, T)
  BY <1>1, <1>2 DEF ConnsNumbered, ConnNumbered, SynRcvdOK
<1>5. SegsNumbered(nt, ap, lp, x2, b, T)
  BY <1>1, <1>2 DEF SegsNumbered, SegNumbered, SynSeg, Segment
<1>6. NumTyped(cn, nt, ap, lp, x2, g, b, T)
  BY DEF Num, NumTyped
<1> QED
  BY <1>3, <1>4, <1>5, <1>6 DEF Num

\* An entry for a SYN that arrives.
LEMMA ListenKeeps ==
  ASSUME NEW cn, NEW nt, NEW ap, NEW lp, NEW x, NEW g, NEW b, NEW T,
         Num(cn, nt, ap, lp, x, g, b, T), NEW i \in Slot, Server \notin g,
         NEW s \in nt, s.flags = {"SYN"}, s.to = Server,
         \A j \in Slot : cn[Server][j].st = "CLOSED" \/ cn[Server][j].port # s.port,
         NEW x2, Issues(x2), Grown(x, x2),
         NEW n \in x2[s.port], \A y \in x[s.port] : y < n,
         NEW d \in Conn, d.st = "SYN_RCVD", d.port = s.port, d.snd = n, d.rcv = s.seq + 1,
         d.len = 1
  PROVE  Num(Put(cn, Server, i, d), nt, ap, lp, x2, g, b, T)
<1> DEFINE q == s.port
           e == ap[Server][q]
           f == ap[Client][q]
           cn2 == Put(cn, Server, i, d)
           ap2 == Put(ap, Server, q, e)
           sent == nt \cup {}
<1>0. d.port = q
  OBVIOUS
<1>h. Client \in Host /\ Server \in Host /\ Peer(Server) = Client /\ Peer(Client) = Server
  BY HostFacts, HostAssumption DEF Peer
<1>1. s \in Segment /\ q \in Port /\ q <= lp /\ SegNumbered(Client, s, f, lp, x, b, T)
  BY <1>h, SegFacts
<1>2. /\ cn \in Conns /\ ap \in Apps /\ Taken(lp, x, b, T)
      /\ Opening(cn, nt, ap, b, T) /\ Streams(ap, g) /\ b \in [Port -> Nat]
  BY DEF Num, NumTyped, Conns
<1>3. Num(cn, nt, ap, lp, x2, g, b, T)
  BY <1>2, IssKeeps
<1>4. e \in Entry /\ f \in Entry /\ StreamOK(Server, e) /\ Delivered(e, f)
  BY <1>1, <1>2, <1>h DEF Streams, Apps, Entry
<1>5. Len(e.rcvd) \in Nat
  BY <1>4, LenProperties DEF Entry
<1>6. /\ cn2 \in Conns
      /\ \A m \in Host, j \in Slot : cn2[m][j] = IF m = Server /\ j = i THEN d ELSE cn[m][j]
  BY <1>2, <1>h, CnUpdate
<1>7. ap2 = ap
  BY <1>1, <1>2, <1>h, <1>4, PutEntry
<1>8. s.seq = ClientIss[q]
  <2>1. SynSeg(Client, s, x)
    BY <1>1 DEF SegNumbered, Valid, DataSeg, FinSeg
  <2> QED BY <2>1, HostAssumption DEF SynSeg
<1>n. \A j \in Slot : cn[Server][j].st = "CLOSED" \/ cn[Server][j].port # q
  OBVIOUS
<1> HIDE DEF q, e, f, cn2, ap2
<1>9. ConnNumbered(Server, d, e, lp, x2, g, b, T)
  <2>1. d.snd \in x2[d.port]
    BY <1>0 DEF q
  <2>2. SynRcvdOK(Server, d, x2)
    BY <1>0, <1>8, <2>1 DEF SynRcvdOK
  <2>3. d.st \notin Synchronised
    BY DEF Synchronised, Handshake
  <2> QED BY <1>0, <1>1, <2>2, <2>3, HostAssumption DEF ConnNumbered
<1>10. ~Halfway(cn2, b, T, q)
  <2> SUFFICES ASSUME Halfway(cn2, b, T, q) PROVE FALSE
    OBVIOUS
  <2>1. PICK j \in Slot : cn2[Server][j].st = "SYN_RCVD" /\ cn2[Server][j].port = q
                          /\ cn2[Server][j].snd = b[q]
    BY DEF Halfway
  <2>2. j = i
    BY <1>6, <1>h, <1>n, <2>1
  <2>3. b[q] = n /\ q \in T
    BY <1>6, <1>h, <2>1, <2>2 DEF Halfway
  <2>4. b[q] < n /\ b[q] \in Nat
    BY <1>1, <1>2, <2>3 DEF Taken, q
  <2> QED BY <2>3, <2>4
<1>11. q \notin T => Untaken(sent, ap2, q)
  <2>1. sent = nt
    OBVIOUS
  <2> QED BY <1>1, <1>2, <1>7, <2>1 DEF Opening
<1>12. \A r \in sent : ~Owns(Server, d, r)
  BY DEF Owns, Synchronised, Handshake
<1>13. d.st \notin Synchronised /\ Len(e.rcvd) <= Len(e.rcvd)
  BY <1>5 DEF Synchronised, Handshake
<1>14. LaterOK(cn, nt, ap, lp, x2, g, b, T, Server, i, q, d, e, {})
  BY <1>0, <1>1, <1>4, <1>9, <1>10, <1>11, <1>12, <1>13, <1>h, <1>n DEF LaterOK, e, f, ap2, cn2
<1>15. Num(cn2, sent, ap2, lp, x2, g, b, T)
  BY <1>3, <1>14, LaterKeeps DEF cn2, ap2
<1>16. sent = nt
  OBVIOUS
<1> QED
  BY <1>7, <1>15, <1>16 DEF cn2

\* PROCESS_EVENT_EXITED.
LEMMA ExitKeeps ==
  ASSUME NEW cn, NEW nt, NEW ap, NEW lp, NEW x, NEW g, NEW b, NEW T,
         Num(cn, nt, ap, lp, x, g, b, T), NEW h \in Host,
         NEW cn2 \in Conns, NEW ap2 \in Apps, NEW g2, g2 = g \cup {h},
         \A k \in Host, j \in Slot :
           cn2[k][j] = cn[k][j] \/ (k = h /\ cn2[k][j].st = "CLOSED"),
         \A j \in Slot : cn2[h][j].st # "CLOSED" => ~cn2[h][j].p,
         \A k \in Host, q \in Port :
           /\ ap2[k][q].acked = ap[k][q].acked /\ ap2[k][q].rcvd = ap[k][q].rcvd
           /\ IF k = h THEN ap2[k][q].phase = "over" ELSE ap2[k][q] = ap[k][q]
  PROVE  Num(cn2, nt, ap2, lp, x, g2, b, T)
<1>1. /\ NumTyped(cn, nt, ap, lp, x, g, b, T) /\ Taken(lp, x, b, T) /\ Unique(cn)
      /\ ConnsNumbered(cn, ap, lp, x, g, b, T) /\ SegsNumbered(nt, ap, lp, x, b, T)
      /\ AllOwn(cn, nt) /\ AllAgree(cn) /\ Opening(cn, nt, ap, b, T) /\ Streams(ap, g)
  BY DEF Num
<1>2. NumTyped(cn2, nt, ap2, lp, x, g2, b, T)
  BY <1>1 DEF NumTyped, Conns
<1>3. "CLOSED" \notin Synchronised /\ "SYN_RCVD" \notin Synchronised
  BY DEF Synchronised, Handshake
<1>h. Client \in Host /\ Server \in Host /\ \A k \in Host : Peer(k) \in Host
  BY HostFacts
<1>4. Unique(cn2)
  BY <1>1 DEF Unique
<1>5. ASSUME NEW k \in Host, NEW j \in Slot
      PROVE  ConnNumbered(k, cn2[k][j], ap2[k][cn2[k][j].port], lp, x, g2, b, T)
  <2> DEFINE c == cn2[k][j]
  <2> SUFFICES ASSUME c.st # "CLOSED"
               PROVE  ConnNumbered(k, c, ap2[k][c.port], lp, x, g2, b, T)
    BY DEF ConnNumbered
  <2>1. c = cn[k][j]
    OBVIOUS
  <2>2. ConnNumbered(k, c, ap[k][c.port], lp, x, g, b, T)
    BY <1>1, <2>1 DEF ConnsNumbered
  <2>3. c.port \in Port
    BY <2>2 DEF ConnNumbered
  <2>4. k = h => ~c.p
    OBVIOUS
  <2>p. c.p \in BOOLEAN
    BY DEF Conns, Conn
  <2> HIDE DEF c
  <2>5. CASE k # h
    <3>1. ap2[k][c.port] = ap[k][c.port] /\ (k \in g2 => k \in g)
      BY <2>3, <2>5
    <3> QED BY <2>2, <3>1 DEF ConnNumbered
  <2>6. CASE k = h
    <3> DEFINE e == ap[k][c.port]
               e2 == ap2[k][c.port]
    <3>1. e2.phase = "over"
      BY <2>3, <2>6
    <3> HIDE DEF e, e2
    <3>2. c.st \in Synchronised => SyncOK(k, c, e, b, T)
      BY <2>2 DEF ConnNumbered, e
    <3>3. SyncOK(k, c, e, b, T) => SyncOK(k, c, e2, b, T)
      BY <2>4, <2>6, <3>1 DEF SyncOK, SendOK, ReceiveOK, Counted, Ended
    <3> QED BY <2>2, <2>4, <2>6, <3>2, <3>3 DEF ConnNumbered, e2
  <2> QED BY <2>5, <2>6
<1>6. ASSUME NEW s \in nt
      PROVE  SegNumbered(Peer(s.to), s, ap2[Peer(s.to)][s.port], lp, x, b, T)
  <2> DEFINE k == Peer(s.to)
  <2>1. k \in Host /\ s.port \in Port
    BY <1>1, <1>h DEF NumTyped, Segment
  <2>2. SegNumbered(k, s, ap[k][s.port], lp, x, b, T)
    BY <1>1 DEF SegsNumbered
  <2>3. \/ ap2[k][s.port] = ap[k][s.port]
        \/ ap2[k][s.port].phase \in Ended
    BY <2>1 DEF Ended
  <2>4. AckOK(k, s, ap[k][s.port], b, T) => AckOK(k, s, ap2[k][s.port], b, T)
    <3> HIDE DEF k
    <3> QED BY <2>3 DEF AckOK
  <2> QED BY <2>2, <2>4 DEF SegNumbered
<1>7. AllOwn(cn2, nt)
  BY <1>1, <1>3 DEF AllOwn, Owns
<1>8. AllAgree(cn2)
  BY <1>1, <1>3, <1>h DEF AllAgree
<1>9. \A q \in Port \ T : Untaken(nt, ap2, q)
  BY <1>1 DEF Opening, Untaken
<1>10. ASSUME NEW q \in Port, Halfway(cn2, b, T, q) PROVE Fresh(cn2, nt, ap2, b, q)
  <2>1. Halfway(cn, b, T, q)
    BY <1>10, <1>h DEF Halfway
  <2>2. Fresh(cn, nt, ap, b, q)
    BY <1>1, <2>1 DEF Opening
  <2>3. \A j \in Slot : cn2[Client][j].st \in Synchronised => cn2[Client][j] = cn[Client][j]
    BY <1>3, <1>h
  <2>4. ap2[Client][q].acked = ap[Client][q].acked
    BY <1>h
  <2> QED BY <2>2, <2>3, <2>4 DEF Fresh
<1>11. ASSUME NEW k \in Host, NEW q \in Port
       PROVE  /\ StreamOK(k, ap2[k][q]) /\ Delivered(ap2[k][q], ap2[Peer(k)][q])
              /\ k \in g2 => ap2[k][q].phase \in Ended
  <2> DEFINE e == ap[k][q]
             e2 == ap2[k][q]
             f == ap[Peer(k)][q]
             f2 == ap2[Peer(k)][q]
  <2>1. StreamOK(k, e) /\ Delivered(e, f) /\ (k \in g => e.phase \in Ended)
    BY <1>1 DEF Streams
  <2>2. /\ e2.acked = e.acked /\ e2.rcvd = e.rcvd /\ f2.rcvd = f.rcvd
        /\ e2 = e \/ e2.phase \in Ended
        /\ f2 = f \/ f2.phase \in Ended
        /\ k \in g2 => k \in g \/ e2.phase \in Ended
    BY <1>h DEF Ended
  <2> HIDE DEF e, e2, f, f2
  <2>3. StreamOK(k, e2) /\ Delivered(e2, f2) /\ (k \in g2 => e2.phase \in Ended)
    BY <2>1, <2>2 DEF StreamOK, Delivered
  <2> QED BY <2>3 DEF e2, f2
<1> QED
  BY <1>1, <1>2, <1>4, <1>5, <1>6, <1>7, <1>8, <1>9, <1>10, <1>11
     DEF Num, ConnsNumbered, SegsNumbered, Opening, Streams

--------------------------------------------------------------------------------
(* The actions.                                                                 *)

LEMMA AckedFields ==
  ASSUME NEW c \in Conn, NEW s
  PROVE  LET d == Acked(c, s)
         IN /\ d \in Conn /\ d.st = c.st /\ d.port = c.port /\ d.p = c.p /\ d.rcv = c.rcv
            /\ Acks(c, s) => d.snd = c.snd + c.len /\ d.len = 0
            /\ ~Acks(c, s) => d = c
<1>1. Acked(c, s) \in Conn /\ Acked(c, s).st = c.st /\ Acked(c, s).port = c.port
      /\ Acked(c, s).p = c.p
  BY AckedTyped
<1>2. /\ Acked(c, s).rcv = c.rcv
      /\ Acks(c, s) => Acked(c, s).snd = c.snd + c.len /\ Acked(c, s).len = 0
      /\ ~Acks(c, s) => Acked(c, s) = c
  BY DEF Acked, Conn
<1> QED
  BY <1>1, <1>2

LEMMA EntryFields ==
  ASSUME NEW e \in Entry, NEW ph \in Phase
  PROVE  LET d == [e EXCEPT !.phase = ph]
         IN d \in Entry /\ d.phase = ph /\ d.acked = e.acked /\ d.rcvd = e.rcvd
  BY DEF Entry

\* What a program answers.
LEMMA AppSendKeeps ==
  ASSUME NEW cn, NEW nt, NEW told, NEW lp, NEW x, NEW g, NEW b, NEW T,
         Num(cn, nt, told, lp, x, g, b, T), NEW h \in Host, NEW i \in Slot,
         conn \in Conns, NEW c0 \in Conn, c0.st = "ESTABLISHED", cn = Put(conn, h, i, c0),
         NEW answer, NEW left, left \subseteq nt, AppSend(h, i, c0, answer, told, left)
  PROVE  Num(conn', net', app', lp, x, g, b, T)
<1> DEFINE c == [c0 EXCEPT !.nrtx = 0]
           q == c0.port
           a == told[h][q]
           become(d, out, e) == /\ conn' = [conn EXCEPT ![h][i] = d]
                                /\ Send(left, out)
                                /\ app' = e
           closing == [c EXCEPT !.len = 1, !.st = "FIN_WAIT_1"]
           sending == [c EXCEPT !.len = DataLen]
           shut == [a EXCEPT !.phase = "closed"]
           base == Base(b, h, q)
<1>1. c0 = cn[h][i]
  BY PutConn
<1>s. c0.st \in Synchronised /\ "FIN_WAIT_1" \in Synchronised /\ "ESTABLISHED" \in Synchronised
  BY DEF Synchronised, Handshake, State, Transient
<1>2. told \in Apps /\ q \in Port /\ q <= lp /\ a \in Entry
  <2>1. c0.st # "CLOSED"
    OBVIOUS
  <2> QED BY <1>1, <2>1, ConnFacts DEF Num, NumTyped
<1>3. SendOK(h, c0, a, base)
  <2>1. ConnNumbered(h, c0, a, lp, x, g, b, T)
    BY <1>1, ConnFacts
  <2> QED BY <1>s, <2>1 DEF ConnNumbered, SyncOK
<1>4. /\ c \in Conn /\ c.st = c0.st /\ c.port = q /\ c.p = c0.p /\ c.snd = c0.snd
      /\ c.rcv = c0.rcv /\ c.len = c0.len
  BY SizeAssumption DEF Conn
<1> HIDE DEF c
<1>5. /\ sending \in Conn /\ sending.st = c0.st /\ sending.port = q /\ sending.p = c0.p
      /\ sending.snd = c0.snd /\ sending.rcv = c0.rcv /\ sending.len = DataLen
  BY <1>4 DEF Conn
<1>6. /\ closing \in Conn /\ closing.st = "FIN_WAIT_1" /\ closing.port = q
      /\ closing.p = c0.p /\ closing.snd = c0.snd /\ closing.rcv = c0.rcv /\ closing.len = 1
  BY <1>4 DEF Conn, State, Transient
<1>7. Closed(c) \in Conn /\ Closed(c).st = "CLOSED"
  BY <1>4, ClosedTyped
<1>8. shut \in Entry /\ shut.phase = "closed" /\ shut.acked = a.acked /\ shut.rcvd = a.rcvd
  BY <1>2, EntryFields DEF Phase
<1>9. [told EXCEPT ![h][q].phase = "closed"] = Put(told, h, q, shut)
  BY <1>2 DEF Put, Apps
<1>10. Put(told, h, q, a) = told
  BY <1>2, PutEntry
<1> HIDE DEF sending, closing, shut, a
<1>11. ASSUME NEW d \in Conn PROVE Put(cn, h, i, d) = [conn EXCEPT ![h][i] = d]
  <2>1. Put(cn, h, i, d) = Put(conn, h, i, d)
    BY PutConn
  <2> QED BY <2>1 DEF Put
<1>12. \/ become(c, IF answer THEN {Segm(h, c, {"ACK"}, 0)} ELSE {}, told)
       \/ /\ c.p /\ c.len = 0 /\ a.acked < ToSend[h]
          /\ become(sending, {Segm(h, sending, {"ACK"}, a.acked + 1)}, told)
       \/ /\ c.p /\ c.len = 0
          /\ become(closing, {Segm(h, closing, {"FIN", "ACK"}, 0)}, Put(told, h, q, shut))
       \/ c.p /\ become(Closed(c), {Rst(h, q)}, Put(told, h, q, shut))
  BY <1>4, <1>9 DEF AppSend, c, closing, sending, a
<1>13. ASSUME NEW out, Send(left, out) PROVE net' \subseteq nt \cup out
  BY <1>13 DEF Send
<1>14. ASSUME NEW d \in Conn, NEW out, NEW e, become(d, out, e),
              Num(Put(cn, h, i, d), nt \cup out, e, lp, x, g, b, T)
       PROVE  Num(conn', net', app', lp, x, g, b, T)
  <2>1. net' \subseteq nt \cup out
    BY <1>13, <1>14
  <2>2. conn' = Put(cn, h, i, d) /\ app' = e
    BY <1>11, <1>14
  <2> QED BY <1>14, <2>1, <2>2, LossKeeps
<1>15. CASE become(c, IF answer THEN {Segm(h, c, {"ACK"}, 0)} ELSE {}, told)
  <2> DEFINE out == IF answer THEN {Segm(h, c, {"ACK"}, 0)} ELSE {}
  <2>1. Outgoing(h, c, a, out)
    BY DEF Outgoing
  <2> HIDE DEF out
  <2>2. SendOK(h, c, a, base)
    BY <1>3, <1>4 DEF SendOK, Counted
  <2>3. Num(Put(cn, h, i, c), nt \cup out, Put(told, h, q, a), lp, x, g, b, T)
    BY <1>1, <1>2, <1>4, <1>s, <2>1, <2>2, OutKeeps DEF a
  <2> QED BY <1>4, <1>10, <1>14, <1>15, <2>3 DEF out
<1>16. CASE /\ c.p /\ c.len = 0 /\ a.acked < ToSend[h]
            /\ become(sending, {Segm(h, sending, {"ACK"}, a.acked + 1)}, told)
  <2> DEFINE out == {Segm(h, sending, {"ACK"}, a.acked + 1)}
  <2>1. Outgoing(h, sending, a, out)
    BY <1>5, SizeAssumption DEF Outgoing
  <2> HIDE DEF out
  <2>2. SendOK(h, sending, a, base)
    BY <1>3, <1>4, <1>5, <1>16 DEF SendOK, Counted
  <2>3. Num(Put(cn, h, i, sending), nt \cup out, Put(told, h, q, a), lp, x, g, b, T)
    <3>1. /\ sending \in Conn /\ sending.st = cn[h][i].st /\ sending.port = cn[h][i].port
          /\ sending.p = cn[h][i].p /\ sending.snd = cn[h][i].snd /\ sending.rcv = cn[h][i].rcv
          /\ cn[h][i].len = 0 /\ cn[h][i].st \in Synchronised
          /\ cn[h][i].st = "ESTABLISHED"
      BY <1>1, <1>4, <1>5, <1>16, <1>s
    <3>2. q = cn[h][i].port /\ a = told[h][q]
      BY <1>1 DEF a
    <3> HIDE DEF q, become, base
    <3>3. SendOK(h, sending, a, Base(b, h, sending.port))
      BY <2>2, <3>1, <3>2 DEF base
    <3> QED BY <1>2, <2>1, <3>1, <3>2, <3>3, OutKeeps
  <2> QED BY <1>5, <1>10, <1>14, <1>16, <2>3 DEF out
<1>17. CASE /\ c.p /\ c.len = 0
            /\ become(closing, {Segm(h, closing, {"FIN", "ACK"}, 0)}, Put(told, h, q, shut))
  <2> DEFINE out == {Segm(h, closing, {"FIN", "ACK"}, 0)}
  <2>1. Outgoing(h, closing, shut, out)
    BY <1>6 DEF Outgoing
  <2> HIDE DEF out
  <2>2. SendOK(h, closing, shut, base)
    BY <1>3, <1>4, <1>6, <1>8, <1>17 DEF SendOK, Counted
  <2>3. shut.phase \in Ended
    BY <1>8 DEF Ended
  <2>4. Num(Put(cn, h, i, closing), nt \cup out, Put(told, h, q, shut), lp, x, g, b, T)
    <3>1. /\ closing \in Conn /\ closing.st = "FIN_WAIT_1" /\ closing.port = cn[h][i].port
          /\ closing.p = cn[h][i].p /\ closing.snd = cn[h][i].snd /\ closing.rcv = cn[h][i].rcv
          /\ cn[h][i].len = 0 /\ cn[h][i].st \in Synchronised /\ closing.st \in Synchronised
      BY <1>1, <1>4, <1>6, <1>17, <1>s
    <3>2. q = cn[h][i].port /\ a = told[h][q]
      BY <1>1 DEF a
    <3> HIDE DEF q, become, base
    <3>3. SendOK(h, closing, shut, Base(b, h, closing.port))
      BY <2>2, <3>1, <3>2 DEF base
    <3>4. shut \in Entry /\ shut.acked = told[h][q].acked /\ shut.rcvd = told[h][q].rcvd
      BY <1>8, <3>2
    <3> QED BY <2>1, <2>3, <3>1, <3>2, <3>3, <3>4, OutKeeps
  <2> QED BY <1>6, <1>14, <1>17, <2>4 DEF out
<1>18. CASE c.p /\ become(Closed(c), {Rst(h, q)}, Put(told, h, q, shut))
  <2>1. shut.phase \in Ended /\ c0.st # "CLOSED"
    BY <1>8 DEF Ended
  <2>2. Num(Put(cn, h, i, Closed(c)), nt \cup {}, Put(told, h, q, shut), lp, x, g, b, T)
    BY <1>1, <1>7, <1>8, <2>1, CloseKeeps DEF a
  <2>3. Num(Put(cn, h, i, Closed(c)), nt \cup {Rst(h, q)}, Put(told, h, q, shut), lp, x, g, b, T)
    <3>1. nt \cup {} = nt
      OBVIOUS
    <3> QED BY <1>2, <2>2, <3>1, RstKeeps
  <2> QED BY <1>7, <1>14, <1>18, <2>3
<1> QED
  BY <1>12, <1>15, <1>16, <1>17, <1>18

Now(b, T, u) == Num(conn, net, app, lastport, u, gone, b, T)
Then(b, T, u) == Num(conn', net', app', lastport, u, gone, b, T)

LEMMA Lands ==
  ASSUME NEW cn, NEW nt, NEW ap, NEW b, NEW T, NEW u,
         Num(cn, nt, ap, lastport, u, gone, b, T),
         conn' = cn, net' \subseteq nt, app' = ap
  PROVE  Then(b, T, u)
  BY LossKeeps DEF Then

LEMMA SendBounds ==
  ASSUME NEW left, NEW out, left \subseteq net, Send(left, out)
  PROVE  net' \subseteq net \cup out
  BY DEF Send

LEMMA NowFacts ==
  ASSUME NEW b, NEW T, NEW u, Now(b, T, u)
  PROVE  /\ conn \in Conns /\ app \in Apps /\ net \subseteq Segment /\ lastport \in 0..MaxPort
         /\ b \in [Port -> Nat] /\ T \subseteq Port
  BY DEF Now, Num, NumTyped, Conns

LEMMA InputFacts ==
  ASSUME NEW b, NEW T, NEW u, Now(b, T, u), NEW h \in Host, NEW i \in Slot, NEW s, NEW left,
         Receives(h, i, s, left)
  PROVE  /\ conn[h][i] \in Conn /\ conn[h][i].st # "CLOSED" /\ conn[h][i].port \in Port
         /\ conn[h][i].port <= lastport
         /\ s \in net /\ s \in Segment /\ s.to = h /\ s.port = conn[h][i].port
         /\ left \subseteq net
         /\ app[h][conn[h][i].port] \in Entry
         /\ ConnNumbered(h, conn[h][i], app[h][conn[h][i].port], lastport, u, gone, b, T)
         /\ SegNumbered(Peer(h), s, app[Peer(h)][s.port], lastport, u, b, T)
<1>1. /\ s \in net /\ s.to = h /\ s.port = conn[h][i].port /\ left \subseteq net
      /\ conn[h][i].st # "CLOSED"
  BY DEF Receives, Leaves
<1>2. Num(conn, net, app, lastport, u, gone, b, T)
  BY DEF Now
<1> QED
  BY <1>1, <1>2, ConnFacts, SegFacts

CountAck(e, acked) == [e EXCEPT !.acked = IF acked THEN @ + 1 ELSE @]

LEMMA EntryForms ==
  ASSUME NEW e \in Entry, NEW data \in Nat, NEW acked \in BOOLEAN
  PROVE  LET n == IF acked THEN e.acked + 1 ELSE e.acked
             c == CountAck(e, acked)
             d == Ends(e, acked)
             k == Hears(e, data, acked)
         IN /\ n \in Nat
            /\ c \in Entry /\ c.phase = e.phase /\ c.acked = n /\ c.rcvd = e.rcvd
            /\ d \in Entry /\ d.phase = "over" /\ d.acked = n /\ d.rcvd = e.rcvd
            /\ k \in Entry /\ k.phase = e.phase /\ k.acked = n /\ k.rcvd = Got(e.rcvd, data)
            /\ data = 0 => k = c
            /\ ~acked => c = e
<1> DEFINE n == IF acked THEN e.acked + 1 ELSE e.acked
           r == Got(e.rcvd, data)
<1>1. n \in Nat /\ e.rcvd \in Seq(Nat) /\ e.phase \in Phase /\ "over" \in Phase
  BY DEF Entry, Phase
<1>2. r \in Seq(Nat) /\ (data = 0 => r = e.rcvd)
  BY <1>1, AppendProperties DEF Got
<1>3. ~acked => n = e.acked
  OBVIOUS
<1>4. /\ Hears(e, data, acked) = [e EXCEPT !.acked = n, !.rcvd = r]
      /\ Ends(e, acked) = [e EXCEPT !.phase = "over", !.acked = n]
      /\ CountAck(e, acked) = [e EXCEPT !.acked = n]
  BY DEF Hears, Ends, CountAck
<1> HIDE DEF n, r
<1>5. /\ Hears(e, data, acked) = [phase |-> e.phase, acked |-> n, rcvd |-> r]
      /\ Ends(e, acked) = [phase |-> "over", acked |-> n, rcvd |-> e.rcvd]
      /\ CountAck(e, acked) = [phase |-> e.phase, acked |-> n, rcvd |-> e.rcvd]
  BY <1>4 DEF Entry
<1>6. e = [phase |-> e.phase, acked |-> e.acked, rcvd |-> e.rcvd]
  BY DEF Entry
<1>7. /\ Hears(e, data, acked) \in Entry /\ Ends(e, acked) \in Entry
      /\ CountAck(e, acked) \in Entry
  BY <1>1, <1>2, <1>5 DEF Entry
<1>8. data = 0 => Hears(e, data, acked) = CountAck(e, acked)
  BY <1>2, <1>5
<1>9. ~acked => CountAck(e, acked) = e
  BY <1>3, <1>5, <1>6
<1>10. /\ Hears(e, data, acked).phase = e.phase /\ Hears(e, data, acked).acked = n
       /\ Hears(e, data, acked).rcvd = r
       /\ Ends(e, acked).phase = "over" /\ Ends(e, acked).acked = n
       /\ Ends(e, acked).rcvd = e.rcvd
       /\ CountAck(e, acked).phase = e.phase /\ CountAck(e, acked).acked = n
       /\ CountAck(e, acked).rcvd = e.rcvd
  BY <1>5
<1> QED
  BY <1>1, <1>7, <1>8, <1>9, <1>10 DEF n, r

\* What the program is told, as an entry.
LEMMA ToldPut ==
  ASSUME app \in Apps, NEW h \in Host, NEW c, c.port \in Port, NEW data, NEW acked
  PROVE  LET q == c.port
             e == app[h][q]
         IN /\ Told(h, c, data, acked) = Put(app, h, q, IF c.p THEN Hears(e, data, acked) ELSE e)
            /\ ToldEnd(h, c, acked) = Put(app, h, q, IF c.p THEN Ends(e, acked) ELSE e)
            /\ ToldConnected(h, c, data) =
                 Put(app, h, q, IF c.p THEN [phase |-> "open", acked |-> 0,
                                             rcvd |-> Got(<<>>, data)] ELSE e)
<1>1. app[h][c.port] \in Entry
  BY DEF Apps, Entry
<1>2. Put(app, h, c.port, app[h][c.port]) = app
  BY <1>1, PutEntry
<1> QED
  BY <1>2 DEF Told, ToldEnd, ToldConnected, Put

LEMMA PutTwice ==
  ASSUME NEW ap \in Apps, NEW h \in Host, NEW q \in Port, NEW e0 \in Entry, NEW e
  PROVE  Put(Put(ap, h, q, e0), h, q, e) = Put(ap, h, q, e) /\ Put(ap, h, q, e0)[h][q] = e0
  BY PutEntry

\* The acknowledgement that a segment carries, if any.
LEMMA AckStep ==
  ASSUME NEW cn, NEW nt, NEW ap, NEW lp, NEW x, NEW g, NEW b, NEW T,
         Num(cn, nt, ap, lp, x, g, b, T), NEW h \in Host, NEW i \in Slot,
         cn[h][i].st \in Synchronised, NEW s \in nt, Valid(s), s.to = h, s.port = cn[h][i].port,
         NEW acks \in BOOLEAN, acks <=> Acks(cn[h][i], s) /\ cn[h][i].st = "ESTABLISHED"
  PROVE  /\ Num(Put(cn, h, i, Acked(cn[h][i], s)), nt,
                Put(ap, h, cn[h][i].port, CountAck(ap[h][cn[h][i].port], acks)), lp, x, g, b, T)
         /\ acks => cn[h][i].p
<1> DEFINE c == cn[h][i]
           q == c.port
           d == Acked(c, s)
           e0 == ap[h][q]
           e == CountAck(e0, acks)
<1>0. cn \in Conns /\ ap \in Apps
  BY DEF Num, NumTyped, Conns
<1>1. c \in Conn /\ q \in Port /\ e0 \in Entry /\ SendOK(h, c, e0, Base(b, h, q))
  BY SyncFacts, ZenonT(60)
<1>2. /\ d \in Conn /\ d.st = c.st /\ d.port = c.port /\ d.p = c.p /\ d.rcv = c.rcv
      /\ Acks(c, s) => d.snd = c.snd + c.len /\ d.len = 0
      /\ ~Acks(c, s) => d = c
  BY <1>1, AckedFields
<1>3. /\ e \in Entry /\ e.phase = e0.phase /\ e.rcvd = e0.rcvd
      /\ e.acked = IF acks THEN e0.acked + 1 ELSE e0.acked
      /\ ~acks => e = e0
  BY <1>1, EntryForms
<1>4. acks => c.p
  BY <1>1 DEF SendOK, Acks
<1>5. CASE Acks(c, s)
  <2>1. e.acked = IF c.st = "ESTABLISHED" THEN e0.acked + 1 ELSE e0.acked
    BY <1>3, <1>5
  <2> HIDE DEF d, e
  <2>2. Num(Put(cn, h, i, d), nt \cup {}, Put(ap, h, q, e), lp, x, g, b, T)
    BY <1>2, <1>3, <1>5, <2>1, AckKeeps
  <2>3. nt \cup {} = nt
    OBVIOUS
  <2> QED BY <1>4, <2>2, <2>3 DEF d, e
<1>6. CASE ~Acks(c, s)
  <2>1. d = c /\ e = e0
    BY <1>2, <1>3, <1>6
  <2>2. Put(cn, h, i, c) = cn
    BY <1>0, <1>1, PutConn
  <2>3. Put(ap, h, q, e0) = ap
    BY <1>0, <1>1, PutEntry
  <2> QED BY <1>4, <2>1, <2>2, <2>3
<1> QED
  BY <1>5, <1>6

\* What may arrive in a synchronised connection: nothing of room, or the segment expected.
LEMMA Arrives ==
  ASSUME NEW b, NEW T, NEW u, Now(b, T, u), NEW h \in Host, NEW i \in Slot, NEW s, NEW left, NEW st,
         Accepts(h, i, s, left, st), st # "SYN_SENT"
  PROVE  /\ Receives(h, i, s, left) /\ Valid(s) /\ conn[h][i].st = st
         /\ s.data \in Nat /\ Length(s) \in Nat /\ Size(s) \in Nat
         /\ Size(s) > 0 => s.seq = conn[h][i].rcv
         /\ s.data # 0 => "FIN" \notin s.flags /\ s.seq = conn[h][i].rcv
         /\ "FIN" \in s.flags => s.data = 0 /\ Size(s) = 1 /\ Length(s) = 0
         /\ "FIN" \notin s.flags => Size(s) = Length(s)
         /\ s.data = 0 => Length(s) = 0
         /\ s.data # 0 => Length(s) = DataLen
<1>1. /\ Receives(h, i, s, left) /\ "RST" \notin s.flags /\ conn[h][i].st = st
      /\ Expected(conn[h][i], s)
  BY DEF Accepts
<1>2. s \in Segment /\ SegNumbered(Peer(h), s, app[Peer(h)][s.port], lastport, u, b, T)
  BY <1>1, InputFacts
<1>3. Valid(s)
  BY <1>1 DEF Valid
<1>4. "FIN" \in s.flags => s.data = 0
  BY <1>2, <1>3 DEF SegNumbered, DataSeg, FinSeg, SynSeg
<1>5. /\ s.data \in Nat /\ Size(s) \in Nat
      /\ s.data = 0 /\ "FIN" \in s.flags => Size(s) = 1
      /\ s.data = 0 /\ "FIN" \notin s.flags <=> Size(s) = 0
  BY <1>2, SizeFacts
<1>6. /\ s.data = 0 => Length(s) = 0
      /\ s.data # 0 => Length(s) = DataLen
      /\ "FIN" \notin s.flags => Size(s) = Length(s)
  BY DEF Length, Size
<1>7. s.data # 0 \/ "FIN" \in s.flags => s.seq = conn[h][i].rcv
  BY <1>1 DEF Expected
<1> QED
  BY <1>1, <1>3, <1>4, <1>5, <1>6, <1>7, SizeAssumption

\* What is expected and known of a synchronised connection.
LEMMA NotReading ==
  ASSUME NEW cn, NEW nt, NEW ap, NEW lp, NEW x, NEW g, NEW b, NEW T,
         Num(cn, nt, ap, lp, x, g, b, T), NEW h \in Host, NEW i \in Slot,
         cn[h][i].st \in Synchronised
  PROVE  LET c == cn[h][i]
             e == ap[h][c.port]
         IN /\ ~(c.st = "ESTABLISHED" /\ c.p) => e.phase \in Ended
            /\ c.port \in Port /\ c.port <= lp /\ e \in Entry
            /\ SendOK(h, c, e, Base(b, h, c.port))
            /\ c.st # "CLOSED"
<1>1. cn[h][i].st # "CLOSED"
  BY DEF Synchronised, Handshake
<1>2. /\ cn[h][i].port \in Port /\ cn[h][i].port <= lp /\ ap[h][cn[h][i].port] \in Entry
      /\ ConnNumbered(h, cn[h][i], ap[h][cn[h][i].port], lp, x, g, b, T)
  BY <1>1, ConnFacts
<1>3. SyncOK(h, cn[h][i], ap[h][cn[h][i].port], b, T)
  BY <1>1, <1>2 DEF ConnNumbered
<1> QED
  BY <1>1, <1>2, <1>3 DEF SyncOK, ReceiveOK

\* Data that is expected, or none, for an established connection.
TakesData(cn, nt, ap, h, i, s, d, e) ==
  /\ cn[h][i].st = "ESTABLISHED" /\ Valid(s) /\ s.to = h /\ s.port = cn[h][i].port
  /\ s.data # 0 => "FIN" \notin s.flags /\ s.seq = cn[h][i].rcv
  /\ d = [cn[h][i] EXCEPT !.rcv = @ + Length(s)]
  /\ e.acked = ap[h][cn[h][i].port].acked /\ e.phase = ap[h][cn[h][i].port].phase
  /\ s.data = 0 \/ ~cn[h][i].p => e = ap[h][cn[h][i].port]
  /\ s.data # 0 /\ cn[h][i].p => e.rcvd = Got(ap[h][cn[h][i].port].rcvd, s.data)

LEMMA TakeData ==
  ASSUME NEW cn, NEW nt, NEW ap, NEW lp, NEW x, NEW g, NEW b, NEW T,
         Num(cn, nt, ap, lp, x, g, b, T), NEW h \in Host, NEW i \in Slot, NEW s \in nt,
         NEW d, NEW e \in Entry, TakesData(cn, nt, ap, h, i, s, d, e)
  PROVE  Num(Put(cn, h, i, d), nt, Put(ap, h, cn[h][i].port, e), lp, x, g, b, T)
<1>h. /\ cn[h][i].st = "ESTABLISHED" /\ Valid(s) /\ s.to = h /\ s.port = cn[h][i].port
      /\ s.data # 0 => "FIN" \notin s.flags /\ s.seq = cn[h][i].rcv
      /\ d = [cn[h][i] EXCEPT !.rcv = @ + Length(s)]
      /\ e.acked = ap[h][cn[h][i].port].acked /\ e.phase = ap[h][cn[h][i].port].phase
      /\ s.data = 0 \/ ~cn[h][i].p => e = ap[h][cn[h][i].port]
      /\ s.data # 0 /\ cn[h][i].p => e.rcvd = Got(ap[h][cn[h][i].port].rcvd, s.data)
  BY Zenon DEF TakesData
<1> USE <1>h
<1> DEFINE c == cn[h][i]
           q == c.port
           e0 == ap[h][q]
<1>0. cn \in Conns /\ ap \in Apps /\ nt \subseteq Segment
  BY DEF Num, NumTyped, Conns
<1>s. c.st \in Synchronised
  BY DEF Synchronised, Handshake, State
<1>1. c \in Conn /\ q \in Port /\ e0 \in Entry
  BY <1>s, SyncFacts, ZenonT(60)
<1>2. ~c.p => e0.phase \in Ended
  BY <1>s, NotReading
<1>3. s.data \in Nat /\ Size(s) \in Nat
  BY <1>0, SizeFacts
<1>4. c.rcv \in Nat
  BY <1>1 DEF Conn
<1>5. CASE s.data = 0
  <2>1. Length(s) = 0
    BY <1>5 DEF Length
  <2>2. d = c
    BY <1>1, <1>4, <2>1 DEF Conn
  <2>3. e = e0
    BY <1>5
  <2>4. Put(cn, h, i, c) = cn
    BY <1>0, <1>1, PutConn
  <2>5. Put(ap, h, q, e0) = ap
    BY <1>0, <1>1, PutEntry
  <2> QED BY <2>2, <2>3, <2>4, <2>5
<1>6. CASE s.data # 0
  <2>1. Size(s) = DataLen /\ Length(s) = DataLen /\ "FIN" \notin s.flags /\ s.seq = c.rcv
    BY <1>0, <1>6, SizeFacts DEF Length
  <2>2. DataLen \in Nat /\ DataLen > 0
    BY SizeAssumption
  <2>3. c.rcv + DataLen \in Nat
    BY <1>4, <2>2
  <2>4. d = [c EXCEPT !.rcv = c.rcv + DataLen]
    BY <2>1
  <2>5. /\ d \in Conn /\ d.st = c.st /\ d.port = c.port /\ d.p = c.p /\ d.snd = c.snd
        /\ d.rcv = c.rcv + DataLen /\ d.len = c.len
    BY <1>1, <2>3, <2>4 DEF Conn
  <2>6. /\ c.st = "ESTABLISHED" /\ d.rcv = c.rcv + Size(s) /\ Size(s) > 0
        /\ e.acked = e0.acked
        /\ \/ /\ d.st = "ESTABLISHED" /\ d.p /\ "FIN" \notin s.flags
              /\ e.phase = e0.phase /\ e.rcvd = Got(e0.rcvd, s.data)
           \/ /\ ~(d.st = "ESTABLISHED" /\ d.p)
              /\ e.phase \in Ended /\ e.rcvd = e0.rcvd
    BY <1>2, <1>6, <2>1, <2>2, <2>5
  <2>7. Receipt(c, e0, s, d, e)
    BY <1>s, <2>1, <2>5, <2>6 DEF Receipt
  <2> QED BY <2>7, ReceiptKeeps
<1> QED
  BY <1>5, <1>6

LEMMA EstablishedNum ==
  ASSUME NEW b, NEW T, NEW u, Now(b, T, u), NEW h \in Host, NEW i \in Slot, NEW s, NEW left,
         InputEstablished(h, i, s, left)
  PROVE  Then(b, T, u)
<1> DEFINE c0 == conn[h][i]
           q == c0.port
           acks == Acks(c0, s)
           c1 == Acked(c0, s)
           c == [c1 EXCEPT !.rcv = @ + Length(s)]
           e0 == app[h][q]
           e1 == CountAck(e0, acks)
           e == IF c0.p THEN Hears(e0, s.data, acks) ELSE e0
           cn1 == Put(conn, h, i, c1)
           ap1 == Put(app, h, q, e1)
           cn2 == Put(conn, h, i, c)
           ap2 == Put(app, h, q, e)
<1>1. /\ Accepts(h, i, s, left, "ESTABLISHED") /\ "FIN" \notin s.flags
      /\ IF acks \/ s.data # 0
         THEN AppSend(h, i, c, s.data # 0, Told(h, c, s.data, acks), left)
         ELSE Become(h, i, c, left, {}) /\ UNCHANGED app
      /\ UNCHANGED <<numbers, lastport, gone>>
  BY DEF InputEstablished
<1>2. /\ Receives(h, i, s, left) /\ Valid(s) /\ c0.st = "ESTABLISHED"
      /\ s.data \in Nat /\ Length(s) \in Nat
      /\ s.data # 0 => s.seq = c0.rcv
      /\ s.data = 0 => Length(s) = 0
  BY <1>1, Arrives
<1>3. /\ c0 \in Conn /\ q \in Port /\ e0 \in Entry /\ s \in net /\ s.to = h /\ s.port = q
      /\ left \subseteq net
  BY <1>2, InputFacts
<1>4. conn \in Conns /\ app \in Apps
  BY NowFacts
<1>s. c0.st \in Synchronised
  BY <1>2 DEF Synchronised, Handshake, State
<1>5. acks \in BOOLEAN
  BY DEF Acks
<1>6. c1 \in Conn /\ c1.st = c0.st /\ c1.port = q /\ c1.p = c0.p /\ c1.rcv = c0.rcv
      /\ (~acks => c1 = c0)
  BY <1>3, AckedFields
<1>7. c \in Conn /\ c.st = c0.st /\ c.port = q /\ c.p = c0.p
  BY <1>2, <1>6 DEF Conn
<1>8. /\ e1 \in Entry /\ (~acks => e1 = e0)
      /\ e1.phase = e0.phase /\ e1.rcvd = e0.rcvd
      /\ Hears(e0, s.data, acks) \in Entry /\ Hears(e0, s.data, acks).phase = e0.phase
      /\ Hears(e0, s.data, acks).acked = e1.acked
      /\ Hears(e0, s.data, acks).rcvd = Got(e0.rcvd, s.data)
      /\ s.data = 0 => Hears(e0, s.data, acks) = e1
  <2>1. e0 \in Entry /\ s.data \in Nat /\ acks \in BOOLEAN
    BY <1>2, <1>3, <1>5
  <2> HIDE DEF acks, e0
  <2> QED BY <2>1, EntryForms
<1>9. Num(cn1, net, ap1, lastport, u, gone, b, T) /\ (acks => c0.p)
  <2>1. Num(conn, net, app, lastport, u, gone, b, T)
    BY DEF Now
  <2> QED BY <1>2, <1>3, <1>5, <1>s, <2>1, AckStep
<1>10. Told(h, c, s.data, acks) = ap2
  <2>1. Told(h, c, s.data, acks) = Put(app, h, c.port,
                                       IF c.p THEN Hears(app[h][c.port], s.data, acks)
                                              ELSE app[h][c.port])
    <3>1. c.port \in Port
      BY <1>3, <1>7
    <3> HIDE DEF c, acks
    <3> QED BY <1>4, <3>1, ToldPut
  <2> QED BY <1>7, <2>1
<1> HIDE DEF acks, c1, e1, e
<1>11. cn1[h][i] = c1 /\ ap1[h][q] = e1 /\ Put(cn1, h, i, c) = cn2 /\ Put(ap1, h, q, e) = ap2
  <2>1. cn1[h][i] = c1 /\ Put(cn1, h, i, c) = cn2
    BY <1>3, <1>4, <1>6, PutConn
  <2>2. ap1[h][q] = e1 /\ Put(ap1, h, q, e) = ap2
    BY <1>3, <1>4, <1>8, PutTwice
  <2> QED BY <2>1, <2>2
<1>12. /\ e \in Entry /\ e.acked = e1.acked /\ e.phase = e1.phase
       /\ s.data = 0 \/ ~c0.p => e = e1
       /\ s.data # 0 /\ c0.p => e.rcvd = Got(e1.rcvd, s.data)
  <2>1. CASE c0.p
    <3>1. e = Hears(e0, s.data, acks)
      BY <2>1 DEF e
    <3> QED BY <1>8, <2>1, <3>1
  <2>2. CASE ~c0.p
    <3>1. e = e0 /\ e1 = e0
      BY <1>8, <1>9, <2>2 DEF e
    <3> QED BY <1>3, <2>2, <3>1
  <2> QED BY <2>1, <2>2
<1> HIDE DEF cn1, ap1, cn2, ap2
<1>13. Num(cn2, net, ap2, lastport, u, gone, b, T)
  <2>1. cn1[h][i].st = "ESTABLISHED" /\ cn1[h][i].port = q /\ cn1[h][i].p = c0.p
        /\ cn1[h][i].rcv = c0.rcv
    BY <1>2, <1>6, <1>11
  <2>2. c = [cn1[h][i] EXCEPT !.rcv = @ + Length(s)]
    BY <1>11
  <2> HIDE DEF c, q, c0, e0
  <2>3. Num(Put(cn1, h, i, c), net, Put(ap1, h, cn1[h][i].port, e), lastport, u, gone, b, T)
    <3>1. TakesData(cn1, net, ap1, h, i, s, c, e)
      BY <1>1, <1>2, <1>3, <1>9, <1>11, <1>12, <2>1, <2>2 DEF c0, TakesData
    <3> QED BY <1>3, <1>9, <1>12, <3>1, TakeData, Zenon
  <2> QED BY <1>11, <2>1, <2>3
<1>14. CASE acks \/ s.data # 0
  <2>1. AppSend(h, i, c, s.data # 0, ap2, left)
    BY <1>1, <1>10, <1>14
  <2>2. c.st = "ESTABLISHED" /\ c \in Conn
    BY <1>2, <1>7
  <2> HIDE DEF c
  <2>3. Num(conn', net', app', lastport, u, gone, b, T)
    BY <1>3, <1>4, <1>13, <2>1, <2>2, AppSendKeeps DEF cn2
  <2> QED BY <2>3 DEF Then
<1>15. CASE ~(acks \/ s.data # 0)
  <2>1. e = e0
    BY <1>8, <1>12, <1>15
  <2>2. ap2 = app
    BY <1>3, <1>4, <2>1, PutEntry DEF ap2
  <2>3. conn' = cn2 /\ net' \subseteq net /\ app' = app
    BY <1>1, <1>3, <1>15 DEF Become, Send, Put, cn2
  <2> QED BY <1>13, <2>2, <2>3, Lands
<1> QED
  BY <1>14, <1>15

\* A step of a connection whose own program has closed it, or was told that it is closed.
Late(h, i, s, left, d, e, out) ==
  LET c == conn[h][i]
      e0 == app[h][c.port]
  IN /\ c.st \in Synchronised /\ c.st # "ESTABLISHED" /\ (Size(s) > 0 => s.seq = c.rcv)
     /\ d \in Conn /\ d.st \in Synchronised /\ d.st # "ESTABLISHED"
     /\ d.port = c.port /\ d.p = c.p
     /\ \E c1 \in {c, Acked(c, s)} : d.snd = c1.snd /\ d.len = c1.len
     /\ d.rcv \in {c.rcv, c.rcv + Size(s)}
     /\ e \in Entry /\ e.acked = e0.acked /\ e.rcvd = e0.rcvd
     /\ e.phase = e0.phase \/ e.phase \in Ended
     /\ out = {} \/ out = AckOf(h, d)
     /\ Become(h, i, d, left, out) /\ app' = Put(app, h, c.port, e)

LEMMA LateNum ==
  ASSUME NEW b, NEW T, NEW u, Now(b, T, u), NEW h \in Host, NEW i \in Slot, NEW s, NEW left,
         Receives(h, i, s, left), Valid(s), NEW d, NEW e, NEW out,
         Late(h, i, s, left, d, e, out)
  PROVE  Then(b, T, u)
<1>c. PICK c1 \in {conn[h][i], Acked(conn[h][i], s)} : d.snd = c1.snd /\ d.len = c1.len
  BY DEF Late
<1> DEFINE c == conn[h][i]
           q == c.port
           e0 == app[h][q]
           cn1 == Put(conn, h, i, c1)
           cn2 == Put(conn, h, i, d)
           ap2 == Put(app, h, q, e)
<1>1. /\ c \in Conn /\ q \in Port /\ e0 \in Entry /\ s \in net /\ s \in Segment /\ s.to = h
      /\ s.port = q /\ left \subseteq net
  BY InputFacts
<1>2. conn \in Conns /\ app \in Apps
  BY NowFacts
<1>3. /\ c.st \in Synchronised /\ c.st # "ESTABLISHED" /\ (Size(s) > 0 => s.seq = c.rcv)
      /\ d \in Conn /\ d.st \in Synchronised /\ d.st # "ESTABLISHED"
      /\ d.port = q /\ d.p = c.p /\ d.snd = c1.snd /\ d.len = c1.len
      /\ d.rcv \in {c.rcv, c.rcv + Size(s)}
      /\ e \in Entry /\ e.acked = e0.acked /\ e.rcvd = e0.rcvd
      /\ e.phase = e0.phase \/ e.phase \in Ended
      /\ out = {} \/ out = AckOf(h, d)
  BY <1>c DEF Late
<1>4. /\ Become(h, i, d, left, out) /\ app' = ap2
  BY DEF Late
<1>5. c1 \in Conn /\ c1.st = c.st /\ c1.port = q /\ c1.p = c.p /\ c1.rcv = c.rcv
  BY <1>1, AckedFields
<1>6. Num(cn1, net, app, lastport, u, gone, b, T)
  <2>1. Num(conn, net, app, lastport, u, gone, b, T)
    BY DEF Now
  <2>6. Put(conn, h, i, c) = conn
    BY <1>1, <1>2, PutConn
  <2>2. FALSE <=> Acks(c, s) /\ c.st = "ESTABLISHED"
    BY <1>3
  <2>3. Num(Put(conn, h, i, Acked(c, s)), net, Put(app, h, q, CountAck(e0, FALSE)),
            lastport, u, gone, b, T)
    BY <1>1, <1>3, <2>1, <2>2, AckStep
  <2>4. CountAck(e0, FALSE) = e0
    BY <1>1, EntryForms
  <2>5. Put(app, h, q, e0) = app
    BY <1>1, <1>2, PutEntry
  <2> QED BY <2>1, <2>3, <2>4, <2>5, <2>6
<1>7. /\ cn1[h][i] = c1 /\ Put(cn1, h, i, d) = cn2 /\ Put(cn2, h, i, d) = cn2 /\ cn2[h][i] = d
  BY <1>1, <1>2, <1>3, <1>5, PutConn
<1>8. ap2[h][q] = e /\ Put(ap2, h, q, e) = ap2
  BY <1>1, <1>2, <1>3, PutTwice
<1>9. e0.phase \in Ended /\ e.phase \in Ended
  <2>1. cn1[h][i].st \in Synchronised /\ cn1[h][i].st # "ESTABLISHED" /\ cn1[h][i].port = q
    BY <1>3, <1>5, <1>7
  <2>2. e0.phase \in Ended
    BY <1>6, <2>1, NotReading
  <2> QED BY <1>3, <2>2
<1>10. Size(s) \in Nat /\ c.rcv \in Nat
  BY <1>1, SizeFacts DEF Conn
<1> HIDE DEF cn1, cn2, ap2, e0
<1>11. Num(cn2, net, ap2, lastport, u, gone, b, T)
  <2>1. CASE d.rcv = c.rcv
    <3>1. SendOK(h, d, e, Base(b, h, d.port))
      <4>1. SendOK(h, c1, e0, Base(b, h, q))
        BY <1>3, <1>5, <1>6, <1>7, NotReading DEF e0
      <4> QED BY <1>3, <1>5, <4>1 DEF SendOK, Counted
    <3>2. Outgoing(h, d, e, {})
      BY DEF Outgoing
    <3>3. /\ d.rcv = cn1[h][i].rcv /\ d.port = cn1[h][i].port /\ d.p = cn1[h][i].p
          /\ d.snd = cn1[h][i].snd /\ d.len = cn1[h][i].len /\ cn1[h][i].st \in Synchronised
      BY <1>3, <1>5, <1>7, <2>1
    <3>4. /\ e.acked = app[h][cn1[h][i].port].acked /\ e.rcvd = app[h][cn1[h][i].port].rcvd
      BY <1>3, <1>5, <1>7 DEF e0
    <3>5. Num(Put(cn1, h, i, d), net \cup {}, Put(app, h, cn1[h][i].port, e),
              lastport, u, gone, b, T)
      <4> HIDE DEF c, q
      <4> QED BY <1>3, <1>6, <1>9, <3>1, <3>2, <3>3, <3>4, OutKeeps
    <3>6. net \cup {} = net
      OBVIOUS
    <3> QED BY <1>5, <1>7, <3>5, <3>6 DEF ap2
  <2>2. CASE d.rcv # c.rcv
    <3>1. Size(s) > 0 /\ d.rcv = c.rcv + Size(s)
      BY <1>3, <1>10, <2>2
    <3>2. Receipt(c1, e0, s, d, e)
      BY <1>1, <1>3, <1>5, <1>9, <3>1 DEF Receipt
    <3>3. Num(Put(cn1, h, i, d), net, Put(app, h, cn1[h][i].port, e),
              lastport, u, gone, b, T)
      BY <1>1, <1>5, <1>6, <1>7, <3>2, ReceiptKeeps DEF e0
    <3> QED BY <1>5, <1>7, <3>3 DEF ap2
  <2> QED BY <2>1, <2>2
<1>12. Num(cn2, net \cup out, ap2, lastport, u, gone, b, T)
  <2>1. SendOK(h, d, e, Base(b, h, d.port))
    BY <1>3, <1>7, <1>8, <1>11, NotReading
  <2>2. Outgoing(h, d, e, out)
    BY <1>3 DEF Outgoing, AckOf
  <2>3. /\ cn2[h][i].st \in Synchronised /\ d.port = cn2[h][i].port /\ d.p = cn2[h][i].p
        /\ d.snd = cn2[h][i].snd /\ d.rcv = cn2[h][i].rcv /\ d.len = cn2[h][i].len
        /\ d.st \in Synchronised /\ d.st = cn2[h][i].st
        /\ e.acked = ap2[h][cn2[h][i].port].acked /\ e.rcvd = ap2[h][cn2[h][i].port].rcvd
        /\ e.phase = ap2[h][cn2[h][i].port].phase
    BY <1>3, <1>7, <1>8
  <2>4. Num(Put(cn2, h, i, d), net \cup out, Put(ap2, h, cn2[h][i].port, e),
            lastport, u, gone, b, T)
    BY <1>3, <1>9, <1>11, <2>1, <2>2, <2>3, OutKeeps
  <2> QED BY <1>3, <1>7, <1>8, <2>4
<1>13. conn' = cn2 /\ net' \subseteq net \cup out
  BY <1>1, <1>4 DEF Become, Send, Put, cn2
<1> QED
  BY <1>4, <1>12, <1>13, Lands

\* The program, if there is one, is told that the connection has ended.
LEMMA EndEntry ==
  ASSUME app \in Apps, NEW h \in Host, NEW q \in Port, NEW d, d.port = q
  PROVE  \E e \in Entry :
           /\ ToldEnd(h, d, FALSE) = Put(app, h, q, e)
           /\ e.acked = app[h][q].acked /\ e.rcvd = app[h][q].rcvd
           /\ e.phase = app[h][q].phase \/ e.phase \in Ended
<1> DEFINE e0 == app[h][q]
<1>1. e0 \in Entry
  BY DEF Apps, Entry
<1>2. CASE d.p
  <2> DEFINE e == Ends(e0, FALSE)
  <2>1. e \in Entry /\ e.acked = e0.acked /\ e.rcvd = e0.rcvd /\ e.phase \in Ended
    BY <1>1, EntryForms DEF Ended
  <2>2. ToldEnd(h, d, FALSE) = Put(app, h, q, e)
    BY <1>2 DEF ToldEnd, Put
  <2> HIDE DEF e
  <2> QED BY <2>1, <2>2
<1>3. CASE ~d.p
  <2>1. ToldEnd(h, d, FALSE) = app
    BY <1>3 DEF ToldEnd
  <2>2. Put(app, h, q, e0) = app
    BY <1>1, PutEntry
  <2> QED BY <1>1, <2>1, <2>2
<1> QED
  BY <1>2, <1>3

LEMMA FinWait1Num ==
  ASSUME NEW b, NEW T, NEW u, Now(b, T, u), NEW h \in Host, NEW i \in Slot, NEW s, NEW left,
         InputFinWait1(h, i, s, left)
  PROVE  Then(b, T, u)
<1> DEFINE c0 == conn[h][i]
           q == c0.port
           acks == Acks(c0, s)
           c1 == Acked(c0, s)
           c == [c1 EXCEPT !.rcv = @ + Length(s)]
           d == [c EXCEPT !.rcv = @ + 1, !.st = IF acks THEN "TIME_WAIT" ELSE "CLOSING"]
           e0 == app[h][q]
           e == IF c0.p THEN Ends(e0, FALSE) ELSE e0
<1>1. /\ Accepts(h, i, s, left, "FIN_WAIT_1")
      /\ \/ /\ "FIN" \in s.flags
            /\ Become(h, i, d, left, AckOf(h, d))
            /\ app' = ToldEnd(h, d, FALSE)
         \/ /\ "FIN" \notin s.flags
            /\ Become(h, i, [c EXCEPT !.st = "FIN_WAIT_2"], left, {})
            /\ UNCHANGED app
         \/ /\ "FIN" \notin s.flags
            /\ Become(h, i, c, left, IF s.data # 0 THEN AckOf(h, c) ELSE {})
            /\ UNCHANGED app
  BY DEF InputFinWait1
<1>2. /\ Receives(h, i, s, left) /\ Valid(s) /\ c0.st = "FIN_WAIT_1"
      /\ Length(s) \in Nat /\ (Size(s) > 0 => s.seq = c0.rcv)
      /\ "FIN" \in s.flags => Size(s) = 1 /\ Length(s) = 0
      /\ "FIN" \notin s.flags => Size(s) = Length(s)
  BY <1>1, Arrives
<1>3. /\ c0 \in Conn /\ q \in Port /\ e0 \in Entry
  BY <1>2, InputFacts
<1>4. conn \in Conns /\ app \in Apps
  BY NowFacts
<1>5. c1 \in Conn /\ c1.st = c0.st /\ c1.port = q /\ c1.p = c0.p /\ c1.rcv = c0.rcv
      /\ c0.rcv \in Nat
  BY <1>3, AckedFields DEF Conn
<1> HIDE DEF c1, acks
<1>6. /\ c \in Conn /\ c.st = "FIN_WAIT_1" /\ c.port = q /\ c.p = c0.p /\ c.snd = c1.snd
      /\ c.len = c1.len /\ c.rcv = c0.rcv + Length(s)
  BY <1>2, <1>5 DEF Conn
<1>7. /\ [c EXCEPT !.st = "FIN_WAIT_2"] \in Conn /\ [c EXCEPT !.st = "FIN_WAIT_2"].st = "FIN_WAIT_2"
      /\ [c EXCEPT !.st = "FIN_WAIT_2"].port = q /\ [c EXCEPT !.st = "FIN_WAIT_2"].p = c0.p
      /\ [c EXCEPT !.st = "FIN_WAIT_2"].snd = c1.snd /\ [c EXCEPT !.st = "FIN_WAIT_2"].len = c1.len
      /\ [c EXCEPT !.st = "FIN_WAIT_2"].rcv = c0.rcv + Length(s)
  <2> HIDE DEF c
  <2>1. "FIN_WAIT_2" \in State
    BY DEF State, Transient
  <2> QED BY <1>6, <2>1 DEF Conn
<1>8. /\ d \in Conn /\ d.st \in {"TIME_WAIT", "CLOSING"} /\ d.port = q /\ d.p = c0.p
      /\ d.snd = c1.snd /\ d.len = c1.len /\ d.rcv = c0.rcv + Length(s) + 1
  <2> HIDE DEF c
  <2>1. c.rcv + 1 \in Nat
    BY <1>2, <1>5, <1>6
  <2> QED BY <1>6, <2>1 DEF Conn, State, Transient
<1>9. /\ e \in Entry /\ e.acked = e0.acked /\ e.rcvd = e0.rcvd
      /\ e.phase = e0.phase \/ e.phase \in Ended
  BY <1>3, EntryForms DEF Ended
<1>10. ToldEnd(h, d, FALSE) = Put(app, h, q, e)
  <2> HIDE DEF d
  <2>1. Put(app, h, q, e0) = app
    BY <1>3, <1>4, PutEntry
  <2>2. CASE c0.p
    BY <1>8, <2>2 DEF ToldEnd, Put
  <2>3. CASE ~c0.p
    BY <1>8, <2>1, <2>3 DEF ToldEnd
  <2> QED BY <2>2, <2>3
<1>11. Put(app, h, q, e0) = app
  BY <1>3, <1>4, PutEntry
<1>12. /\ "FIN_WAIT_1" \in Synchronised /\ "FIN_WAIT_2" \in Synchronised
       /\ "TIME_WAIT" \in Synchronised /\ "CLOSING" \in Synchronised
  BY DEF Synchronised, Handshake, State, Transient
<1> HIDE DEF c, d, e
<1>13. CASE /\ "FIN" \in s.flags /\ Become(h, i, d, left, AckOf(h, d))
            /\ app' = ToldEnd(h, d, FALSE)
  <2>1. d.rcv = c0.rcv + Size(s)
    BY <1>2, <1>5, <1>8, <1>13
  <2>2. Late(h, i, s, left, d, e, AckOf(h, d))
    BY <1>2, <1>8, <1>9, <1>10, <1>12, <1>13, <2>1 DEF Late, c1
  <2> QED BY <1>2, <2>2, LateNum
<1>14. CASE /\ "FIN" \notin s.flags /\ Become(h, i, [c EXCEPT !.st = "FIN_WAIT_2"], left, {})
            /\ UNCHANGED app
  <2> DEFINE d2 == [c EXCEPT !.st = "FIN_WAIT_2"]
  <2>1. /\ d2 \in Conn /\ d2.st = "FIN_WAIT_2" /\ d2.port = q /\ d2.p = c0.p
        /\ d2.snd = c1.snd /\ d2.len = c1.len /\ d2.rcv = c0.rcv + Size(s)
        /\ Become(h, i, d2, left, {}) /\ app' = Put(app, h, q, e0)
    BY <1>2, <1>7, <1>11, <1>14
  <2> HIDE DEF d2
  <2>2. Late(h, i, s, left, d2, e0, {})
    BY <1>2, <1>3, <1>12, <2>1 DEF Late, c1
  <2> QED BY <1>2, <2>2, LateNum
<1>15. CASE /\ "FIN" \notin s.flags
            /\ Become(h, i, c, left, IF s.data # 0 THEN AckOf(h, c) ELSE {})
            /\ UNCHANGED app
  <2> DEFINE out == IF s.data # 0 THEN AckOf(h, c) ELSE {}
  <2>1. out = {} \/ out = AckOf(h, c)
    OBVIOUS
  <2>2. Become(h, i, c, left, out) /\ app' = Put(app, h, q, e0)
    BY <1>11, <1>15
  <2> HIDE DEF out
  <2>3. Late(h, i, s, left, c, e0, out)
    BY <1>2, <1>3, <1>6, <1>12, <1>15, <2>1, <2>2 DEF Late, c1
  <2> QED BY <1>2, <2>3, LateNum
<1> QED
  BY <1>1, <1>13, <1>14, <1>15

LEMMA FinWait2Num ==
  ASSUME NEW b, NEW T, NEW u, Now(b, T, u), NEW h \in Host, NEW i \in Slot, NEW s, NEW left,
         InputFinWait2(h, i, s, left)
  PROVE  Then(b, T, u)
<1> DEFINE c0 == conn[h][i]
           q == c0.port
           c == [c0 EXCEPT !.rcv = @ + Length(s)]
           d == [c EXCEPT !.rcv = @ + 1, !.st = "TIME_WAIT"]
           e0 == app[h][q]
<1>1. /\ Accepts(h, i, s, left, "FIN_WAIT_2")
      /\ \/ /\ "FIN" \in s.flags
            /\ Become(h, i, d, left, AckOf(h, d)) /\ app' = ToldEnd(h, d, FALSE)
         \/ /\ "FIN" \notin s.flags
            /\ Become(h, i, c, left, IF s.data # 0 THEN AckOf(h, c) ELSE {})
            /\ UNCHANGED app
  BY DEF InputFinWait2
<1>2. /\ Receives(h, i, s, left) /\ Valid(s) /\ c0.st = "FIN_WAIT_2"
      /\ Length(s) \in Nat /\ (Size(s) > 0 => s.seq = c0.rcv)
      /\ "FIN" \in s.flags => Size(s) = 1 /\ Length(s) = 0
      /\ "FIN" \notin s.flags => Size(s) = Length(s)
  BY <1>1, Arrives
<1>3. /\ c0 \in Conn /\ q \in Port /\ e0 \in Entry
  BY <1>2, InputFacts
<1>4. conn \in Conns /\ app \in Apps
  BY NowFacts
<1>5. c0.st \in Synchronised /\ "TIME_WAIT" \in Synchronised
  BY <1>2 DEF Synchronised, Handshake, State, Transient
<1>6. /\ c \in Conn /\ c.st = c0.st /\ c.port = q /\ c.p = c0.p /\ c.snd = c0.snd
      /\ c.len = c0.len /\ c.rcv = c0.rcv + Length(s) /\ c0.rcv \in Nat
  BY <1>2, <1>3 DEF Conn
<1>7. /\ d \in Conn /\ d.st = "TIME_WAIT" /\ d.port = q /\ d.p = c0.p /\ d.snd = c0.snd
      /\ d.len = c0.len /\ d.rcv = c0.rcv + Length(s) + 1
  <2> HIDE DEF c
  <2>1. c.rcv + 1 \in Nat
    BY <1>2, <1>6
  <2> QED BY <1>6, <2>1 DEF Conn, State, Transient
<1>8. Put(app, h, q, e0) = app
  BY <1>3, <1>4, PutEntry
<1> HIDE DEF c, d
<1>9. CASE /\ "FIN" \in s.flags
           /\ Become(h, i, d, left, AckOf(h, d)) /\ app' = ToldEnd(h, d, FALSE)
  <2>1. PICK e \in Entry :
          /\ ToldEnd(h, d, FALSE) = Put(app, h, q, e) /\ e.acked = e0.acked /\ e.rcvd = e0.rcvd
          /\ e.phase = e0.phase \/ e.phase \in Ended
    BY <1>3, <1>4, <1>7, EndEntry
  <2>2. d.rcv = c0.rcv + Size(s)
    BY <1>2, <1>6, <1>7, <1>9
  <2>3. Late(h, i, s, left, d, e, AckOf(h, d))
    BY <1>2, <1>5, <1>7, <1>9, <2>1, <2>2 DEF Late
  <2> QED BY <1>2, <2>3, LateNum
<1>10. CASE /\ "FIN" \notin s.flags
            /\ Become(h, i, c, left, IF s.data # 0 THEN AckOf(h, c) ELSE {})
            /\ UNCHANGED app
  <2> DEFINE out == IF s.data # 0 THEN AckOf(h, c) ELSE {}
  <2>1. out = {} \/ out = AckOf(h, c)
    OBVIOUS
  <2>2. Become(h, i, c, left, out) /\ app' = Put(app, h, q, e0)
    BY <1>8, <1>10
  <2> HIDE DEF out
  <2>3. Late(h, i, s, left, c, e0, out)
    BY <1>2, <1>3, <1>5, <1>6, <1>10, <2>1, <2>2 DEF Late
  <2> QED BY <1>2, <2>3, LateNum
<1> QED
  BY <1>1, <1>9, <1>10

LEMMA TimeWaitNum ==
  ASSUME NEW b, NEW T, NEW u, Now(b, T, u), NEW h \in Host, NEW i \in Slot, NEW s, NEW left,
         InputTimeWait(h, i, s, left) \/ InputClosing(h, i, s, left)
  PROVE  Then(b, T, u)
<1> DEFINE c0 == conn[h][i]
           q == c0.port
           c == Acked(c0, s)
           e0 == app[h][q]
<1>1. \E st \in {"TIME_WAIT", "CLOSING"} : Accepts(h, i, s, left, st)
  BY DEF InputTimeWait, InputClosing
<1>2. /\ Receives(h, i, s, left) /\ Valid(s) /\ c0.st \in {"TIME_WAIT", "CLOSING"}
      /\ (Size(s) > 0 => s.seq = c0.rcv)
  <2>1. PICK st \in {"TIME_WAIT", "CLOSING"} : Accepts(h, i, s, left, st)
    BY <1>1
  <2>2. st # "SYN_SENT"
    OBVIOUS
  <2> QED BY <2>1, <2>2, Arrives
<1>3. /\ c0 \in Conn /\ q \in Port /\ e0 \in Entry
  BY <1>2, InputFacts
<1>4. conn \in Conns /\ app \in Apps
  BY NowFacts
<1>5. c0.st \in Synchronised /\ "TIME_WAIT" \in Synchronised /\ "TIME_WAIT" \in State
  BY <1>2 DEF Synchronised, Handshake, State, Transient
<1>6. /\ c \in Conn /\ c.st = c0.st /\ c.port = q /\ c.p = c0.p /\ c.rcv = c0.rcv
      /\ c0.rcv \in Nat
  BY <1>3, AckedFields DEF Conn
<1> DEFINE d == [c EXCEPT !.st = "TIME_WAIT"]
<1> HIDE DEF c
<1>7. /\ d \in Conn /\ d.st = "TIME_WAIT" /\ d.port = q /\ d.p = c0.p /\ d.snd = c.snd
      /\ d.len = c.len /\ d.rcv = c0.rcv
  BY <1>5, <1>6 DEF Conn
<1>8. Put(app, h, q, e0) = app
  BY <1>3, <1>4, PutEntry
<1>9. /\ app' = Put(app, h, q, e0)
      /\ \/ Become(h, i, c, left, AckOf(h, c)) \/ Become(h, i, c, left, {})
         \/ Become(h, i, d, left, {})
  BY <1>8 DEF InputTimeWait, InputClosing, c
<1> HIDE DEF d
<1>10. CASE Become(h, i, c, left, AckOf(h, c)) \/ Become(h, i, c, left, {})
  <2>1. PICK out \in {{}, AckOf(h, c)} : Become(h, i, c, left, out)
    BY <1>10
  <2>2. Late(h, i, s, left, c, e0, out)
    BY <1>2, <1>3, <1>5, <1>6, <1>9, <2>1 DEF Late, c
  <2> QED BY <1>2, <2>2, LateNum
<1>11. CASE Become(h, i, d, left, {})
  <2>1. Late(h, i, s, left, d, e0, {})
    BY <1>2, <1>3, <1>5, <1>7, <1>9, <1>11 DEF Late, c
  <2> QED BY <1>2, <2>1, LateNum
<1> QED
  BY <1>9, <1>10, <1>11

\* A connection that is closed, its program told or not, perhaps with a RST for the peer.
LEMMA ClosedNum ==
  ASSUME NEW b, NEW T, NEW u, NEW cn, NEW h \in Host, NEW i \in Slot, NEW c \in Conn, c.st # "CLOSED",
         conn \in Conns, app \in Apps, cn = Put(conn, h, i, c),
         Num(cn, net, app, lastport, u, gone, b, T),
         NEW d \in Conn, d.st = "CLOSED", NEW c2, c2.port = c.port,
         NEW left, left \subseteq net, NEW out, out = {} \/ out = {Rst(h, c.port)},
         conn' = [conn EXCEPT ![h][i] = d], net' = left \/ Send(left, out),
         app' = app \/ app' = ToldEnd(h, c2, FALSE)
  PROVE  Then(b, T, u)
<1> DEFINE q == c.port
           e0 == app[h][q]
<1>1. cn[h][i] = c /\ Put(cn, h, i, d) = Put(conn, h, i, d)
  BY PutConn
<1>2. q \in Port /\ q <= lastport /\ e0 \in Entry
  <2>1. cn[h][i].st # "CLOSED"
    BY <1>1
  <2> QED BY <1>1, <2>1, ConnFacts
<1>3. PICK e \in Entry :
        /\ app' = Put(app, h, q, e) /\ e.acked = e0.acked /\ e.rcvd = e0.rcvd
        /\ e.phase = e0.phase \/ e.phase \in Ended
  <2>1. CASE app' = app
    <3>1. Put(app, h, q, e0) = app
      BY <1>2, PutEntry
    <3> QED BY <1>2, <2>1, <3>1
  <2>2. CASE app' = ToldEnd(h, c2, FALSE)
    <3>1. c2.port = q
      OBVIOUS
    <3> HIDE DEF q
    <3> QED BY <1>2, <2>2, <3>1, EndEntry
  <2> QED BY <2>1, <2>2
<1>4. Num(Put(conn, h, i, d), net, app', lastport, u, gone, b, T)
  <2>1. net \cup {} = net
    OBVIOUS
  <2>2. cn[h][i].st # "CLOSED" /\ cn[h][i].port = q
    BY <1>1
  <2>3. /\ e.acked = app[h][cn[h][i].port].acked /\ e.rcvd = app[h][cn[h][i].port].rcvd
        /\ e.phase = app[h][cn[h][i].port].phase \/ e.phase \in Ended
    BY <1>3, <2>2
  <2>4. Num(Put(cn, h, i, d), net \cup {}, Put(app, h, cn[h][i].port, e),
            lastport, u, gone, b, T)
    <3> HIDE DEF q, e0
    <3> QED BY <2>2, <2>3, CloseKeeps
  <2> QED BY <1>1, <1>3, <2>1, <2>2, <2>4
<1>5. Num(Put(conn, h, i, d), net \cup out, app', lastport, u, gone, b, T)
  <2>1. CASE out = {}
    <3>1. net \cup out = net
      BY <2>1
    <3> QED BY <1>4, <3>1
  <2>2. CASE out = {Rst(h, q)}
    <3> HIDE DEF q
    <3> QED BY <1>2, <1>4, <2>2, RstKeeps
  <2> QED BY <2>1, <2>2
<1>6. conn' = Put(conn, h, i, d) /\ net' \subseteq net \cup out
  BY DEF Put, Send
<1> QED
  BY <1>5, <1>6, Lands

LEMMA DroppedNum ==
  ASSUME NEW b, NEW T, NEW u, Now(b, T, u), conn' = conn, net' \subseteq net, app' = app
  PROVE  Then(b, T, u)
  BY Lands DEF Now

\* The same of a connection that is as it was.
LEMMA ClosedNow ==
  ASSUME NEW b, NEW T, NEW u, Now(b, T, u), NEW h \in Host, NEW i \in Slot, conn[h][i].st # "CLOSED",
         NEW d \in Conn, d.st = "CLOSED", NEW c2, c2.port = conn[h][i].port,
         NEW left, left \subseteq net, NEW out, out = {} \/ out = {Rst(h, conn[h][i].port)},
         conn' = [conn EXCEPT ![h][i] = d], net' = left \/ Send(left, out),
         app' = app \/ app' = ToldEnd(h, c2, FALSE)
  PROVE  Then(b, T, u)
<1>1. conn \in Conns /\ app \in Apps /\ conn[h][i] \in Conn
  BY NowFacts DEF Conns
<1>2. conn = Put(conn, h, i, conn[h][i])
  BY <1>1, PutConn
<1>3. Num(conn, net, app, lastport, u, gone, b, T)
  BY DEF Now
<1> QED
  BY <1>1, <1>2, <1>3, ClosedNum

LEMMA LastAckNum ==
  ASSUME NEW b, NEW T, NEW u, Now(b, T, u), NEW h \in Host, NEW i \in Slot, NEW s, NEW left,
         InputLastAck(h, i, s, left)
  PROVE  Then(b, T, u)
<1> DEFINE c0 == conn[h][i]
           c == Acked(c0, s)
<1>1. /\ Accepts(h, i, s, left, "LAST_ACK")
      /\ \/ Become(h, i, Closed(c), left, {}) /\ app' = ToldEnd(h, c, FALSE)
         \/ net' = left /\ UNCHANGED <<conn, app>>
  BY DEF InputLastAck
<1>2. Receives(h, i, s, left)
  BY <1>1 DEF Accepts
<1>3. c0 \in Conn /\ c0.st # "CLOSED" /\ left \subseteq net
  BY <1>2, InputFacts
<1>4. c \in Conn /\ c.port = c0.port
  BY <1>3, AckedFields
<1>5. Closed(c) \in Conn /\ Closed(c).st = "CLOSED"
  BY <1>4, ClosedTyped
<1> HIDE DEF c
<1>6. CASE Become(h, i, Closed(c), left, {}) /\ app' = ToldEnd(h, c, FALSE)
  BY <1>3, <1>4, <1>5, <1>6, ClosedNow DEF Become
<1>7. CASE net' = left /\ UNCHANGED <<conn, app>>
  BY <1>3, <1>7, DroppedNum
<1> QED
  BY <1>1, <1>6, <1>7

LEMMA ResetNum ==
  ASSUME NEW b, NEW T, NEW u, Now(b, T, u), NEW h \in Host, NEW i \in Slot, NEW s, NEW left,
         InputReset(h, i, s, left)
  PROVE  Then(b, T, u)
<1> DEFINE c == conn[h][i]
<1>1. /\ Receives(h, i, s, left)
      /\ Become(h, i, Closed(c), left, {}) /\ app' = ToldEnd(h, c, FALSE)
  BY DEF InputReset
<1>2. c \in Conn /\ c.st # "CLOSED" /\ left \subseteq net
  BY <1>1, InputFacts
<1>3. Closed(c) \in Conn /\ Closed(c).st = "CLOSED"
  BY <1>2, ClosedTyped
<1> QED
  BY <1>1, <1>2, <1>3, ClosedNow DEF Become

\* Sending for a connection that stays, perhaps once more.
LEMMA AgainNum ==
  ASSUME NEW b, NEW T, NEW u, Now(b, T, u), NEW h \in Host, NEW i \in Slot, conn[h][i].st # "CLOSED",
         NEW d \in Conn, d.st = conn[h][i].st, d.port = conn[h][i].port, d.p = conn[h][i].p,
         d.snd = conn[h][i].snd, d.rcv = conn[h][i].rcv, d.len = conn[h][i].len,
         NEW out, NEW left, left \subseteq net, Send(left, out),
         conn[h][i].st \in {"SYN_SENT", "SYN_RCVD"} => Greeting(h, d, out),
         conn[h][i].st \notin {"SYN_SENT", "SYN_RCVD"} =>
           Outgoing(h, d, app[h][conn[h][i].port], out),
         conn' = Put(conn, h, i, d), app' = app
  PROVE  Then(b, T, u)
<1> DEFINE q == conn[h][i].port
           e == app[h][q]
<1>1. Num(conn, net, app, lastport, u, gone, b, T)
  BY DEF Now
<1>2. app \in Apps /\ q \in Port /\ e \in Entry
  BY <1>1, ConnFacts, NowFacts
<1>3. Put(app, h, q, e) = app
  BY <1>2, PutEntry
<1>4. net' \subseteq net \cup out
  BY SendBounds
<1>5. CASE conn[h][i].st \in {"SYN_SENT", "SYN_RCVD"}
  <2>1. Num(Put(conn, h, i, d), net \cup out, app, lastport, u, gone, b, T)
    BY <1>1, <1>5, GreetingKeeps
  <2> QED BY <1>4, <2>1, Lands
<1>6. CASE conn[h][i].st \notin {"SYN_SENT", "SYN_RCVD"}
  <2>1. conn[h][i] \in Conn
    BY <1>1, ConnFacts
  <2>2. conn[h][i].st \in Synchronised
    BY <1>6, <2>1 DEF Synchronised, Handshake, Conn
  <2>3. /\ SendOK(h, conn[h][i], e, Base(b, h, q))
        /\ ~(conn[h][i].st = "ESTABLISHED") => e.phase \in Ended
    BY <1>1, <2>2, NotReading
  <2>4. SendOK(h, d, e, Base(b, h, d.port)) /\ (d.st # "ESTABLISHED" => e.phase \in Ended)
    BY <2>3 DEF SendOK, Counted
  <2>5. Num(Put(conn, h, i, d), net \cup out, Put(app, h, q, e), lastport, u, gone, b, T)
    BY <1>1, <1>2, <1>6, <2>2, <2>4, OutKeeps
  <2> QED BY <1>3, <1>4, <2>5, Lands
<1> QED
  BY <1>5, <1>6

LEMMA UnexpectedNum ==
  ASSUME NEW b, NEW T, NEW u, Now(b, T, u), NEW h \in Host, NEW i \in Slot, NEW s, NEW left,
         InputUnexpected(h, i, s, left)
  PROVE  Then(b, T, u)
<1> DEFINE c == conn[h][i]
<1>1. Receives(h, i, s, left) /\ Send(left, AckOf(h, c)) /\ conn' = conn /\ app' = app
  BY DEF InputUnexpected
<1>2. c \in Conn /\ c.st # "CLOSED" /\ left \subseteq net
  BY <1>1, InputFacts
<1>3. conn = Put(conn, h, i, c)
  BY <1>2, NowFacts, PutConn
<1>4. Greeting(h, c, AckOf(h, c)) /\ Outgoing(h, c, app[h][c.port], AckOf(h, c))
  BY DEF Greeting, Outgoing, AckOf
<1> QED
  BY <1>1, <1>2, <1>3, <1>4, AgainNum

LEMMA FinNum ==
  ASSUME NEW b, NEW T, NEW u, Now(b, T, u), NEW h \in Host, NEW i \in Slot, NEW s, NEW left,
         InputFin(h, i, s, left)
  PROVE  Then(b, T, u)
<1> DEFINE c0 == conn[h][i]
           q == c0.port
           acks == Acks(c0, s)
           c1 == Acked(c0, s)
           last == [c1 EXCEPT !.rcv = @ + 1, !.st = "LAST_ACK"]
           d == [c1 EXCEPT !.rcv = @ + 1, !.len = 1, !.st = "LAST_ACK", !.nrtx = 0]
           e0 == app[h][q]
           e1 == CountAck(e0, acks)
           e == IF c0.p THEN Ends(e0, acks) ELSE e0
           cn1 == Put(conn, h, i, c1)
           ap1 == Put(app, h, q, e1)
           cn2 == Put(conn, h, i, last)
           cn3 == Put(conn, h, i, d)
           ap2 == Put(app, h, q, e)
           out == {Segm(h, d, {"FIN", "ACK"}, 0)}
<1>1. /\ Accepts(h, i, s, left, "ESTABLISHED") /\ "FIN" \in s.flags
      /\ \/ net' = left /\ UNCHANGED <<conn, app>>
         \/ /\ c1.len = 0 \/ ~(c1.len > 0)
            /\ Become(h, i, d, left, out) /\ app' = ToldEnd(h, c1, acks)
  BY DEF InputFin
<1>2. /\ Receives(h, i, s, left) /\ Valid(s) /\ c0.st = "ESTABLISHED"
      /\ Size(s) = 1 /\ s.seq = c0.rcv
  <2>1. /\ Receives(h, i, s, left) /\ Valid(s) /\ c0.st = "ESTABLISHED"
        /\ Size(s) > 0 => s.seq = c0.rcv
        /\ Size(s) = 1
    BY <1>1, Arrives
  <2> QED BY <2>1
<1>3. /\ c0 \in Conn /\ q \in Port /\ e0 \in Entry /\ s \in net /\ s.to = h /\ s.port = q
      /\ left \subseteq net
  BY <1>2, InputFacts
<1>4. conn \in Conns /\ app \in Apps
  BY NowFacts
<1>s. c0.st \in Synchronised /\ "LAST_ACK" \in Synchronised
  BY <1>2 DEF Synchronised, Handshake, State, Transient
<1>5. acks \in BOOLEAN
  BY DEF Acks
<1>6. c1 \in Conn /\ c1.st = c0.st /\ c1.port = q /\ c1.p = c0.p /\ c1.rcv = c0.rcv
      /\ c1.rcv \in Nat
  BY <1>3, AckedFields DEF Conn
<1>7. e1 \in Entry /\ (~acks => e1 = e0) /\ e1.rcvd = e0.rcvd
  <2> HIDE DEF acks, e0
  <2> QED BY <1>3, <1>5, EntryForms
<1>8. /\ Ends(e0, acks) \in Entry /\ Ends(e0, acks).phase = "over"
      /\ Ends(e0, acks).acked = e1.acked /\ Ends(e0, acks).rcvd = e0.rcvd
  <2>1. e0 \in Entry /\ acks \in BOOLEAN
    BY <1>3, <1>5
  <2> HIDE DEF acks, e0
  <2> QED BY <2>1, EntryForms
<1>9. Num(cn1, net, ap1, lastport, u, gone, b, T) /\ (acks => c0.p)
  <2>1. Num(conn, net, app, lastport, u, gone, b, T)
    BY DEF Now
  <2> QED BY <1>2, <1>3, <1>5, <1>s, <2>1, AckStep
<1>10. ToldEnd(h, c1, acks) = ap2
  <2> HIDE DEF acks, c1
  <2>1. Put(app, h, q, e0) = app
    BY <1>3, <1>4, PutEntry
  <2>2. CASE c0.p
    BY <1>6, <2>2 DEF ToldEnd, Put
  <2>3. CASE ~c0.p
    BY <1>6, <2>1, <2>3 DEF ToldEnd
  <2> QED BY <2>2, <2>3
<1> HIDE DEF acks, c1, e1
<1>11. /\ last \in Conn /\ last.st = "LAST_ACK" /\ last.port = q /\ last.p = c0.p
       /\ last.snd = c1.snd /\ last.len = c1.len /\ last.rcv = c1.rcv + 1
  <2>1. c1.rcv + 1 \in Nat /\ "LAST_ACK" \in State
    BY <1>6 DEF State, Transient
  <2> QED BY <1>6, <2>1 DEF Conn
<1>12. /\ d \in Conn /\ d.st = "LAST_ACK" /\ d.port = q /\ d.p = c0.p
       /\ d.snd = c1.snd /\ d.len = 1 /\ d.rcv = c1.rcv + 1
  <2>1. d = [[last EXCEPT !.len = 1] EXCEPT !.nrtx = 0]
    BY <1>6 DEF Conn
  <2>2. 0 \in 0..MaxRtx
    BY SizeAssumption
  <2> HIDE DEF last, d
  <2> QED BY <1>11, <2>1, <2>2 DEF Conn
<1>13. cn1[h][i] = c1 /\ Put(cn1, h, i, last) = cn2 /\ cn2[h][i] = last
       /\ Put(cn2, h, i, d) = cn3
  BY <1>3, <1>4, <1>6, <1>11, PutConn
<1>14. e \in Entry /\ e.acked = e1.acked /\ e.rcvd = e1.rcvd /\ e.phase \in Ended
  <2>1. CASE c0.p
    BY <1>7, <1>8, <2>1 DEF Ended
  <2>2. CASE ~c0.p
    <3>1. e = e0 /\ e1 = e0
      BY <1>7, <1>9, <2>2
    <3>2. cn1[h][i].st \in Synchronised /\ ~cn1[h][i].p /\ cn1[h][i].port = q
      BY <1>6, <1>13, <1>s, <2>2
    <3>3. ap1[h][q].phase \in Ended
      BY <1>9, <3>2, NotReading
    <3>4. ap1[h][q] = e1
      BY <1>3, <1>4, <1>7, PutTwice
    <3> QED BY <1>3, <3>1, <3>3, <3>4
  <2> QED BY <2>1, <2>2
<1>15. ap1[h][q] = e1 /\ Put(ap1, h, q, e) = ap2 /\ ap2[h][q] = e /\ Put(ap2, h, q, e) = ap2
  <2>1. ap1[h][q] = e1 /\ Put(ap1, h, q, e) = ap2
    BY <1>3, <1>4, <1>7, PutTwice
  <2>2. ap2[h][q] = e /\ Put(ap2, h, q, e) = ap2
    <3> HIDE DEF e
    <3> QED BY <1>3, <1>4, <1>14, PutTwice
  <2> QED BY <2>1, <2>2
<1> HIDE DEF e, last, d, cn1, ap1, cn2, cn3, ap2
<1>16. CASE net' = left /\ UNCHANGED <<conn, app>>
  BY <1>3, <1>16, DroppedNum
<1>17. CASE /\ ~(c1.len > 0)
            /\ Become(h, i, d, left, out) /\ app' = ap2
  <2>0. c1.len = 0
    BY <1>6, <1>17, SizeAssumption DEF Conn
  <2>1. Receipt(c1, e1, s, last, e)
    BY <1>2, <1>3, <1>6, <1>11, <1>14, <1>s, <2>0 DEF Receipt
  <2>2. Num(cn2, net, ap2, lastport, u, gone, b, T)
    <3>1. Num(Put(cn1, h, i, last), net, Put(ap1, h, cn1[h][i].port, e),
              lastport, u, gone, b, T)
      BY <1>2, <1>3, <1>6, <1>9, <1>13, <1>15, <2>1, ReceiptKeeps
    <3> QED BY <1>6, <1>13, <1>15, <3>1
  <2>3. SendOK(h, d, e, Base(b, h, d.port))
    <3>1. SendOK(h, c1, e1, Base(b, h, q))
      BY <1>6, <1>9, <1>13, <1>15, <1>s, NotReading
    <3> QED BY <1>2, <1>6, <1>12, <1>14, <3>1 DEF SendOK, Counted
  <2>4. Outgoing(h, d, e, out)
    BY <1>12 DEF Outgoing
  <2>5. /\ cn2[h][i].st \in Synchronised /\ d.st \in Synchronised /\ d.st # "ESTABLISHED"
        /\ d.port = cn2[h][i].port /\ d.p = cn2[h][i].p
        /\ d.snd = cn2[h][i].snd /\ d.rcv = cn2[h][i].rcv /\ cn2[h][i].len = 0
        /\ e.acked = ap2[h][cn2[h][i].port].acked /\ e.rcvd = ap2[h][cn2[h][i].port].rcvd
    BY <1>11, <1>12, <1>13, <1>15, <1>s, <2>0
  <2>6. Num(Put(cn2, h, i, d), net \cup out, Put(ap2, h, cn2[h][i].port, e),
            lastport, u, gone, b, T)
    <3> HIDE DEF out
    <3> QED BY <1>12, <1>14, <2>2, <2>3, <2>4, <2>5, OutKeeps
  <2>7. Num(cn3, net \cup out, ap2, lastport, u, gone, b, T)
    BY <1>11, <1>13, <1>15, <2>6
  <2>8. conn' = cn3 /\ net' \subseteq net \cup out
    BY <1>3, <1>17 DEF Become, Send, Put, cn3
  <2> QED BY <1>17, <2>7, <2>8, Lands
<1>18. c1.len = 0 => ~(c1.len > 0)
  OBVIOUS
<1> QED
  BY <1>1, <1>10, <1>16, <1>17, <1>18

\* The client takes a SYN|ACK: from now on b has its number and T its port.
LEMMA SynSentNum ==
  ASSUME NEW b, NEW T, NEW u, Now(b, T, u), NEW h \in Host, NEW i \in Slot, NEW s, NEW left,
         InputSynSent(h, i, s, left)
  PROVE  \E b2 \in [Port -> Nat], T2 \in SUBSET Port : Then(b2, T2, u)
<1> DEFINE c0 == conn[h][i]
           q == c0.port
           c == Acked(c0, s)
           d == [c EXCEPT !.st = "ESTABLISHED", !.rcv = s.seq + 1]
<1>1. /\ Receives(h, i, s, left) /\ c0.st = "SYN_SENT"
      /\ \/ /\ Acks(c0, s) /\ s.flags = {"SYN", "ACK"}
            /\ AppSend(h, i, d, TRUE, ToldConnected(h, d, 0), left)
         \/ /\ Become(h, i, Closed(c), left, {Rst(h, s.port)})
            /\ app' = ToldEnd(h, c, FALSE)
  BY DEF InputSynSent, Accepts
<1>2. /\ c0 \in Conn /\ q \in Port /\ s \in net /\ s \in Segment /\ s.to = h /\ s.port = q
      /\ left \subseteq net
      /\ ConnNumbered(h, c0, app[h][q], lastport, u, gone, b, T)
  BY <1>1, InputFacts
<1>3. conn \in Conns /\ app \in Apps /\ b \in [Port -> Nat] /\ T \in SUBSET Port
  BY NowFacts
<1>4. c \in Conn /\ c.port = q /\ c.p = c0.p /\ c.rcv = c0.rcv
      /\ (Acks(c0, s) => c.snd = c0.snd + c0.len /\ c.len = 0)
  BY <1>2, AckedFields
<1>5. s.seq \in Nat
  BY <1>2, SizeFacts
<1> HIDE DEF c
<1>6. /\ d \in Conn /\ d.st = "ESTABLISHED" /\ d.port = q /\ d.p = c.p
      /\ d.snd = c.snd /\ d.rcv = s.seq + 1 /\ d.len = c.len
  <2>1. s.seq + 1 \in Nat /\ "ESTABLISHED" \in State
    BY <1>5 DEF State
  <2> QED BY <1>4, <2>1 DEF Conn
<1>7. CASE /\ Become(h, i, Closed(c), left, {Rst(h, s.port)})
           /\ app' = ToldEnd(h, c, FALSE)
  <2>1. Closed(c) \in Conn /\ Closed(c).st = "CLOSED"
    BY <1>4, SizeAssumption DEF Conn, Closed, Unused, State
  <2>2. conn' = [conn EXCEPT ![h][i] = Closed(c)] /\ Send(left, {Rst(h, q)})
    BY <1>2, <1>7 DEF Become
  <2>3. Then(b, T, u)
    <3>1. c0.st # "CLOSED"
      BY <1>1
    <3> QED BY <1>2, <1>4, <1>7, <2>1, <2>2, <3>1, ClosedNow
  <2> QED BY <1>3, <2>3
<1>8. CASE /\ Acks(c0, s) /\ s.flags = {"SYN", "ACK"}
           /\ AppSend(h, i, d, TRUE, ToldConnected(h, d, 0), left)
  <2>1. h = Client /\ c0.p
    BY <1>1, <1>2 DEF ConnNumbered, SynSentOK
  <2>2. ToldConnected(h, d, 0) = Put(app, h, q, Opened)
    BY <1>3, <1>4, <1>6, <2>1 DEF ToldConnected, Put, Opened, Got
  <2> DEFINE b2 == [b EXCEPT ![q] = s.seq]
             T2 == T \cup {q}
  <2>3. /\ b2 \in [Port -> Nat] /\ T2 \subseteq Port
        /\ Num(Put(conn, h, i, d), net, Put(app, h, q, Opened),
               lastport, u, gone, b2, T2)
    <3>1. Num(conn, net, app, lastport, u, gone, b, T)
      BY DEF Now
    <3>2. Taking(conn[Client][i], s, d, b, T, b2, T2)
      BY <1>1, <1>2, <1>4, <1>6, <1>8, <2>1 DEF Taking
    <3> HIDE DEF d, b2, T2
    <3>3. /\ b2 \in [Port -> Nat] /\ T2 \subseteq Port
          /\ Num(Put(conn, Client, i, d), net, Put(app, Client, conn[Client][i].port, Opened),
                 lastport, u, gone, b2, T2)
      BY <1>2, <3>1, <3>2, ConnectedKeeps
    <3> QED BY <2>1, <3>3
  <2> HIDE DEF d, b2, T2
  <2>4. Then(b2, T2, u)
    <3>1. /\ Num(Put(conn, h, i, d), net, ToldConnected(h, d, 0),
                 lastport, u, gone, b2, T2)
      BY <2>2, <2>3
    <3>2. Num(conn', net', app', lastport, u, gone, b2, T2)
      BY <1>2, <1>3, <1>6, <1>8, <3>1, AppSendKeeps
    <3> QED BY <3>2 DEF Then
  <2> QED BY <2>3, <2>4
<1> QED
  BY <1>1, <1>7, <1>8

\* uip_connected() on the server, with the data that the segment brings.
LEMMA SynRcvdNum ==
  ASSUME NEW b, NEW T, NEW u, Now(b, T, u), NEW h \in Host, NEW i \in Slot, NEW s, NEW left,
         InputSynRcvd(h, i, s, left)
  PROVE  Then(b, T, u)
<1> DEFINE c0 == conn[h][i]
           q == c0.port
           c == Acked(c0, s)
           d1 == Attached(h, [c EXCEPT !.st = "ESTABLISHED"])
           d == Attached(h, [c EXCEPT !.st = "ESTABLISHED", !.rcv = @ + Length(s)])
           e0 == app[h][q]
           e1 == IF d1.p THEN Opened ELSE e0
           e == IF d.p THEN [phase |-> "open", acked |-> 0, rcvd |-> Got(<<>>, s.data)] ELSE e0
           cn1 == Put(conn, h, i, d1)
           ap1 == Put(app, h, q, e1)
<1>1. /\ Accepts(h, i, s, left, "SYN_RCVD")
      /\ \/ /\ Acks(c0, s)
            /\ AppSend(h, i, d, s.data # 0, ToldConnected(h, d, s.data), left)
         \/ net' = left /\ UNCHANGED <<conn, app>>
  BY DEF InputSynRcvd
<1>2. /\ Receives(h, i, s, left) /\ Valid(s) /\ c0.st = "SYN_RCVD"
      /\ s.data \in Nat /\ Length(s) \in Nat
      /\ (s.data # 0 => "FIN" \notin s.flags /\ s.seq = c0.rcv)
  <2>1. /\ Receives(h, i, s, left) /\ Valid(s) /\ conn[h][i].st = "SYN_RCVD"
        /\ s.data \in Nat /\ Length(s) \in Nat
        /\ (s.data # 0 => "FIN" \notin s.flags /\ s.seq = conn[h][i].rcv)
    BY <1>1, Arrives
  <2> QED BY <2>1
<1>3. /\ c0 \in Conn /\ q \in Port /\ s \in net /\ s \in Segment /\ s.to = h /\ s.port = q
      /\ left \subseteq net /\ e0 \in Entry
      /\ ConnNumbered(h, c0, e0, lastport, u, gone, b, T)
  BY <1>2, InputFacts
<1>4. conn \in Conns /\ app \in Apps
  BY NowFacts
<1>5. c \in Conn /\ c.port = q /\ c.p = c0.p /\ c.rcv = c0.rcv /\ c.rcv \in Nat
      /\ (Acks(c0, s) => c.snd = c0.snd + c0.len /\ c.len = 0)
  BY <1>3, AckedFields DEF Conn
<1>6. CASE net' = left /\ UNCHANGED <<conn, app>>
  BY <1>3, <1>6, DroppedNum
<1>7. CASE /\ Acks(c0, s)
           /\ AppSend(h, i, d, s.data # 0, ToldConnected(h, d, s.data), left)
  <2>1. h = Server /\ (h \in gone => ~c0.p)
    BY <1>2, <1>3 DEF ConnNumbered, SynRcvdOK
  <2> HIDE DEF c
  <2> DEFINE f1 == [c EXCEPT !.st = "ESTABLISHED"]
             f2 == [c EXCEPT !.st = "ESTABLISHED", !.rcv = @ + Length(s)]
  <2>2. /\ f1 \in Conn /\ f1.st = "ESTABLISHED" /\ f1.port = q /\ f1.p = c.p /\ f1.snd = c.snd
        /\ f1.rcv = c.rcv /\ f1.len = c.len
        /\ f2 = [f1 EXCEPT !.rcv = @ + Length(s)]
    BY <1>5 DEF Conn, State
  <2>3. /\ f2 \in Conn /\ f2.st = "ESTABLISHED" /\ f2.port = q /\ f2.p = c.p
    <3>1. c.rcv + Length(s) \in Nat /\ "ESTABLISHED" \in State
      BY <1>2, <1>5 DEF State
    <3> QED BY <1>5, <3>1 DEF Conn
  <2> HIDE DEF f1, f2
  <2>4. /\ d1 \in Conn /\ d1.st = "ESTABLISHED" /\ d1.port = q /\ (d1.p <=> Server \notin gone)
        /\ d1.snd = c.snd /\ d1.rcv = c.rcv /\ d1.len = c.len
        /\ d = [d1 EXCEPT !.rcv = @ + Length(s)]
    <3>1. d1 = Attached(h, f1) /\ d = Attached(h, f2)
      BY DEF f1, f2
    <3> HIDE DEF d1, d
    <3>2. CASE Server \in gone
      <4>1. d1 = f1 /\ d = f2
        BY <3>1, <3>2 DEF Attached
      <4>2. ~f1.p
        BY <1>5, <2>1, <2>2, <3>2
      <4> QED BY <1>5, <2>2, <3>2, <4>1, <4>2
    <3>3. CASE Server \notin gone
      <4>1. d1 = [f1 EXCEPT !.p = TRUE] /\ d = [f2 EXCEPT !.p = TRUE]
        BY <2>1, <3>1, <3>3 DEF Attached
      <4> QED BY <1>5, <2>2, <3>3, <4>1 DEF Conn
    <3> QED BY <3>2, <3>3
  <2>5. d \in Conn /\ d.st = "ESTABLISHED" /\ d.port = q /\ (d.p <=> Server \notin gone)
    <3>1. d1.rcv + Length(s) \in Nat
      BY <1>2, <1>5, <2>4
    <3> HIDE DEF d1, d
    <3> QED BY <2>4, <3>1 DEF Conn
  <2> HIDE DEF d1, d
  <2>6. Num(cn1, net, ap1, lastport, u, gone, b, T)
    <3>1. Num(conn, net, app, lastport, u, gone, b, T)
      BY DEF Now
    <3>2. e1 = IF d1.p THEN Opened ELSE app[Server][conn[Server][i].port]
      BY <2>1
    <3>3. /\ conn[Server][i].st = "SYN_RCVD" /\ s.to = Server /\ s.port = conn[Server][i].port
          /\ Acks(conn[Server][i], s) /\ d1.port = conn[Server][i].port
          /\ d1.snd = conn[Server][i].snd + conn[Server][i].len /\ d1.rcv = conn[Server][i].rcv
          /\ d1.len = 0
      BY <1>2, <1>3, <1>5, <1>7, <2>1, <2>4
    <3> HIDE DEF e1
    <3>4. Num(Put(conn, Server, i, d1), net \cup {}, Put(app, Server, conn[Server][i].port, e1),
              lastport, u, gone, b, T)
      BY <1>2, <1>3, <2>4, <3>1, <3>2, <3>3, AcceptKeeps
    <3>5. net \cup {} = net
      OBVIOUS
    <3> QED BY <2>1, <3>4, <3>5
  <2>7. e1 \in Entry
    BY <1>3, OpenedFacts
  <2>8. cn1[h][i] = d1 /\ Put(cn1, h, i, d) = Put(conn, h, i, d)
    BY <1>4, <2>4, PutConn
  <2>9. ap1[h][q] = e1 /\ Put(ap1, h, q, e) = Put(app, h, q, e)
    BY <1>3, <1>4, <2>7, PutTwice
  <2>10. /\ e \in Entry /\ e.acked = e1.acked /\ e.phase = e1.phase
         /\ (s.data = 0 \/ ~d1.p => e = e1)
         /\ (s.data # 0 /\ d1.p => e.rcvd = Got(e1.rcvd, s.data))
    <3>1. CASE d.p
      <4>1. d1.p /\ e1 = Opened /\ e = [phase |-> "open", acked |-> 0, rcvd |-> Got(<<>>, s.data)]
        BY <2>4, <2>5, <3>1
      <4>2. Got(<<>>, s.data) \in Seq(Nat) /\ (s.data = 0 => Got(<<>>, s.data) = <<>>)
        BY <1>2 DEF Got
      <4> QED BY <4>1, <4>2, OpenedFacts DEF Opened, Entry, Phase
    <3>2. CASE ~d.p
      BY <1>3, <2>4, <2>5, <3>2
    <3> QED BY <3>1, <3>2
  <2>11. ToldConnected(h, d, s.data) = Put(app, h, q, e)
    <3>1. d.port \in Port /\ e = IF d.p THEN [phase |-> "open", acked |-> 0,
                                           rcvd |-> Got(<<>>, s.data)] ELSE app[h][d.port]
      BY <1>3, <2>5
    <3>2. ToldConnected(h, d, s.data) =
            Put(app, h, d.port, IF d.p THEN [phase |-> "open", acked |-> 0,
                                             rcvd |-> Got(<<>>, s.data)] ELSE app[h][d.port])
      BY <1>4, <3>1, ToldPut
    <3> HIDE DEF e
    <3> QED BY <2>5, <3>1, <3>2
  <2> HIDE DEF cn1, ap1, e1, e
  <2>12. Num(Put(conn, h, i, d), net, Put(app, h, q, e), lastport, u, gone, b, T)
    <3>1. /\ cn1[h][i].st = "ESTABLISHED" /\ s.port = cn1[h][i].port
          /\ s.data # 0 => "FIN" \notin s.flags /\ s.seq = cn1[h][i].rcv
          /\ d = [cn1[h][i] EXCEPT !.rcv = @ + Length(s)]
      BY <1>2, <1>3, <1>5, <2>4, <2>8
    <3>2. /\ e.acked = ap1[h][cn1[h][i].port].acked /\ e.phase = ap1[h][cn1[h][i].port].phase
          /\ (s.data = 0 \/ ~cn1[h][i].p => e = ap1[h][cn1[h][i].port])
          /\ (s.data # 0 /\ cn1[h][i].p => e.rcvd = Got(ap1[h][cn1[h][i].port].rcvd, s.data))
      BY <2>4, <2>8, <2>9, <2>10
    <3>3. Valid(s) /\ s \in net /\ s.to = h /\ e \in Entry
      BY <1>2, <1>3, <2>10
    <3>4. q = cn1[h][i].port
      BY <2>4, <2>8
    <3> HIDE DEF q, c0, e0
    <3>5. Num(Put(cn1, h, i, d), net, Put(ap1, h, cn1[h][i].port, e),
              lastport, u, gone, b, T)
      <4>1. TakesData(cn1, net, ap1, h, i, s, d, e)
        BY <3>1, <3>2, <3>3, Zenon DEF TakesData
      <4> QED BY <2>6, <3>3, <4>1, TakeData, Zenon
    <3> QED BY <2>8, <2>9, <3>4, <3>5
  <2>13. Num(conn', net', app', lastport, u, gone, b, T)
    BY <1>3, <1>4, <1>7, <2>5, <2>11, <2>12, AppSendKeeps
  <2> QED BY <2>13 DEF Then
<1> QED
  BY <1>1, <1>6, <1>7

--------------------------------------------------------------------------------
(* The periodic timer, polls, requests and exits.                               *)

LEMMA WaitNum ==
  ASSUME NEW b, NEW T, NEW u, Now(b, T, u), NEW h \in Host, NEW i \in Slot, WaitIsOver(h, i)
  PROVE  Then(b, T, u)
<1> DEFINE c == conn[h][i]
           d == Closed(c)
<1>1. c.st # "CLOSED" /\ conn' = [conn EXCEPT ![h][i] = Closed(@)] /\ net' = net /\ app' = app
  BY DEF WaitIsOver
<1>2. c \in Conn /\ conn \in Conns
  BY NowFacts DEF Conns
<1>3. d \in Conn /\ d.st = "CLOSED"
  BY <1>2, SizeAssumption DEF Conn, Closed, Unused, State
<1>4. conn' = [conn EXCEPT ![h][i] = d]
  BY <1>1, <1>2 DEF Conns
<1>5. ASSUME NEW out, out = {} PROVE Then(b, T, u)
  <2> HIDE DEF d
  <2>1. conn[h][i].st # "CLOSED" /\ conn[h][i].port = conn[h][i].port
    BY <1>1
  <2>2. net \subseteq net /\ (net' = net \/ Send(net, out)) /\ (app' = app \/ app' = ToldEnd(h, c, FALSE))
    BY <1>1
  <2> QED BY <1>3, <1>4, <1>5, <2>1, <2>2, ClosedNow
<1> QED
  BY <1>5

LEMMA RetransmitNum ==
  ASSUME NEW b, NEW T, NEW u, Now(b, T, u), NEW h \in Host, NEW i \in Slot, Retransmit(h, i)
  PROVE  Then(b, T, u)
<1> DEFINE c == conn[h][i]
           out == Again(h, c)
           d == [c EXCEPT !.nrtx = @ + 1]
<1>1. /\ c.st \notin {"CLOSED", "TIME_WAIT", "FIN_WAIT_2"} /\ c.len > 0
      /\ \/ /\ Become(h, i, Closed(c), net, {Rst(h, c.port)})
            /\ app' = ToldEnd(h, c, FALSE)
         \/ /\ ~GivesUp(c) /\ Become(h, i, d, net, out)
            /\ app' = app
  BY DEF Retransmit
<1>2. c \in Conn /\ conn \in Conns
  BY NowFacts DEF Conns
<1>3. CASE /\ Become(h, i, Closed(c), net, {Rst(h, c.port)})
           /\ app' = ToldEnd(h, c, FALSE)
  <2>1. Closed(c) \in Conn /\ Closed(c).st = "CLOSED"
    BY <1>2, SizeAssumption DEF Conn, Closed, Unused, State
  <2>2. conn' = [conn EXCEPT ![h][i] = Closed(c)] /\ Send(net, {Rst(h, c.port)})
    BY <1>3 DEF Become
  <2> QED BY <1>1, <1>3, <2>1, <2>2, ClosedNow
<1>4. CASE ~GivesUp(c) /\ Become(h, i, d, net, out) /\ app' = app
  <2>1. c.nrtx + 1 \in 0..MaxRtx
    BY <1>2, <1>4, SizeAssumption DEF GivesUp, Conn
  <2>2. /\ d \in Conn /\ d.st = c.st /\ d.port = c.port /\ d.p = c.p /\ d.snd = c.snd
        /\ d.rcv = c.rcv /\ d.len = c.len
    BY <1>2, <2>1 DEF Conn
  <2>3. \A flags, data : Segm(h, c, flags, data) = Segm(h, d, flags, data)
    <3> HIDE DEF d
    <3> QED BY <2>2 DEF Segm
  <2>4. Syn(h, c) = Syn(h, d)
    BY <2>3 DEF Syn
  <2>5. c.st \in {"SYN_SENT", "SYN_RCVD"} => Greeting(h, d, out)
    <3> HIDE DEF d
    <3>1. CASE c.st = "SYN_SENT"
      <4>1. out = {Syn(h, c)}
        BY <3>1 DEF Again
      <4> QED BY <2>2, <2>4, <3>1, <4>1 DEF Greeting
    <3>2. CASE c.st = "SYN_RCVD"
      <4>1. out = {Segm(h, c, {"SYN", "ACK"}, 0)}
        BY <3>2 DEF Again
      <4> QED BY <2>2, <2>3, <3>2, <4>1 DEF Greeting
    <3> QED BY <3>1, <3>2
  <2>6. c.st \notin {"SYN_SENT", "SYN_RCVD"} => Outgoing(h, d, app[h][c.port], out)
    <3> HIDE DEF d
    <3>1. CASE c.st = "ESTABLISHED"
      <4>1. out = {} \/ out = {Segm(h, c, {"ACK"}, app[h][c.port].acked + 1)}
        BY <3>1 DEF Again
      <4> QED BY <1>1, <2>2, <2>3, <3>1, <4>1 DEF Outgoing
    <3>2. CASE c.st \notin {"SYN_SENT", "SYN_RCVD", "ESTABLISHED"}
      <4>1. out = {Segm(h, c, {"FIN", "ACK"}, 0)}
        BY <3>2 DEF Again
      <4> QED BY <1>1, <2>2, <2>3, <3>2, <4>1 DEF Outgoing
    <3> QED BY <3>1, <3>2
  <2>7. conn' = Put(conn, h, i, d) /\ Send(net, out)
    BY <1>4 DEF Become, Put
  <2> HIDE DEF d, out
  <2>8. c.st # "CLOSED" /\ net \subseteq net
    BY <1>1
  <2> QED BY <1>4, <2>2, <2>5, <2>6, <2>7, <2>8, AgainNum
<1> QED
  BY <1>1, <1>3, <1>4

\* A poll gives the program the chance to send, and changes nothing else.
LEMMA PolledNum ==
  ASSUME NEW b, NEW T, NEW u, Now(b, T, u), NEW h \in Host, NEW i \in Slot, conn[h][i].st = "ESTABLISHED",
         AppSend(h, i, conn[h][i], FALSE, app, net)
  PROVE  Then(b, T, u)
<1> DEFINE c == conn[h][i]
<1>1. c \in Conn /\ conn \in Conns
  BY NowFacts DEF Conns
<1>2. conn = Put(conn, h, i, c)
  BY <1>1, PutConn
<1>3. Num(conn, net, app, lastport, u, gone, b, T)
  BY DEF Now
<1>4. c.st = "ESTABLISHED" /\ AppSend(h, i, c, FALSE, app, net)
  OBVIOUS
<1> HIDE DEF c
<1>5. Num(conn', net', app', lastport, u, gone, b, T)
  BY <1>1, <1>2, <1>3, <1>4, AppSendKeeps
<1> QED
  BY <1>5 DEF Then

LEMMA PollNum ==
  ASSUME NEW b, NEW T, NEW u, Now(b, T, u),
         \/ \E i \in Slot : PollEvent(i)
         \/ \E h \in Host, i \in Slot : PeriodicPoll(h, i)
         \/ \E h \in Host : PeriodicEnds(h)
  PROVE  Then(b, T, u)
<1>1. ASSUME NEW i \in Slot, PollEvent(i) PROVE Then(b, T, u)
  <2>1. \/ /\ conn[Client][i].st = "ESTABLISHED"
           /\ AppSend(Client, i, conn[Client][i], FALSE, app, net)
        \/ conn' = conn /\ net' = net /\ app' = app
    BY <1>1 DEF PollEvent
  <2>2. Client \in Host
    BY HostFacts
  <2> QED BY <2>1, <2>2, PolledNum, DroppedNum
<1>2. ASSUME NEW h \in Host, NEW i \in Slot, PeriodicPoll(h, i) PROVE Then(b, T, u)
  <2>1. conn[h][i].st = "ESTABLISHED" /\ AppSend(h, i, conn[h][i], FALSE, app, net)
    BY <1>2 DEF PeriodicPoll
  <2> QED BY <2>1, PolledNum
<1>3. ASSUME NEW h \in Host, PeriodicEnds(h) PROVE Then(b, T, u)
  <2>1. conn' = conn /\ net' = net /\ app' = app
    BY <1>3 DEF PeriodicEnds
  <2> QED BY <2>1, DroppedNum
<1> QED
  BY <1>1, <1>2, <1>3

LEMMA InputNum ==
  ASSUME NEW b, NEW T, NEW u, Now(b, T, u), NEW h \in Host, Input(h)
  PROVE  \E b2 \in [Port -> Nat], T2 \in SUBSET Port : Then(b2, T2, u)
<1>1. PICK i \in Slot, s \in net : \E left \in Left(s) :
        \/ InputReset(h, i, s, left)      \/ InputUnexpected(h, i, s, left)
        \/ InputSynRcvd(h, i, s, left)    \/ InputSynSent(h, i, s, left)
        \/ InputEstablished(h, i, s, left) \/ InputFin(h, i, s, left)
        \/ InputLastAck(h, i, s, left)    \/ InputFinWait1(h, i, s, left)
        \/ InputFinWait2(h, i, s, left)   \/ InputTimeWait(h, i, s, left)
        \/ InputClosing(h, i, s, left)
  BY DEF Input
<1>2. PICK left \in Left(s) :
        \/ InputReset(h, i, s, left)      \/ InputUnexpected(h, i, s, left)
        \/ InputSynRcvd(h, i, s, left)    \/ InputSynSent(h, i, s, left)
        \/ InputEstablished(h, i, s, left) \/ InputFin(h, i, s, left)
        \/ InputLastAck(h, i, s, left)    \/ InputFinWait1(h, i, s, left)
        \/ InputFinWait2(h, i, s, left)   \/ InputTimeWait(h, i, s, left)
        \/ InputClosing(h, i, s, left)
  BY <1>1
<1>3. b \in [Port -> Nat] /\ T \in SUBSET Port
  BY NowFacts
<1>4. CASE InputSynSent(h, i, s, left)
  BY <1>4, SynSentNum
<1>5. CASE ~InputSynSent(h, i, s, left)
  <2>1. Then(b, T, u)
    BY <1>2, <1>5, ResetNum, UnexpectedNum, SynRcvdNum, EstablishedNum, FinNum, LastAckNum,
       FinWait1Num, FinWait2Num, TimeWaitNum
  <2> QED BY <1>3, <2>1
<1> QED
  BY <1>4, <1>5

\* The invariant for the next state, with the numbers that its actions change.
Later(b, T, u) == Num(conn', net', app', lastport', u, gone', b, T)

LEMMA ConnectNum ==
  ASSUME NEW b, NEW T, NEW u, Now(b, T, u), Typed, tcp_connect
  PROVE  Later(b, T, u)
<1> DEFINE q == lastport + 1
           d == [st |-> "SYN_SENT", port |-> q, snd |-> ClientIss[q], rcv |-> 0,
                 len |-> 1, nrtx |-> 0, p |-> TRUE]
           e0 == app[Client][q]
           e == [e0 EXCEPT !.phase = "open"]
<1>1. PICK i \in Free(Client) :
        conn' = [conn EXCEPT ![Client][i] =
                   [st |-> "SYN_SENT", port |-> lastport', snd |-> ClientIss[lastport'], rcv |-> 0,
                    len |-> 1, nrtx |-> 0, p |-> TRUE]]
  BY DEF tcp_connect
<1>2. i \in Slot
  BY <1>1 DEF Free
<1>3. /\ lastport < MaxPort /\ Client \notin gone /\ lastport' = q
      /\ app' = [app EXCEPT ![Client][q].phase = "open"]
      /\ net' = net /\ gone' = gone
  BY DEF tcp_connect
<1>4. /\ conn \in Conns /\ app \in Apps /\ lastport \in 0..MaxPort
  BY NowFacts DEF Typed
<1>h. Client \in Host /\ Server \in Host /\ Client # Server
  BY HostFacts, HostAssumption
<1>5. q \in Port /\ MaxPort \in Nat
  BY <1>3, <1>4, SizeAssumption DEF Port
<1>7. d \in Conn /\ conn' = Put(conn, Client, i, d)
  <2>1. ClientIss[q] \in Nat /\ 0 \in 0..MaxRtx
    BY <1>5, ClientIssNat, SizeAssumption
  <2> QED BY <1>1, <1>3, <1>5, <2>1 DEF Conn, State, Transient, Put
<1>8. /\ e0 \in Entry /\ e \in Entry /\ e.acked = e0.acked /\ e.rcvd = e0.rcvd
      /\ app' = Put(app, Client, q, e)
  <2>1. e0 \in Entry
    BY <1>4, <1>5, <1>h DEF Apps, Entry
  <2>2. app' = Put(app, Client, q, e)
    BY <1>3, <1>4, <1>5, <1>h DEF Apps, Put
  <2> QED BY <2>1, <2>2 DEF Entry, Phase
<1>9. Num(conn, net, app, lastport, u, gone, b, T)
  BY DEF Now
<1>10. d.st = "SYN_SENT" /\ d.port = q /\ d.p /\ d.snd = ClientIss[q] /\ d.rcv = 0 /\ d.len = 1
  OBVIOUS
<1> HIDE DEF d, e
<1>11. Num(Put(conn, Client, i, d), net \cup {}, Put(app, Client, q, e), q, u, gone, b, T)
  BY <1>2, <1>3, <1>5, <1>7, <1>8, <1>9, <1>10, OpenKeeps
<1>12. net \cup {} = net
  OBVIOUS
<1> QED
  BY <1>3, <1>7, <1>8, <1>11, <1>12 DEF Later

\* A segment of no connection: a SYN begins one, and makes its number one that was used.
LEMMA UnknownNum ==
  ASSUME NEW b, NEW T, NEW u, Now(b, T, u), Within(u), Typed, apart',
         NEW h \in Host, NEW s \in net, NEW left \in Left(s), InputUnknown(h, s, left)
  PROVE  \E u2 \in [Port -> SUBSET Nat] : Later(b, T, u2) /\ Within(u2)'
<1>1. /\ s.to = h /\ left \subseteq net
      /\ \A i \in Slot : conn[h][i].st = "CLOSED" \/ conn[h][i].port # s.port
      /\ lastport' = lastport /\ gone' = gone /\ app' = app
  BY DEF InputUnknown, Left
<1>2. /\ conn \in Conns /\ app \in Apps /\ net \subseteq Segment /\ NumbersOK
  BY NowFacts DEF Typed
<1>h. Client \in Host /\ Server \in Host /\ Client # Server
  BY HostFacts, HostAssumption
<1>3. Num(conn, net, app, lastport, u, gone, b, T)
  BY DEF Now
<1>u. Issues(u) /\ u \in [Port -> SUBSET Nat]
  BY <1>3 DEF Num, NumTyped, Issues
<1>4. s \in Segment /\ s.port \in Port /\ s.port <= lastport
  BY <1>1, <1>3, SegFacts
\* Nothing begins.
<1>5. ASSUME conn' = conn, numbers' = numbers, NEW out \in SUBSET {Rst(h, s.port)},
             net' \subseteq net \cup out
      PROVE  \E u2 \in [Port -> SUBSET Nat] : Later(b, T, u2) /\ Within(u2)'
  <2>1. Num(conn, net \cup {Rst(h, s.port)}, app, lastport, u, gone, b, T)
    BY <1>3, <1>4, RstKeeps
  <2>2. net' \subseteq net \cup {Rst(h, s.port)}
    BY <1>5
  <2>3. Num(conn, net', app, lastport, u, gone, b, T)
    BY <2>1, <2>2, LossKeeps
  <2>4. Later(b, T, u)
    BY <1>1, <1>5, <2>3 DEF Later
  <2>5. Within(u)'
    BY <1>5 DEF Within, numbers
  <2> QED BY <1>u, <2>4, <2>5
<1>6. CASE ~(s.flags = {"SYN"} /\ h = Server /\ Server \notin gone)
  <2>1. /\ Send(left, IF "RST" \in s.flags THEN {} ELSE {Rst(h, s.port)})
        /\ conn' = conn /\ numbers' = numbers
    BY <1>6 DEF InputUnknown
  <2>2. net' \subseteq net \cup {Rst(h, s.port)}
    BY <1>1, <2>1 DEF Send
  <2> QED BY <1>5, <2>1, <2>2
<1>7. CASE s.flags = {"SYN"} /\ h = Server /\ Server \notin gone /\ Free(h) = {}
  <2>1. net' = left /\ conn' = conn /\ numbers' = numbers
    BY <1>7 DEF InputUnknown
  <2>2. net' \subseteq net \cup {} /\ {} \in SUBSET {Rst(h, s.port)}
    BY <1>1, <2>1
  <2> QED BY <1>5, <2>1, <2>2
<1>8. CASE s.flags = {"SYN"} /\ h = Server /\ Server \notin gone /\ Free(h) # {}
  <2>1. PICK i \in Free(h), t \in Turns :
          LET c == [st |-> "SYN_RCVD", port |-> s.port, snd |-> iss + t, rcv |-> s.seq + 1,
                    len |-> 1, nrtx |-> 0, p |-> conn[h][i].p]
          IN /\ conn' = [conn EXCEPT ![h][i] = c]
             /\ Begins(s.port, iss + t)
             /\ Send(left, {Segm(h, c, {"SYN", "ACK"}, 0)})
    BY <1>8 DEF InputUnknown
  <2>n. PICK n \in Nat : n = iss + t
    BY <1>2, NumberAssumption DEF NumbersOK
  <2>w. PICK w \in Nat : w = DataLen * ToSend[Server]
    BY <1>h, SizeAssumption
  <2> DEFINE q == s.port
             d == [st |-> "SYN_RCVD", port |-> s.port, snd |-> n, rcv |-> s.seq + 1,
                   len |-> 1, nrtx |-> 0, p |-> conn[h][i].p]
             out == {Segm(h, d, {"SYN", "ACK"}, 0)}
             cn == Put(conn, Server, i, d)
             u2 == [u EXCEPT ![q] = @ \cup {n}]
  <2>2. /\ conn' = cn /\ Send(left, out)
        /\ reach[q] <= n /\ reach' = [reach EXCEPT ![q] = n + w + 2]
    BY <1>8, <2>1, <2>n, <2>w DEF Put, Begins
  <2>3. i \in Slot
    BY <2>1 DEF Free
  <2>4. d \in Conn
    <3>1. s.seq + 1 \in Nat /\ 0 \in 0..MaxRtx /\ conn[h][i].p \in BOOLEAN
      BY <1>2, <1>4, <2>3, SizeAssumption DEF Segment, Conns, Conn
    <3> QED BY <1>4, <3>1 DEF Conn, State, Transient
  <2>5. /\ d.st = "SYN_RCVD" /\ d.port = q /\ d.snd = n /\ d.rcv = s.seq + 1 /\ d.len = 1
    OBVIOUS
  <2> HIDE DEF d, q
  <2>q. q \in Port /\ q = s.port
    BY <1>4 DEF q
  \* Its number is beyond those that the connections on this port used.
  <2>6. /\ u2 \in [Port -> SUBSET Nat] /\ u2[q] = u[q] \cup {n}
        /\ \A r \in Port : r # q => u2[r] = u[r]
    BY <1>u, <2>q
  <2>7. \A y \in u[q] : y \in Nat /\ y + w + 2 <= n
    <3> SUFFICES ASSUME NEW y \in u[q] PROVE y \in Nat /\ y + w + 2 <= n
      OBVIOUS
    <3>1. y \in Nat /\ y + (w + 2) <= reach[q] /\ reach[q] \in Nat
      BY <1>2, <1>u, <2>q, <2>w DEF Within, Span, NumbersOK
    <3> QED BY <2>2, <3>1
  <2>8. Issues(u2)
    <3> SUFFICES ASSUME NEW r \in Port, NEW y \in u2[r], NEW z \in u2[r], y < z
                 PROVE  y + (w + 2) <= z
      BY <2>6, <2>w DEF Issues, Spaced, Span
    <3>1. CASE r # q
      BY <1>u, <2>6, <2>w, <3>1 DEF Issues, Spaced, Span
    <3>2. CASE r = q /\ y \in u[q] /\ z \in u[q]
      BY <1>u, <2>q, <2>w, <3>2 DEF Issues, Spaced, Span
    <3>3. CASE r = q /\ y \in u[q] /\ z = n
      BY <2>7, <3>3
    <3>4. CASE r = q /\ y = n
      BY <2>6, <2>7, <3>4
    <3> QED BY <2>6, <3>1, <3>2, <3>3, <3>4
  <2>9. Within(u2)'
    <3> SUFFICES ASSUME NEW r \in Port, NEW y \in u2[r] PROVE y + (w + 2) <= reach'[r]
      BY <2>w DEF Within, Span
    <3>1. CASE r # q
      BY <1>2, <2>2, <2>6, <2>w, <3>1 DEF Within, Span, NumbersOK
    <3>2. CASE r = q
      <4>1. reach'[q] = n + w + 2
        BY <1>2, <2>2, <2>q DEF NumbersOK
      <4>2. y = n \/ (y \in Nat /\ y + w + 2 <= n)
        BY <2>6, <2>7, <3>2
      <4> QED BY <3>2, <4>1, <4>2
    <3> QED BY <3>1, <3>2
  <2>10. Grown(u, u2) /\ n \in u2[q] /\ \A y \in u[q] : y < n
    BY <2>6, <2>7 DEF Grown
  <2> HIDE DEF u2
  <2>11. Num(cn, net, app, lastport, u2, gone, b, T)
    BY <1>1, <1>3, <1>8, <2>3, <2>4, <2>5, <2>q, <2>8, <2>10, ListenKeeps
  <2>12. cn[Server][i] = d /\ Put(cn, Server, i, d) = cn
    BY <1>2, <1>h, <2>3, <2>4, PutConn
  <2>13. Greeting(Server, d, out)
    BY <1>8, <2>5 DEF Greeting
  <2>14. Num(cn, net \cup out, app, lastport, u2, gone, b, T)
    <3>1. /\ cn[Server][i].st \in {"SYN_SENT", "SYN_RCVD"} /\ d.st = cn[Server][i].st
          /\ d.port = cn[Server][i].port /\ d.p = cn[Server][i].p /\ d.snd = cn[Server][i].snd
          /\ d.rcv = cn[Server][i].rcv /\ d.len = cn[Server][i].len
      BY <2>5, <2>12
    <3> HIDE DEF out, cn
    <3>2. Num(Put(cn, Server, i, d), net \cup out, app, lastport, u2, gone, b, T)
      BY <1>h, <2>3, <2>4, <2>11, <2>13, <3>1, GreetingKeeps
    <3> QED BY <2>12, <3>2
  <2> HIDE DEF cn, out
  <2>15. net' \subseteq net \cup out
    BY <1>1, <2>2, SendBounds
  <2>16. Num(cn, net', app, lastport, u2, gone, b, T)
    BY <2>14, <2>15, LossKeeps
  <2>17. Later(b, T, u2)
    BY <1>1, <2>2, <2>16 DEF Later
  <2> QED BY <2>6, <2>9, <2>17
<1> QED
  BY <1>6, <1>7, <1>8

LEMMA ExitNum ==
  ASSUME NEW b, NEW T, NEW u, Now(b, T, u), NEW h \in Host, ProcessExits(h)
  PROVE  Num(conn', net, app', lastport, u, gone', b, T)
<1>1. /\ gone' = gone \cup {h}
      /\ conn' = [conn EXCEPT ![h] = [i \in Slot |-> IF @[i].p THEN Unused(FALSE) ELSE @[i]]]
      /\ app' = [app EXCEPT ![h] = [q \in Port |-> [@[q] EXCEPT !.phase = "over"]]]
  BY DEF ProcessExits
<1>2. conn \in Conns /\ app \in Apps
  BY NowFacts
<1>3. Unused(FALSE) \in Conn /\ Unused(FALSE).st = "CLOSED"
  BY SizeAssumption DEF Unused, Conn, State, Transient
<1>4. \A k \in Host, j \in Slot :
        conn'[k][j] = IF k = h /\ conn[h][j].p THEN Unused(FALSE) ELSE conn[k][j]
  BY <1>1, <1>2 DEF Conns
<1>5. conn' \in Conns
  <2> DEFINE row == [i \in Slot |-> IF conn[h][i].p THEN Unused(FALSE) ELSE conn[h][i]]
  <2>1. row \in [Slot -> Conn]
    BY <1>2, <1>3 DEF Conns
  <2>2. conn' = [conn EXCEPT ![h] = row]
    BY <1>1, <1>2 DEF Conns
  <2> HIDE DEF row
  <2> QED BY <1>2, <2>1, <2>2 DEF Conns
<1>6. \A q \in Port :
        LET e == [app[h][q] EXCEPT !.phase = "over"]
        IN /\ e \in Entry /\ e.phase = "over" /\ e.acked = app[h][q].acked
           /\ e.rcvd = app[h][q].rcvd
  <2>1. \A q \in Port : app[h][q] \in Entry
    BY <1>2 DEF Apps, Entry
  <2>2. "over" \in Phase
    BY DEF Phase
  <2> QED BY <2>1, <2>2, EntryFields
<1>7. /\ \A k \in Host, q \in Port : k # h => app'[k][q] = app[k][q]
      /\ \A q \in Port : app'[h][q] = [app[h][q] EXCEPT !.phase = "over"]
  BY <1>1, <1>2 DEF Apps
<1>8. app' \in Apps
  <2> DEFINE row == [q \in Port |-> [app[h][q] EXCEPT !.phase = "over"]]
  <2>1. row \in [Port -> Entry]
    BY <1>6
  <2>2. app' = [app EXCEPT ![h] = row]
    BY <1>1, <1>2 DEF Apps
  <2> HIDE DEF row
  <2> QED BY <1>2, <2>1, <2>2 DEF Apps, Entry
<1>9. Num(conn, net, app, lastport, u, gone, b, T)
  BY DEF Now
<1>10. \A k \in Host, j \in Slot : conn'[k][j] = conn[k][j] \/ (k = h /\ conn'[k][j].st = "CLOSED")
  BY <1>3, <1>4
<1>11. \A j \in Slot : conn'[h][j].st # "CLOSED" => ~conn'[h][j].p
  BY <1>3, <1>4
<1>12. \A k \in Host, q \in Port :
         /\ app'[k][q].acked = app[k][q].acked /\ app'[k][q].rcvd = app[k][q].rcvd
         /\ IF k = h THEN app'[k][q].phase = "over" ELSE app'[k][q] = app[k][q]
  <2>1. ASSUME NEW q \in Port
        PROVE  /\ app'[h][q].acked = app[h][q].acked /\ app'[h][q].rcvd = app[h][q].rcvd
               /\ app'[h][q].phase = "over"
    BY <1>6, <1>7
  <2> QED BY <1>7, <2>1
<1>13. ASSUME NEW cn2, cn2 = conn', NEW ap2, ap2 = app', NEW g2, g2 = gone'
       PROVE  Num(cn2, net, ap2, lastport, u, g2, b, T)
  <2>1. cn2 \in Conns /\ ap2 \in Apps /\ g2 = gone \cup {h}
    BY <1>1, <1>5, <1>8, <1>13
  <2>2. \A k \in Host, j \in Slot : cn2[k][j] = conn[k][j] \/ (k = h /\ cn2[k][j].st = "CLOSED")
    BY <1>10, <1>13
  <2>3. \A j \in Slot : cn2[h][j].st # "CLOSED" => ~cn2[h][j].p
    BY <1>11, <1>13
  <2>4. \A k \in Host, q \in Port :
          /\ ap2[k][q].acked = app[k][q].acked /\ ap2[k][q].rcvd = app[k][q].rcvd
          /\ IF k = h THEN ap2[k][q].phase = "over" ELSE ap2[k][q] = app[k][q]
    BY <1>12, <1>13
  <2> QED BY <1>9, <2>1, <2>2, <2>3, <2>4, ExitKeeps
<1> QED
  BY <1>13

--------------------------------------------------------------------------------
(* The theorems.                                                                *)

LEMMA InitNumbered == Init => Numbered
<1> SUFFICES ASSUME Init PROVE Numbered
  OBVIOUS
<1> DEFINE b == [q \in Port |-> 0]
           u == [q \in Port |-> {}]
<1>h. Client \in Host /\ Server \in Host /\ Client # Server /\ \A h \in Host : Peer(h) \in Host
  BY HostFacts, HostAssumption, PeerFacts
<1>1. /\ lastport = 0 /\ net = {} /\ gone = {}
      /\ conn = [h \in Host |-> [i \in Slot |-> Unused(FALSE)]]
      /\ app = [h \in Host |-> [q \in Port |-> [phase |-> "unused", acked |-> 0, rcvd |-> <<>>]]]
  BY DEF Init
<1>2. Unused(FALSE) \in Conn /\ Unused(FALSE).st = "CLOSED"
  BY SizeAssumption DEF Unused, Conn, State, Transient
<1>3. \A h \in Host, i \in Slot : conn[h][i].st = "CLOSED"
  BY <1>1, <1>2
<1>4. \A h \in Host, q \in Port : app[h][q].acked = 0 /\ app[h][q].rcvd = <<>>
  BY <1>1
<1>5. u \in [Port -> SUBSET Nat] /\ Issues(u) /\ Within(u)
  BY DEF Issues, Spaced, Within
<1>7. NumTyped(conn, net, app, lastport, u, gone, b, {})
  <2>1. app \in Apps
    BY InitSafe DEF Safe, Typed
  <2>2. conn \in [Host -> [Slot -> Conn]] /\ b \in [Port -> Nat] /\ 0 \in 0..MaxPort
    <3>1. conn \in [Host -> [Slot -> Conn]] /\ lastport \in 0..MaxPort
      BY InitSafe DEF Safe, Typed
    <3>2. b \in [Port -> Nat]
      OBVIOUS
    <3> QED BY <1>1, <3>1, <3>2
  <2> QED BY <1>1, <1>5, <2>1, <2>2 DEF NumTyped
<1>8. \A h \in Host, i \in Slot : conn[h][i].st \notin Synchronised /\ conn[h][i].st # "SYN_RCVD"
  BY <1>3 DEF Synchronised, Handshake
<1>9. Streams(app, gone)
  <2>1. \A h \in Host : ToSend[h] \in Nat
    BY SizeAssumption
  <2>2. ASSUME NEW h \in Host, NEW q \in Port
        PROVE  StreamOK(h, app[h][q]) /\ Delivered(app[h][q], app[Peer(h)][q])
    <3>1. /\ app[h][q].acked = 0 /\ app[h][q].rcvd = <<>> /\ app[Peer(h)][q].rcvd = <<>>
          /\ ToSend[h] \in Nat /\ ToSend[Peer(h)] \in Nat
      BY <1>4, <1>h, <2>1
    <3>2. Len(<<>>) = 0 /\ DOMAIN <<>> = {}
      OBVIOUS
    <3>3. StreamOK(h, app[h][q])
      BY <3>1, <3>2 DEF StreamOK
    <3>4. Delivered(app[h][q], app[Peer(h)][q])
      BY <3>1, <3>2 DEF Delivered
    <3> QED BY <3>3, <3>4
  <2> QED BY <1>1, <2>2 DEF Streams
<1> HIDE DEF b, u
<1>10. Num(conn, net, app, lastport, u, gone, b, {})
  <2>1. Taken(lastport, u, b, {}) /\ SegsNumbered(net, app, lastport, u, b, {})
        /\ AllOwn(conn, net)
    BY <1>1 DEF Taken, SegsNumbered, AllOwn
  <2>2. Unique(conn) /\ ConnsNumbered(conn, app, lastport, u, gone, b, {})
    BY <1>3 DEF Unique, ConnsNumbered, ConnNumbered
  <2>3. AllAgree(conn)
    BY <1>8, <1>h DEF AllAgree
  <2>4. Opening(conn, net, app, b, {})
    BY <1>1, <1>4 DEF Opening, Untaken, Halfway
  <2> QED BY <1>7, <1>9, <2>1, <2>2, <2>3, <2>4 DEF Num
<1>11. b \in [Port -> Nat] /\ {} \in SUBSET Port
  BY <1>7 DEF NumTyped
<1> QED
  BY <1>5, <1>10, <1>11 DEF Numbered

\* Only a SYN for no connection uses an initial number up.
LEMMA OnlyUnknownBegins ==
  ASSUME [Next]_vars
  PROVE  numbers' = numbers \/ \E h \in Host, s \in net : \E left \in Left(s) : InputUnknown(h, s, left)
<1>1. CASE UNCHANGED vars
  BY <1>1 DEF vars
<1>2. CASE tcp_connect \/ \E i \in Slot : PollEvent(i)
  BY <1>2 DEF tcp_connect, PollEvent
<1>3. CASE \E h \in Host : Input(h)
  <2>1. PICK h \in Host, i \in Slot, s \in net : \E left \in Left(s) :
          \/ InputReset(h, i, s, left)      \/ InputUnexpected(h, i, s, left)
          \/ InputSynRcvd(h, i, s, left)    \/ InputSynSent(h, i, s, left)
          \/ InputEstablished(h, i, s, left) \/ InputFin(h, i, s, left)
          \/ InputLastAck(h, i, s, left)    \/ InputFinWait1(h, i, s, left)
          \/ InputFinWait2(h, i, s, left)   \/ InputTimeWait(h, i, s, left)
          \/ InputClosing(h, i, s, left)
    BY <1>3 DEF Input
  <2>p. PICK left \in Left(s) :
          \/ InputReset(h, i, s, left)      \/ InputUnexpected(h, i, s, left)
          \/ InputSynRcvd(h, i, s, left)    \/ InputSynSent(h, i, s, left)
          \/ InputEstablished(h, i, s, left) \/ InputFin(h, i, s, left)
          \/ InputLastAck(h, i, s, left)    \/ InputFinWait1(h, i, s, left)
          \/ InputFinWait2(h, i, s, left)   \/ InputTimeWait(h, i, s, left)
          \/ InputClosing(h, i, s, left)
    BY <2>1
  <2>2. CASE InputReset(h, i, s, left) \/ InputUnexpected(h, i, s, left)
    BY <2>2 DEF InputReset, InputUnexpected
  <2>3. CASE InputSynRcvd(h, i, s, left) \/ InputSynSent(h, i, s, left)
    BY <2>3 DEF InputSynRcvd, InputSynSent
  <2>4. CASE InputEstablished(h, i, s, left) \/ InputFin(h, i, s, left) \/ InputLastAck(h, i, s, left)
    BY <2>4 DEF InputEstablished, InputFin, InputLastAck
  <2>5. CASE InputFinWait1(h, i, s, left) \/ InputFinWait2(h, i, s, left)
    BY <2>5 DEF InputFinWait1, InputFinWait2
  <2>6. CASE InputTimeWait(h, i, s, left) \/ InputClosing(h, i, s, left)
    BY <2>6 DEF InputTimeWait, InputClosing
  <2> QED BY <2>p, <2>2, <2>3, <2>4, <2>5, <2>6
<1>4. CASE \E h \in Host : PeriodicEnds(h) \/ ProcessExits(h)
  BY <1>4 DEF PeriodicEnds, ProcessExits
<1>5. CASE \E h \in Host, i \in Slot : WaitIsOver(h, i) \/ Retransmit(h, i) \/ PeriodicPoll(h, i)
  BY <1>5 DEF WaitIsOver, Retransmit, PeriodicPoll
<1> QED
  BY <1>1, <1>2, <1>3, <1>4, <1>5 DEF Next

LEMMA NextNumbered == Safe /\ Numbered /\ [Next]_vars => Numbered'
<1> SUFFICES ASSUME Safe, Numbered, [Next]_vars, apart' PROVE Numbered'
  BY DEF Numbered
<1>1. Typed /\ apart
  <2>1. CASE numbers' = numbers
    BY <2>1 DEF Safe, numbers
  <2>2. CASE \E q \in Port, x \in Nat : Begins(q, x)
    BY <2>2 DEF Safe, Begins
  <2>3. ASSUME NEW h \in Host, NEW s \in net, NEW left \in Left(s), InputUnknown(h, s, left)
        PROVE  numbers' = numbers \/ \E q \in Port, x \in Nat : Begins(q, x)
    <3>1. s.port \in Port /\ \A n \in Turns : iss + n \in Nat
      BY NumberAssumption DEF Safe, Typed, NetOK, NumbersOK, Segment
    <3> QED BY <2>3, <3>1 DEF InputUnknown
  <2>4. numbers' = numbers \/ \E h \in Host, s \in net : \E left \in Left(s) : InputUnknown(h, s, left)
    BY OnlyUnknownBegins
  <2> QED BY <2>1, <2>2, <2>3, <2>4
<1>2. PICK b \in [Port -> Nat], T \in SUBSET Port, u \in [Port -> SUBSET Nat] :
        Now(b, T, u) /\ Within(u)
  BY <1>1 DEF Numbered, Now
<1>3. ASSUME NEW b2 \in [Port -> Nat], NEW T2 \in SUBSET Port, NEW u2 \in [Port -> SUBSET Nat],
             Later(b2, T2, u2), Within(u2)'
      PROVE  Numbered'
  BY <1>3 DEF Numbered, Later
<1>4. ASSUME NEW b2 \in [Port -> Nat], NEW T2 \in SUBSET Port, Then(b2, T2, u),
             UNCHANGED <<numbers, lastport, gone>>
      PROVE  Numbered'
  <2>1. Later(b2, T2, u)
    BY <1>4 DEF Later, Then
  <2>2. Within(u)'
    BY <1>2, <1>4 DEF Within, numbers
  <2> QED BY <1>3, <2>1, <2>2
<1>5. CASE UNCHANGED vars
  <2>1. Then(b, T, u)
    BY <1>2, <1>5, DroppedNum DEF vars
  <2> QED BY <1>2, <1>4, <1>5, <2>1 DEF vars
<1>6. CASE tcp_connect
  <2>1. Later(b, T, u) /\ Within(u)'
    BY <1>1, <1>2, <1>6, ConnectNum DEF tcp_connect, Within, numbers
  <2> QED BY <1>2, <1>3, <2>1
<1>7. ASSUME NEW h \in Host, NEW s \in net, NEW left \in Left(s), InputUnknown(h, s, left)
      PROVE  Numbered'
  <2>1. PICK u2 \in [Port -> SUBSET Nat] : Later(b, T, u2) /\ Within(u2)'
    BY <1>1, <1>2, <1>7, UnknownNum
  <2> QED BY <1>2, <1>3, <2>1
<1>8. ASSUME NEW h \in Host, Input(h) PROVE Numbered'
  <2>1. UNCHANGED <<numbers, lastport, gone>>
    <3>1. ASSUME NEW i \in Slot, NEW s \in net, NEW left
          PROVE  /\ InputReset(h, i, s, left) \/ InputUnexpected(h, i, s, left) =>
                      UNCHANGED <<numbers, lastport, gone>>
                 /\ InputSynRcvd(h, i, s, left) => UNCHANGED <<numbers, lastport, gone>>
                 /\ InputSynSent(h, i, s, left) => UNCHANGED <<numbers, lastport, gone>>
                 /\ InputEstablished(h, i, s, left) => UNCHANGED <<numbers, lastport, gone>>
                 /\ InputFin(h, i, s, left) => UNCHANGED <<numbers, lastport, gone>>
                 /\ InputLastAck(h, i, s, left) => UNCHANGED <<numbers, lastport, gone>>
                 /\ InputFinWait1(h, i, s, left) => UNCHANGED <<numbers, lastport, gone>>
                 /\ InputFinWait2(h, i, s, left) => UNCHANGED <<numbers, lastport, gone>>
                 /\ InputTimeWait(h, i, s, left) => UNCHANGED <<numbers, lastport, gone>>
                 /\ InputClosing(h, i, s, left) => UNCHANGED <<numbers, lastport, gone>>
      <4>1. InputReset(h, i, s, left) \/ InputUnexpected(h, i, s, left) =>
              UNCHANGED <<numbers, lastport, gone>>
        BY DEF InputReset, InputUnexpected
      <4>2. InputSynRcvd(h, i, s, left) => UNCHANGED <<numbers, lastport, gone>>
        BY DEF InputSynRcvd
      <4>3. InputSynSent(h, i, s, left) => UNCHANGED <<numbers, lastport, gone>>
        BY DEF InputSynSent
      <4>4. InputEstablished(h, i, s, left) => UNCHANGED <<numbers, lastport, gone>>
        BY DEF InputEstablished
      <4>5. InputFin(h, i, s, left) => UNCHANGED <<numbers, lastport, gone>>
        BY DEF InputFin
      <4>6. InputLastAck(h, i, s, left) => UNCHANGED <<numbers, lastport, gone>>
        BY DEF InputLastAck
      <4>7. InputFinWait1(h, i, s, left) => UNCHANGED <<numbers, lastport, gone>>
        BY DEF InputFinWait1
      <4>8. InputFinWait2(h, i, s, left) => UNCHANGED <<numbers, lastport, gone>>
        BY DEF InputFinWait2
      <4>9. InputTimeWait(h, i, s, left) => UNCHANGED <<numbers, lastport, gone>>
        BY DEF InputTimeWait
      <4>10. InputClosing(h, i, s, left) => UNCHANGED <<numbers, lastport, gone>>
        BY DEF InputClosing
      <4> QED BY <4>1, <4>2, <4>3, <4>4, <4>5, <4>6, <4>7, <4>8, <4>9, <4>10
    <3> QED BY <1>8, <3>1 DEF Input
  <2>2. PICK b2 \in [Port -> Nat], T2 \in SUBSET Port : Then(b2, T2, u)
    BY <1>2, <1>8, InputNum
  <2> QED BY <1>4, <2>1, <2>2
<1>9. CASE \/ \E i \in Slot : PollEvent(i)
           \/ \E h \in Host, i \in Slot : PeriodicPoll(h, i)
           \/ \E h \in Host : PeriodicEnds(h)
  <2>1. UNCHANGED <<numbers, lastport, gone>>
    BY <1>9 DEF PollEvent, PeriodicPoll, PeriodicEnds
  <2>2. Then(b, T, u)
    BY <1>2, <1>9, PollNum
  <2> QED BY <1>2, <1>4, <2>1, <2>2
<1>10. ASSUME NEW h \in Host, NEW i \in Slot, WaitIsOver(h, i) \/ Retransmit(h, i)
       PROVE  Numbered'
  <2>1. UNCHANGED <<numbers, lastport, gone>>
    BY <1>10 DEF WaitIsOver, Retransmit
  <2>2. Then(b, T, u)
    BY <1>2, <1>10, WaitNum, RetransmitNum
  <2> QED BY <1>2, <1>4, <2>1, <2>2
<1>11. ASSUME NEW h \in Host, ProcessExits(h) PROVE Numbered'
  <2>1. UNCHANGED <<numbers, net, lastport>>
    BY <1>11 DEF ProcessExits
  <2>2. Later(b, T, u)
    BY <1>2, <1>11, <2>1, ExitNum DEF Later
  <2>3. Within(u)'
    BY <1>2, <2>1 DEF Within, numbers
  <2> QED BY <1>2, <1>3, <2>2, <2>3
<1> QED
  BY <1>5, <1>6, <1>7, <1>8, <1>9, <1>10, <1>11 DEF Next

LEMMA AlwaysNumbered == Spec => []Numbered
<1>1. Safe /\ Numbered /\ [Next]_vars => Numbered'
  BY NextNumbered
<1> QED
  BY <1>1, InitNumbered, AlwaysSafe, PTL DEF Spec

LEMMA NumberedStreams ==
  ASSUME Numbered
  PROVE  StreamIntact /\ AckedWasDelivered /\ NumbersAgree
<1> SUFFICES ASSUME apart PROVE StreamIntact /\ AckedWasDelivered /\ NumbersAgree
  BY DEF StreamIntact, AckedWasDelivered, NumbersAgree
<1>1. PICK b \in [Port -> Nat], T \in SUBSET Port, u \in [Port -> SUBSET Nat] : Now(b, T, u)
  BY DEF Numbered, Now
<1>2. /\ Streams(app, gone) /\ AllAgree(conn)
      /\ conn \in Conns
  BY <1>1, NowFacts DEF Now, Num
<1>3. StreamIntact
  BY <1>2 DEF StreamIntact, Streams, StreamOK
<1>4. AckedWasDelivered
  BY <1>2 DEF AckedWasDelivered, Streams, Delivered, Ended
<1>5. NumbersAgree
  BY <1>2 DEF NumbersAgree, AllAgree, Agree, Synchronised, Handshake
<1> QED
  BY <1>3, <1>4, <1>5

\* What a program is given is what the other one sent on this port, from its beginning and
\* each segment once, whatever the network loses, repeats and delays, however often the two
\* ends are polled, closed, aborted and opened again, and for any number of connections and
\* segments (uip.c, the comparison of the sequence number with rcv_nxt).
THEOREM StreamsStayIntact == Spec => []StreamIntact
<1>1. Numbered => StreamIntact
  BY NumberedStreams
<1> QED
  BY <1>1, AlwaysNumbered, PTL

\* What a program is told is acknowledged has reached the program of the other host, unless
\* that one had closed the connection or exited (uip.c, UIP_ACKDATA).
THEOREM AcknowledgedIsDelivered == Spec => []AckedWasDelivered
<1>1. Numbered => AckedWasDelivered
  BY NumberedStreams
<1> QED
  BY <1>1, AlwaysNumbered, PTL

\* Two ends past their handshake that share a port expect the numbers that the other sends
\* next or has outstanding (uip.c, snd_nxt, rcv_nxt and len).
THEOREM EndsAgree == Spec => []NumbersAgree
<1>1. Numbered => NumbersAgree
  BY NumberedStreams
<1> QED
  BY <1>1, AlwaysNumbered, PTL

================================================================================
