-------------------------------- MODULE Collect --------------------------------
(***************************************************************************)
(* Data collection in Rime: core/net/rime/collect.c on the neighbour table *)
(* of neighbor.c, the advertisements of neighbor-discovery.c and one       *)
(* runicast connection for each node.  Packets travel from node to node    *)
(* towards a sink along neighbours with ever lower metrics.                *)
(*                                                                         *)
(* Each handler runs to its end in one process and is one action.  Of      *)
(* runicast.c what matters here is kept: a packet is sent again until its  *)
(* id is acknowledged or the attempts are used up, and a new packet takes  *)
(* the place of the old one.  Queue buffers may run out: other protocols   *)
(* of the node use them.  Timers expire at any time.  An advertisement     *)
(* reaches one node at a time: the others miss it, and may hear the next.  *)
(***************************************************************************)
EXTENDS Naturals, Sequences, FiniteSets, Functions, FiniteSetsExt

CONSTANTS Node,
          Advertised,    \* the <<from, to>> between which advertisements are heard
          Switch,        \* the calls <<node, should_be_sink>> of collect_set_sink() that are made
          ToSend,        \* bound: how many packets the program of each node sends
          MetricRange,   \* the range of a neighbour's metric, which is kept in 8 bits
          Etx,           \* the values of neighbor_etx()
          MaxNeighbors,
          NumRecent,     \* NUM_RECENT_PACKETS
          PacketIds,     \* the range of EPACKET_ID, 2^2
          MaxHopLim,
          Attempts,      \* the numbers of transmissions that programs ask for, kept in 3 bits
          Ids,           \* the range of the packet ids of runicast
          MaxInAir,      \* bound: packets on their way
          NULL

SINK == 0
RTMETRIC_MAX == MetricRange - 1

ASSUME NodeAssumption == IsFiniteSet(Node) /\ Advertised \subseteq Node \X Node /\ Switch \subseteq Node \X BOOLEAN
ASSUME SizeAssumption ==
  /\ MetricRange \in Nat \ {0, 1} /\ MaxNeighbors \in Nat \ {0} /\ NumRecent \in Nat \ {0}
  /\ PacketIds \in Nat \ {0} /\ MaxHopLim \in Nat \ {0} /\ Ids \in Nat \ {0} /\ MaxInAir \in Nat
  /\ Attempts \subseteq 0..7 /\ ToSend \in [Node -> Nat]
ASSUME EtxAssumption == Etx \subseteq 1..(MetricRange - 1) /\ Etx # {}

VARIABLES
  rtmetric,    \* of each node
  val,         \* what each node advertises
  started,     \* the nodes whose advertisement timers were started
  neighbors,   \* neighbors_list: the metric and etx of each neighbour
  forwarding,
  recent,      \* recent_packets and recent_packet_ptr
  seqno,
  link,        \* the runicast connection
  air,         \* the packets on their way to each node
  sinks,       \* auxiliary: the nodes that collect_set_sink() made sinks
  seen         \* auxiliary: how often each node took a packet for a new one, at most 2

routing == <<rtmetric, val, started, neighbors>>
vars == <<rtmetric, val, started, neighbors, forwarding, recent, seqno, link, air, sinks, seen>>

Metric == 0..(2 * MetricRange)
Name == {p \in Node \X (0..Max({ToSend[n] : n \in Node})) : p[2] < ToSend[p[1]]}
Packet == [name : Name, ttl : 1..MaxHopLim, max : Attempts]
\* packet is NULL while the connection has no queue buffer; then its timer never runs.
Link == [timer : BOOLEAN, packet : Packet \cup {NULL}, to : Node \cup {NULL}, rxmit : 0..7, id : 0..(Ids - 1)]
Frame == [type : {"DATA", "ACK"}, packet : Packet \cup {NULL}, id : 0..(Ids - 1), from : Node]

\* collect_open() and neighbor_init().  No node has the address that the empty
\* entries of recent_packets hold.
Init ==
  /\ rtmetric = [n \in Node |-> RTMETRIC_MAX]
  /\ val = [n \in Node |-> RTMETRIC_MAX]
  /\ started = {}
  /\ neighbors = [n \in Node |-> <<>>]
  /\ forwarding = [n \in Node |-> FALSE]
  /\ recent = [n \in Node |-> [packets |-> [i \in 1..NumRecent |-> NULL], ptr |-> 1]]
  /\ seqno = [n \in Node |-> 0]
  /\ link = [n \in Node |-> [timer |-> FALSE, packet |-> NULL, to |-> NULL, rxmit |-> 0, id |-> 0]]
  /\ air = [n \in Node |-> <<>>]
  /\ sinks = {}
  /\ seen = [n \in Node |-> [p \in Name |-> 0]]

--------------------------------------------------------------------------------
(* neighbor.c: a table is a function on the addresses that it holds             *)

\* neighbor_best() for a table: the first of the neighbours with the lowest metric.
\* Which one is first is left open.
Best(table) ==
  {m \in DOMAIN table :
     /\ table[m].rtmetric < RTMETRIC_MAX
     /\ \A k \in DOMAIN table : table[m].rtmetric <= table[k].rtmetric}

\* The entry that is used for a new neighbour when the table is full.
Worst(table) ==
  {m \in DOMAIN table : \A k \in DOMAIN table :
     \/ table[k].rtmetric < table[m].rtmetric
     \/ table[k].rtmetric = table[m].rtmetric /\ table[k].etx <= table[m].etx}

With(table, m, entry) == [k \in DOMAIN table \cup {m} |-> IF k = m THEN entry ELSE table[k]]

\* A new neighbour starts with the lowest etx.
NoEtx(m) == 0
FirstEtx(m) == Min(Etx)

\* neighbor_add() and neighbor_update(), which take the metric in 8 bits.
Heard(table, m, metric) ==
  LET new == [rtmetric |-> metric % MetricRange, etx |-> FirstEtx(m)]
  IN IF m \in DOMAIN table THEN {With(table, m, [new EXCEPT !.etx = table[m].etx])}
     ELSE IF Cardinality(DOMAIN table) < MaxNeighbors THEN {With(table, m, new)}
     ELSE {With(Restrict(table, DOMAIN table \ {k}), m, new) : k \in Worst(table)}

\* neighbor_update_etx() and neighbor_timedout_etx(): the mean of the last eight
\* numbers of transmissions becomes any of its values.
Measured(table, m) ==
  IF m \notin DOMAIN table THEN {table} ELSE {[table EXCEPT ![m].etx = e] : e \in Etx}

\* update_rtmetric() of node n, whose metric is old, with a new table.  Without a
\* neighbour what is advertised stays as it is.
update_rtmetric(n, old, table) ==
  /\ neighbors' = [neighbors EXCEPT ![n] = table]
  /\ IF old = SINK THEN UNCHANGED <<rtmetric, val, started>>
     ELSE IF Best(table) = {}
     THEN rtmetric' = [rtmetric EXCEPT ![n] = RTMETRIC_MAX] /\ UNCHANGED <<val, started>>
     ELSE \E m \in Best(table) :
            LET new == table[m].rtmetric + table[m].etx
            IN /\ rtmetric' = [rtmetric EXCEPT ![n] = new]
               /\ val' = IF new # old THEN [val EXCEPT ![n] = new] ELSE val
               /\ started' = IF new # old /\ old = RTMETRIC_MAX THEN started \cup {n} ELSE started

\* periodic(): a neighbour that was not heard for max_time is removed.
Age(n, m) ==
  /\ m \in DOMAIN neighbors[n]
  /\ neighbors' = [neighbors EXCEPT ![n] = Restrict(@, DOMAIN @ \ {m})]
  /\ UNCHANGED <<rtmetric, val, started, forwarding, recent, seqno, link, air, sinks, seen>>

\* send_adv() of m, and adv_received() of n.
Advertise(m, n) ==
  /\ m \in started /\ <<m, n>> \in Advertised
  /\ \E table \in Heard(neighbors[n], m, val[m]) : update_rtmetric(n, rtmetric[n], table)
  /\ UNCHANGED <<forwarding, recent, seqno, link, air, sinks, seen>>

collect_set_sink(n, should_be_sink) ==
  /\ <<n, should_be_sink>> \in Switch /\ (n \in sinks) # should_be_sink
  /\ IF should_be_sink
     THEN /\ sinks' = sinks \cup {n}
          /\ rtmetric' = [rtmetric EXCEPT ![n] = SINK] /\ val' = [val EXCEPT ![n] = SINK]
          /\ started' = started \cup {n}
          /\ UNCHANGED neighbors
     ELSE sinks' = sinks \ {n} /\ update_rtmetric(n, RTMETRIC_MAX, neighbors[n])
  /\ UNCHANGED <<forwarding, recent, seqno, link, air, seen>>

--------------------------------------------------------------------------------
(* The runicast connection                                                      *)

InAir(a) == MapThenSumSet(LAMBDA n : Len(a[n]), Node)

\* The packets on their way after a transmission: a packet is lost, or arrives some time.
After(a, to, frame) ==
  {a} \cup IF InAir(a) < MaxInAir THEN {[a EXCEPT ![to] = Append(@, frame)]} ELSE {}

Data(n, l) == [type |-> "DATA", packet |-> l.packet, id |-> l.id, from |-> n]

\* node_packet_sent() and node_packet_timedout().
KeepsForwarding(n) == UNCHANGED forwarding
Concluded(n) == forwarding' = [forwarding EXCEPT ![n] = FALSE]
Conclude(n, to) ==
  /\ Concluded(n)
  /\ \E table \in Measured(neighbors[n], to) : update_rtmetric(n, rtmetric[n], table)

\* runicast_send() with stunicast_send_stubborn(), when forwarding was set to flag.  The id
\* is not advanced when another packet takes the place of one under way.  The queue buffer
\* of that one is freed first, so that only a connection that has none is refused one; that
\* 0 is returned then is not asked by its callers.  A packet that is sent only once is
\* given up at once, and its time-out reported from within.
runicast_send(n, to, packet, flag, a) ==
  \/ /\ link[n].packet = NULL
     /\ link' = [link EXCEPT ![n].rxmit = 0] /\ air' = a
     /\ forwarding' = flag /\ UNCHANGED routing
  \/ LET l == [link[n] EXCEPT !.timer = packet.max > 1, !.packet = packet, !.to = to, !.rxmit = 1]
     IN /\ link' = [link EXCEPT ![n] = l] /\ air' \in After(a, to, Data(n, l))
        /\ IF l.timer THEN forwarding' = flag /\ UNCHANGED routing ELSE Conclude(n, to)

\* The retransmission timer.
Retransmit(n) ==
  /\ link[n].timer
  /\ LET last == link[n].rxmit + 1 >= link[n].packet.max
     IN /\ link' = [link EXCEPT ![n].rxmit = @ + 1, ![n].timer = ~last]
        /\ air' \in After(air, link[n].to, Data(n, link[n]))
        /\ IF last THEN Conclude(n, link[n].to) ELSE UNCHANGED <<forwarding, routing>>
  /\ UNCHANGED <<recent, seqno, sinks, seen>>

Taken(n) == [air EXCEPT ![n] = Tail(@)]

ReceiveAck(n) ==
  /\ air[n] # <<>> /\ Head(air[n]).type = "ACK"
  /\ air' = Taken(n)
  /\ IF Head(air[n]).id = link[n].id
     THEN /\ link' = [link EXCEPT ![n].id = (@ + 1) % Ids, ![n].timer = FALSE]
          /\ Conclude(n, link[n].to)
     ELSE UNCHANGED <<link, forwarding, routing>>
  /\ UNCHANGED <<recent, seqno, sinks, seen>>

--------------------------------------------------------------------------------
(* Packets                                                                      *)

Id(p) == <<p.name[1], p.name[2] % PacketIds>>
Duplicate(n, p) == Id(p) \in Range(recent[n].packets)
SamePtr(i) == i
NextPtr(i) == (i % NumRecent) + 1
Remember(n, p) ==
  /\ recent' = [recent EXCEPT ![n].packets[recent[n].ptr] = Id(p), ![n].ptr = NextPtr(@)]
  /\ seen' = [seen EXCEPT ![n][p.name] = Min({@ + 1, 2})]

\* node_packet_received() of a new packet: delivered at a sink, forwarded, or dropped.
Forwards(n, p) == rtmetric[n] \notin {SINK, RTMETRIC_MAX} /\ p.ttl > 1 /\ ~forwarding[n]

Forward(n, p, a) ==
  LET flag == [forwarding EXCEPT ![n] = TRUE]
  IN \/ Best(neighbors[n]) = {} /\ forwarding' = flag /\ air' = a /\ UNCHANGED <<link, routing>>
     \/ \E m \in Best(neighbors[n]) : runicast_send(n, m, [p EXCEPT !.ttl = @ - 1], flag, a)

\* The packet is acknowledged first, whatever becomes of it.
ReceiveData(n) ==
  /\ air[n] # <<>> /\ Head(air[n]).type = "DATA"
  /\ LET frame == Head(air[n])
         p == frame.packet
         ack == [type |-> "ACK", packet |-> NULL, id |-> frame.id, from |-> n]
     IN \E a \in After(Taken(n), frame.from, ack) :
          \/ /\ Duplicate(n, p)
             /\ air' = a /\ UNCHANGED <<recent, seen, forwarding, link, routing>>
          \/ /\ ~Duplicate(n, p) /\ ~Forwards(n, p)
             /\ Remember(n, p)
             /\ air' = a /\ UNCHANGED <<forwarding, link, routing>>
          \/ /\ ~Duplicate(n, p) /\ Forwards(n, p)
             /\ Remember(n, p)
             /\ Forward(n, p, a)
  /\ UNCHANGED <<seqno, sinks>>

\* collect_send(): whether the node is forwarding a packet is not asked.
collect_send(n) ==
  /\ seqno[n] < ToSend[n]
  /\ seqno' = [seqno EXCEPT ![n] = @ + 1]
  /\ IF rtmetric[n] = SINK \/ Best(neighbors[n]) = {} THEN UNCHANGED <<link, air, forwarding, routing>>
     ELSE \E m \in Best(neighbors[n]), max \in Attempts :
            LET p == [name |-> <<n, seqno[n]>>, ttl |-> MaxHopLim, max |-> max]
            IN runicast_send(n, m, p, forwarding, air)
  /\ UNCHANGED <<recent, sinks, seen>>

Next ==
  \/ \E n \in Node :
       \/ collect_send(n) \/ ReceiveData(n) \/ ReceiveAck(n) \/ Retransmit(n)
       \/ \E m \in Node : Age(n, m) \/ Advertise(m, n)
       \/ \E b \in BOOLEAN : collect_set_sink(n, b)

Spec == Init /\ [][Next]_vars
--------------------------------------------------------------------------------
TypeOK ==
  /\ rtmetric \in [Node -> Metric] /\ val \in [Node -> Metric] /\ started \subseteq Node
  /\ \A n \in Node :
       /\ DOMAIN neighbors[n] \subseteq Node /\ Cardinality(DOMAIN neighbors[n]) <= MaxNeighbors
       /\ \A m \in DOMAIN neighbors[n] :
            neighbors[n][m] \in [rtmetric : 0..RTMETRIC_MAX, etx : Etx]
       /\ DOMAIN recent[n].packets = 1..NumRecent /\ recent[n].ptr \in 1..NumRecent
       /\ air[n] \in Seq(Frame)
  /\ forwarding \in [Node -> BOOLEAN] /\ link \in [Node -> Link] /\ InAir(air) <= MaxInAir
  /\ seqno \in [Node -> Nat] /\ sinks \subseteq Node /\ seen \in [Node -> [Name -> 0..2]]

\* How many packets a node took.
Passed(n) == Cardinality({p \in Name : seen[n][p] > 0})

\* Copies of a packet - sent again when its acknowledgement was lost, or come along
\* another way - are recognised: no node forwards or delivers a packet twice, as long as
\* it took no more packets than recent_packets has places (collect.c).
TakenOnce == \A n \in Node : Passed(n) <= NumRecent => \A p \in Name : seen[n][p] <= 1

\* A node takes itself for a sink only if it was made one, although metrics are kept in
\* 8 bits and counted up without end between nodes that lost the sink: else it would
\* deliver the packets of others to a program that does not expect them (collect.c:181).
SinkIsSink == \A n \in Node : (rtmetric[n] = SINK) <=> (n \in sinks)

\* A node keeps forwarding set only while its connection works on a packet, also when its
\* own program sends in between, the route changes, or an old acknowledgement comes: then
\* it goes on forwarding for others.  Nothing resets forwarding after the two exceptions: a
\* packet that came when no neighbour with a route was left, and one for which the
\* connection, which never had a queue buffer, got none (collect.c:213-221).
ForwardingMeansBusy ==
  [][\A n \in Node : forwarding'[n] =>
       \/ link'[n].timer
       \/ forwarding[n] /\ ~link[n].timer
       \/ Best(neighbors[n]) = {}
       \/ link'[n].packet = NULL]_vars

\* A node advertises the metric that it has: without a route, that it has none (what
\* collect.c:109-110 says; the code leaves what is advertised as it was).
AdvertisesItsMetric == \A n \in started : val[n] = rtmetric[n]
================================================================================
