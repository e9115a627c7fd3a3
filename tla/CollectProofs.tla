----------------------------- MODULE CollectProofs -----------------------------
(***************************************************************************)
(* Theorems about data collection, for any number of nodes, sinks and      *)
(* packets, any range of metrics and any cache: which node is a sink,      *)
(* when a node is busy forwarding, and that it takes no packet twice.      *)
(***************************************************************************)
EXTENDS Collect, FiniteSetTheorems, WellFoundedInduction, TLAPS

\* A set of numbers has a least one.
LEMMA LeastNumber ==
  ASSUME NEW T \in SUBSET Nat, T # {}
  PROVE  \E x \in T : \A y \in T : x <= y
<1> DEFINE R == {r \in Nat \X Nat : r[1] < r[2]}
<1>1. IsWellFoundedOn(R, Nat)
  BY NatLessThanWellFounded, Zenon DEF OpToRel
<1>2. \A x, y \in Nat : <<x, y>> \notin R => y <= x
  OBVIOUS
<1> HIDE DEF R
<1>3. PICK x \in T : \A y \in T : ~(<<y, x>> \in R)
  BY <1>1, WFMin
<1> QED BY <1>2, <1>3

--------------------------------------------------------------------------------
(* The invariant.  Metrics are sums without bound; what a table keeps of them   *)
(* wraps; an etx is never 0, so a sum is not SINK although an entry may be.     *)

Entry == [rtmetric : Nat, etx : Etx]
Table == UNION {[D -> Entry] : D \in SUBSET Node}

TablesOK ==
  /\ rtmetric \in [Node -> Nat] /\ val \in [Node -> Nat] /\ started \subseteq Node
  /\ neighbors \in [Node -> Table]
LinksOK ==
  /\ forwarding \in [Node -> BOOLEAN]
  /\ DOMAIN link = Node /\ \A n \in Node : "timer" \in DOMAIN link[n]

SinkInv == TablesOK /\ SinkIsSink

--------------------------------------------------------------------------------
(* The neighbour table.                                                         *)

LEMMA Constants ==
  /\ Etx \subseteq Nat \ {0} /\ RTMETRIC_MAX \in Nat \ {0} /\ MetricRange \in Nat \ {0}
  /\ \A k \in Nat : k % MetricRange \in Nat
<1>1. MetricRange \in Nat /\ MetricRange >= 2
  BY SizeAssumption
<1>2. \A k \in Nat : k % MetricRange \in Nat
  BY <1>1
<1> QED
  BY <1>1, <1>2, EtxAssumption DEF RTMETRIC_MAX

LEMMA TableFacts ==
  ASSUME NEW t \in Table
  PROVE  DOMAIN t \subseteq Node /\ \A m \in DOMAIN t : t[m] \in Entry
BY DEF Table

LEMMA WithFacts ==
  ASSUME NEW t \in Table, NEW m \in Node, NEW e \in Entry
  PROVE  With(t, m, e) \in Table
<1> DEFINE D == DOMAIN t \cup {m}
<1>1. D \in SUBSET Node /\ \A k \in DOMAIN t : t[k] \in Entry
  BY TableFacts
<1>2. With(t, m, e) = [k \in D |-> IF k = m THEN e ELSE t[k]]
  BY DEF With
<1>3. With(t, m, e) \in [D -> Entry]
  BY <1>1, <1>2
<1> HIDE DEF D
<1> QED
  BY <1>1, <1>3 DEF Table

LEMMA RestrictFacts ==
  ASSUME NEW t \in Table, NEW S \in SUBSET DOMAIN t
  PROVE  Restrict(t, S) \in Table
<1>1. S \in SUBSET Node /\ \A k \in S : t[k] \in Entry
  BY TableFacts
<1>2. Restrict(t, S) \in [S -> Entry]
  BY <1>1 DEF Restrict
<1> QED
  BY <1>1, <1>2 DEF Table

LEMMA HeardFacts ==
  ASSUME NEW t \in Table, NEW m \in Node, NEW metric \in Nat
  PROVE  \A h \in Heard(t, m, metric) : h \in Table
<1> DEFINE new == [rtmetric |-> metric % MetricRange, etx |-> FirstEtx(m)]
<1>1. FirstEtx(m) \in Etx
  <2>1. Etx \in SUBSET Nat /\ Etx # {}
    BY Constants, EtxAssumption
  <2>2. \E x \in Etx : \A y \in Etx : x <= y
    BY <2>1, LeastNumber
  <2> QED BY <2>2 DEF FirstEtx, Min
<1>2. metric % MetricRange \in Nat
  BY Constants
<1>3. new \in Entry
  BY <1>1, <1>2 DEF Entry
<1>4. CASE m \in DOMAIN t
  <2> DEFINE e == [new EXCEPT !.etx = t[m].etx]
  <2>1. e \in Entry
    BY <1>3, <1>4, TableFacts DEF Entry
  <2>2. Heard(t, m, metric) = {With(t, m, e)}
    BY <1>4 DEF Heard
  <2> HIDE DEF e
  <2>3. With(t, m, e) \in Table
    BY <2>1, WithFacts
  <2> QED BY <2>2, <2>3
<1>5. CASE m \notin DOMAIN t /\ Cardinality(DOMAIN t) < MaxNeighbors
  <2>1. Heard(t, m, metric) = {With(t, m, new)}
    BY <1>5 DEF Heard
  <2> HIDE DEF new
  <2> QED BY <1>3, <2>1, WithFacts
<1>6. CASE m \notin DOMAIN t /\ ~(Cardinality(DOMAIN t) < MaxNeighbors)
  <2>1. Heard(t, m, metric) = {With(Restrict(t, DOMAIN t \ {k}), m, new) : k \in Worst(t)}
    BY <1>6 DEF Heard
  <2>2. \A k : Restrict(t, DOMAIN t \ {k}) \in Table
    BY RestrictFacts
  <2> HIDE DEF new
  <2>3. \A k : With(Restrict(t, DOMAIN t \ {k}), m, new) \in Table
    BY <1>3, <2>2, WithFacts
  <2> QED BY <2>1, <2>3
<1> QED
  BY <1>4, <1>5, <1>6

LEMMA MeasuredFacts ==
  ASSUME NEW t \in Table, NEW m
  PROVE  \A h \in Measured(t, m) : h \in Table
<1>1. CASE m \notin DOMAIN t
  BY <1>1 DEF Measured
<1>2. CASE m \in DOMAIN t
  <2> SUFFICES ASSUME NEW e \in Etx PROVE [t EXCEPT ![m].etx = e] \in Table
    BY <1>2 DEF Measured
  <2>1. PICK D \in SUBSET Node : t \in [D -> Entry]
    BY DEF Table
  <2>2. [t[m] EXCEPT !.etx = e] \in Entry
    BY <1>2, <2>1 DEF Entry
  <2>3. [t EXCEPT ![m].etx = e] = [t EXCEPT ![m] = [t[m] EXCEPT !.etx = e]]
    OBVIOUS
  <2>4. [t EXCEPT ![m].etx = e] \in [D -> Entry]
    BY <2>1, <2>2, <2>3
  <2> QED BY <2>4 DEF Table
<1> QED
  BY <1>1, <1>2

\* Of a table with a route, the metric of the node becomes a sum that is not SINK.
LEMMA UpdateFacts ==
  ASSUME TablesOK, NEW n \in Node, NEW old \in Nat, NEW t \in Table,
         update_rtmetric(n, old, t)
  PROVE  /\ TablesOK'
         /\ old = SINK => rtmetric' = rtmetric
         /\ old # SINK => /\ rtmetric'[n] # SINK
                          /\ \A k \in Node \ {n} : rtmetric'[k] = rtmetric[k]
<1>1. neighbors' \in [Node -> Table]
  BY DEF update_rtmetric, TablesOK
<1>2. CASE old = SINK
  BY <1>1, <1>2 DEF update_rtmetric, TablesOK
<1>3. CASE old # SINK /\ Best(t) = {}
  <2>1. /\ rtmetric' = [rtmetric EXCEPT ![n] = RTMETRIC_MAX]
        /\ UNCHANGED <<val, started>>
    BY <1>3 DEF update_rtmetric
  <2> QED BY <1>1, <1>3, <2>1, Constants DEF TablesOK, SINK
<1>4. CASE old # SINK /\ Best(t) # {}
  <2>1. PICK m \in Best(t) :
          LET new == t[m].rtmetric + t[m].etx
          IN /\ rtmetric' = [rtmetric EXCEPT ![n] = new]
             /\ val' = IF new # old THEN [val EXCEPT ![n] = new] ELSE val
             /\ started' = IF new # old /\ old = RTMETRIC_MAX THEN started \cup {n} ELSE started
    BY <1>4 DEF update_rtmetric
  <2> DEFINE new == t[m].rtmetric + t[m].etx
  <2>2. t[m].rtmetric \in Nat /\ t[m].etx \in Nat \ {0}
    BY TableFacts, Constants DEF Best, Entry
  <2>3. new \in Nat /\ new # SINK
    BY <2>2 DEF SINK
  <2>4. /\ rtmetric' = [rtmetric EXCEPT ![n] = new]
        /\ val' = [val EXCEPT ![n] = new] \/ val' = val
        /\ started' = started \cup {n} \/ started' = started
    BY <2>1
  <2> HIDE DEF new
  <2> QED BY <1>1, <1>4, <2>3, <2>4 DEF TablesOK
<1> QED
  BY <1>2, <1>3, <1>4

--------------------------------------------------------------------------------
(* Sinks.                                                                       *)

\* A step that updates the metric of a node from a table, and changes no sink.
LEMMA UpdateKeepsSinks ==
  ASSUME SinkInv, NEW n \in Node, NEW t \in Table, update_rtmetric(n, rtmetric[n], t),
         UNCHANGED sinks
  PROVE  SinkInv'
<1>1. TablesOK /\ rtmetric[n] \in Nat
  BY DEF SinkInv, TablesOK
<1>2. /\ TablesOK'
      /\ rtmetric[n] = SINK => rtmetric' = rtmetric
      /\ rtmetric[n] # SINK => /\ rtmetric'[n] # SINK
                               /\ \A k \in Node \ {n} : rtmetric'[k] = rtmetric[k]
  BY <1>1, UpdateFacts
<1> QED
  BY <1>2 DEF SinkInv, SinkIsSink

LEMMA RoutingUnchanged ==
  ASSUME SinkInv, UNCHANGED <<rtmetric, val, started, neighbors, sinks>>
  PROVE  SinkInv'
BY DEF SinkInv, TablesOK, SinkIsSink

LEMMA ConcludeKeepsSinks ==
  ASSUME SinkInv, NEW n \in Node, NEW to, Conclude(n, to), UNCHANGED sinks
  PROVE  SinkInv'
<1>1. PICK t \in Measured(neighbors[n], to) : update_rtmetric(n, rtmetric[n], t)
  BY DEF Conclude
<1>2. neighbors[n] \in Table
  BY DEF SinkInv, TablesOK
<1>3. t \in Table
  BY <1>2, MeasuredFacts
<1> QED
  BY <1>1, <1>3, UpdateKeepsSinks

LEMMA StepKeepsSinks ==
  ASSUME SinkInv, [Next]_vars
  PROVE  SinkInv'
<1>0. ASSUME NEW n \in Node, UNCHANGED sinks, UNCHANGED routing \/ \E to : Conclude(n, to) PROVE SinkInv'
  BY <1>0, ConcludeKeepsSinks, RoutingUnchanged DEF routing
<1>1. ASSUME NEW n \in Node, collect_send(n) PROVE SinkInv'
  <2>1. UNCHANGED routing \/ \E to : Conclude(n, to)
    <3>1. UNCHANGED routing \/ \E to, q : runicast_send(n, to, q, forwarding, air)
      BY <1>1, Zenon DEF collect_send
    <3> QED BY <3>1 DEF runicast_send
  <2> QED BY <1>0, <1>1, <2>1 DEF collect_send
<1>2. ASSUME NEW n \in Node, ReceiveData(n) PROVE SinkInv'
  <2>1. UNCHANGED routing \/ \E p, a : Forward(n, p, a)
    BY <1>2, Zenon DEF ReceiveData
  <2>2. UNCHANGED routing \/ \E to : Conclude(n, to)
    <3>1. ASSUME NEW p, NEW a, Forward(n, p, a)
          PROVE  UNCHANGED routing \/ \E to, q, flag : runicast_send(n, to, q, flag, a)
      BY <3>1, Zenon DEF Forward
    <3> QED BY <2>1, <3>1 DEF runicast_send
  <2> QED BY <1>0, <1>2, <2>2 DEF ReceiveData
<1>3. ASSUME NEW n \in Node, ReceiveAck(n) PROVE SinkInv'
  <2>1. UNCHANGED sinks /\ (Conclude(n, link[n].to) \/ UNCHANGED routing)
    BY <1>3 DEF ReceiveAck
  <2> QED BY <1>0, <2>1
<1>4. ASSUME NEW n \in Node, Retransmit(n) PROVE SinkInv'
  <2>1. UNCHANGED sinks /\ (Conclude(n, link[n].to) \/ UNCHANGED routing)
    BY <1>4 DEF Retransmit
  <2> QED BY <1>0, <2>1
<1>5. ASSUME NEW n \in Node, NEW m \in Node, Age(n, m) PROVE SinkInv'
  <2>1. neighbors[n] \in Table
    BY DEF SinkInv, TablesOK
  <2>2. Restrict(neighbors[n], DOMAIN neighbors[n] \ {m}) \in Table
    BY <2>1, RestrictFacts
  <2>3. neighbors' \in [Node -> Table]
    BY <1>5, <2>2 DEF Age, SinkInv, TablesOK
  <2> QED BY <1>5, <2>3 DEF Age, SinkInv, TablesOK, SinkIsSink
<1>6. ASSUME NEW n \in Node, NEW m \in Node, Advertise(m, n) PROVE SinkInv'
  <2>1. PICK t \in Heard(neighbors[n], m, val[m]) : update_rtmetric(n, rtmetric[n], t)
    BY <1>6 DEF Advertise
  <2>2. neighbors[n] \in Table /\ val[m] \in Nat
    BY DEF SinkInv, TablesOK
  <2>3. t \in Table
    BY <2>2, HeardFacts
  <2> QED BY <1>6, <2>1, <2>3, UpdateKeepsSinks DEF Advertise
<1>7. ASSUME NEW n \in Node, NEW b \in BOOLEAN, collect_set_sink(n, b) PROVE SinkInv'
  <2>1. CASE b
    BY <1>7, <2>1 DEF collect_set_sink, SinkInv, TablesOK, SinkIsSink, SINK
  <2>2. CASE ~b
    <3>1. sinks' = sinks \ {n} /\ update_rtmetric(n, RTMETRIC_MAX, neighbors[n])
      BY <1>7, <2>2 DEF collect_set_sink
    <3>2. TablesOK /\ neighbors[n] \in Table
      BY DEF SinkInv, TablesOK
    <3>3. RTMETRIC_MAX \in Nat /\ RTMETRIC_MAX # SINK
      BY Constants DEF SINK
    <3>4. TablesOK' /\ rtmetric'[n] # SINK /\ \A k \in Node \ {n} : rtmetric'[k] = rtmetric[k]
      BY <3>1, <3>2, <3>3, UpdateFacts
    <3> QED BY <3>1, <3>4 DEF SinkInv, SinkIsSink
  <2> QED BY <2>1, <2>2
<1>8. CASE UNCHANGED vars
  BY <1>8, RoutingUnchanged DEF vars
<1> QED
  BY <1>1, <1>2, <1>3, <1>4, <1>5, <1>6, <1>7, <1>8 DEF Next

LEMMA InitSinks == Init => SinkInv
<1> SUFFICES ASSUME Init PROVE SinkInv
  OBVIOUS
<1>1. <<>> \in Table
  <2>1. <<>> \in [{} -> Entry]
    OBVIOUS
  <2> QED BY <2>1 DEF Table
<1> QED
  BY <1>1, Constants DEF Init, SinkInv, TablesOK, SinkIsSink, SINK

\* Although the metrics of nodes that lost the sink count up, and are kept in 8 bits, no
\* node ever has the metric of a sink that was not made one (collect.c, neighbor.c).
THEOREM OnlySinksAreSinks == Spec => []SinkIsSink
<1>1. SinkInv /\ [Next]_vars => SinkInv'
  BY StepKeepsSinks
<1>2. SinkInv => SinkIsSink
  BY DEF SinkInv
<1> QED
  BY <1>1, <1>2, InitSinks, PTL DEF Spec

--------------------------------------------------------------------------------
(* Forwarding.                                                                  *)

Busy(n) == /\ forwarding'[n] => \/ link'[n].timer
                                \/ forwarding[n] /\ ~link[n].timer
                                \/ Best(neighbors[n]) = {}
                                \/ link'[n].packet = NULL

\* A step that leaves forwarding and the connection of a node alone.
LEMMA LeftAlone ==
  ASSUME NEW n, forwarding'[n] = forwarding[n], link'[n] = link[n]
  PROVE  Busy(n)
BY DEF Busy

LEMMA ConcludeFacts ==
  ASSUME LinksOK, NEW n \in Node, NEW to, Conclude(n, to)
  PROVE  /\ forwarding' \in [Node -> BOOLEAN] /\ ~forwarding'[n]
         /\ \A k \in Node \ {n} : forwarding'[k] = forwarding[k]
BY DEF Conclude, Concluded, LinksOK

\* A packet that is sent once is concluded at once, one that is sent again keeps the node
\* busy, and one without a queue buffer is the exception.
LEMMA SendKeepsLinks ==
  ASSUME LinksOK, NEW n \in Node, NEW to, NEW p, NEW a, NEW flag \in [Node -> BOOLEAN],
         \A k \in Node \ {n} : flag[k] = forwarding[k], runicast_send(n, to, p, flag, a)
  PROVE  LinksOK' /\ \A k \in Node : Busy(k)
<1>1. CASE /\ link[n].packet = NULL /\ link' = [link EXCEPT ![n].rxmit = 0]
           /\ forwarding' = flag
  <2>1. /\ DOMAIN link' = Node /\ \A k \in Node : "timer" \in DOMAIN link'[k]
        /\ link'[n].packet = NULL
        /\ \A k \in Node \ {n} : link'[k] = link[k]
    BY <1>1 DEF LinksOK
  <2> QED BY <1>1, <2>1, LeftAlone DEF LinksOK, Busy
<1>2. ASSUME ~(link[n].packet = NULL /\ link' = [link EXCEPT ![n].rxmit = 0] /\ forwarding' = flag)
      PROVE  LinksOK' /\ \A k \in Node : Busy(k)
  <2>1. PICK l : l = [link[n] EXCEPT !.timer = p.max > 1, !.packet = p, !.to = to, !.rxmit = 1]
    OBVIOUS
  <2>2. /\ link' = [link EXCEPT ![n] = l]
        /\ IF l.timer THEN forwarding' = flag ELSE Conclude(n, to)
    BY <1>2, <2>1, Zenon DEF runicast_send
  <2>3. "timer" \in DOMAIN l
    BY <2>1 DEF LinksOK
  <2>4. /\ DOMAIN link' = Node /\ \A k \in Node : "timer" \in DOMAIN link'[k]
        /\ link'[n] = l
        /\ \A k \in Node \ {n} : link'[k] = link[k]
    BY <2>2, <2>3 DEF LinksOK
  <2>5. /\ forwarding' \in [Node -> BOOLEAN]
        /\ \A k \in Node \ {n} : forwarding'[k] = forwarding[k]
        /\ l.timer \/ ~forwarding'[n]
    BY <2>2, ConcludeFacts
  <2>6. LinksOK'
    BY <2>4, <2>5 DEF LinksOK
  <2>7. Busy(n)
    BY <2>4, <2>5 DEF Busy
  <2>8. \A k \in Node \ {n} : Busy(k)
    BY <2>4, <2>5, LeftAlone
  <2> QED BY <2>6, <2>7, <2>8
<1> QED BY <1>1, <1>2

LEMMA StepKeepsLinks ==
  ASSUME LinksOK, [Next]_vars
  PROVE  LinksOK' /\ \A k \in Node : Busy(k)
<1> DEFINE Goal == LinksOK' /\ \A k \in Node : Busy(k)
<1>0. ASSUME UNCHANGED <<forwarding, link>> PROVE Goal
  BY <1>0, LeftAlone DEF LinksOK
<1>1. ASSUME NEW n \in Node, collect_send(n) PROVE Goal
  <2>1. UNCHANGED <<link, forwarding>> \/ \E to, q : runicast_send(n, to, q, forwarding, air)
    BY <1>1, Zenon DEF collect_send
  <2>2. ASSUME NEW to, NEW q, runicast_send(n, to, q, forwarding, air) PROVE Goal
    BY <2>2, SendKeepsLinks DEF LinksOK
  <2> QED BY <1>0, <2>1, <2>2
<1>2. ASSUME NEW n \in Node, ReceiveData(n) PROVE Goal
  <2>1. CASE UNCHANGED <<forwarding, link>>
    BY <1>0, <2>1
  <2>2. CASE ~UNCHANGED <<forwarding, link>>
    <3>1. PICK p, a : Forward(n, p, a)
      BY <1>2, <2>2, Zenon DEF ReceiveData
    <3>2. PICK flag : flag = [forwarding EXCEPT ![n] = TRUE]
      OBVIOUS
    <3>3. /\ flag \in [Node -> BOOLEAN]
          /\ \A k \in Node \ {n} : flag[k] = forwarding[k]
      BY <3>2 DEF LinksOK
    <3>4. \/ Best(neighbors[n]) = {} /\ forwarding' = flag /\ link' = link
          \/ \E to, q : runicast_send(n, to, q, flag, a)
      BY <3>1, <3>2, Zenon DEF Forward
    <3>5. CASE Best(neighbors[n]) = {} /\ forwarding' = flag /\ link' = link
      BY <3>3, <3>5, LeftAlone DEF LinksOK, Busy
    <3>6. ASSUME NEW to, NEW q, runicast_send(n, to, q, flag, a) PROVE Goal
      BY <3>3, <3>6, SendKeepsLinks
    <3> QED BY <3>4, <3>5, <3>6
  <2> QED BY <2>1, <2>2
<1>3. ASSUME NEW n \in Node, ReceiveAck(n) PROVE Goal
  <2>1. CASE UNCHANGED <<forwarding, link>>
    BY <1>0, <2>1
  <2>2. CASE ~UNCHANGED <<forwarding, link>>
    <3>1. Conclude(n, link[n].to) /\ link' = [link EXCEPT ![n].id = (link[n].id + 1) % Ids, ![n].timer = FALSE]
      BY <1>3, <2>2 DEF ReceiveAck
    <3>2. /\ DOMAIN link' = Node /\ \A k \in Node : "timer" \in DOMAIN link'[k]
          /\ \A k \in Node \ {n} : link'[k] = link[k]
      BY <3>1 DEF LinksOK
    <3>3. LinksOK'
      BY <3>1, <3>2, ConcludeFacts DEF LinksOK
    <3>4. ASSUME NEW k \in Node PROVE Busy(k)
      BY <3>1, <3>2, ConcludeFacts, LeftAlone DEF Busy
    <3> QED BY <3>3, <3>4
  <2> QED BY <2>1, <2>2
<1>4. ASSUME NEW n \in Node, Retransmit(n) PROVE Goal
  <2> DEFINE last == link[n].rxmit + 1 >= link[n].packet.max
  <2>1. /\ link' = [link EXCEPT ![n].rxmit = link[n].rxmit + 1, ![n].timer = ~last]
        /\ IF last THEN Conclude(n, link[n].to) ELSE forwarding' = forwarding
    BY <1>4 DEF Retransmit
  <2> HIDE DEF last
  <2>2. /\ DOMAIN link' = Node /\ \A k \in Node : "timer" \in DOMAIN link'[k]
        /\ \A k \in Node \ {n} : link'[k] = link[k]
        /\ link'[n].timer = ~last
    BY <2>1 DEF LinksOK
  <2>3. /\ forwarding' \in [Node -> BOOLEAN]
        /\ last => ~forwarding'[n]
        /\ \A k \in Node \ {n} : forwarding'[k] = forwarding[k]
    BY <2>1, ConcludeFacts DEF LinksOK
  <2>4. LinksOK'
    BY <2>2, <2>3 DEF LinksOK
  <2>5. ASSUME NEW k \in Node PROVE Busy(k)
    BY <2>2, <2>3, LeftAlone DEF Busy
  <2> QED BY <2>4, <2>5
<1>5. ASSUME NEW n \in Node, NEW m \in Node, Age(n, m) \/ Advertise(m, n) PROVE Goal
  BY <1>0, <1>5 DEF Age, Advertise
<1>6. ASSUME NEW n \in Node, NEW b \in BOOLEAN, collect_set_sink(n, b) PROVE Goal
  BY <1>0, <1>6 DEF collect_set_sink
<1>7. CASE UNCHANGED vars
  BY <1>0, <1>7 DEF vars
<1>8. CASE Next
  <2>1. PICK n \in Node :
          \/ collect_send(n) \/ ReceiveData(n) \/ ReceiveAck(n) \/ Retransmit(n)
          \/ \E m \in Node : Age(n, m) \/ Advertise(m, n)
          \/ \E b \in BOOLEAN : collect_set_sink(n, b)
    BY <1>8 DEF Next
  <2> QED BY <1>1, <1>2, <1>3, <1>4, <1>5, <1>6, <2>1
<1> QED
  BY <1>7, <1>8

\* A node that took a packet to forward is released when its connection is done with it,
\* however its own sends, other acknowledgements and changes of the route come in between
\* (collect.c: node_packet_sent, node_packet_timedout).
THEOREM ForwardingIsBusy == Spec => ForwardingMeansBusy
<1>1. Init => LinksOK
  BY DEF Init, LinksOK
<1>2. LinksOK /\ [Next]_vars => LinksOK'
  BY StepKeepsLinks
<1>3. LinksOK /\ [Next]_vars =>
        [\A n \in Node : forwarding'[n] =>
           \/ link'[n].timer
           \/ forwarding[n] /\ ~link[n].timer
           \/ Best(neighbors[n]) = {}
           \/ link'[n].packet = NULL]_vars
  BY StepKeepsLinks DEF Busy
<1> QED
  BY <1>1, <1>2, <1>3, PTL DEF Spec, ForwardingMeansBusy

--------------------------------------------------------------------------------
(* Packets are taken once.                                                      *)

\* A finite set of numbers has a greatest one.
LEMMA GreatestNumber ==
  ASSUME NEW T \in SUBSET Nat, T # {}, IsFiniteSet(T)
  PROVE  Max(T) \in T /\ \A y \in T : y <= Max(T)
<1> DEFINE Has(U) == \E x \in U : \A y \in U : x >= y
           Bad == {U \in SUBSET T : U # {} /\ ~Has(U)}
           Sizes == {Cardinality(U) : U \in Bad}
<1>1. \A U \in SUBSET T : IsFiniteSet(U) /\ Cardinality(U) \in Nat
  BY FS_Subset, FS_CardinalityType
<1>2. Bad = {}
  <2> SUFFICES ASSUME Bad # {} PROVE FALSE
    OBVIOUS
  <2>1. Sizes \in SUBSET Nat /\ Sizes # {}
    BY <1>1
  <2>2. PICK c \in Sizes : \A d \in Sizes : c <= d
    <3> HIDE DEF Sizes
    <3> QED BY <2>1, LeastNumber
  <2>3. PICK U \in Bad : c = Cardinality(U)
    BY <2>2
  <2>4. PICK x \in U : TRUE
    BY <2>3
  <2>5. PICK V : V = U \ {x}
    OBVIOUS
  <2>6. U \in SUBSET T /\ V \in SUBSET T /\ x \in Nat /\ IsFiniteSet(U)
    BY <1>1, <2>3, <2>4, <2>5
  <2>7. Cardinality(V) = Cardinality(U) - 1
    BY <2>4, <2>5, <2>6, FS_RemoveElement
  <2>8. V \notin Bad
    <3>1. ASSUME V \in Bad PROVE FALSE
      <4>1. Cardinality(V) \in Sizes /\ Cardinality(U) \in Nat
        BY <1>1, <2>6, <3>1
      <4> HIDE DEF Sizes
      <4> QED BY <2>2, <2>3, <2>7, <4>1
    <3> QED BY <3>1
  <2>9. CASE V = {}
    <3>1. U = {x}
      BY <2>4, <2>5, <2>9
    <3> QED BY <2>3, <2>6, <3>1
  <2>10. CASE V # {}
    <3>1. PICK m \in V : \A y \in V : m >= y
      BY <2>6, <2>8, <2>10
    <3>2. Has(U)
      <4>1. m \in Nat /\ x \in Nat /\ V \subseteq Nat /\ m \in U /\ \A y \in U : y = x \/ y \in V
        BY <2>5, <2>6, <3>1
      <4>2. CASE m >= x
        BY <3>1, <4>1, <4>2
      <4>3. CASE ~(m >= x)
        <5>1. \A y \in U : x >= y
          BY <3>1, <4>1, <4>3
        <5> QED BY <2>4, <5>1
      <4> QED BY <4>2, <4>3
    <3> QED BY <2>3, <3>2
  <2> QED BY <2>9, <2>10
<1>3. \E x \in T : \A y \in T : x >= y
  BY <1>2
<1>4. Max(T) \in T /\ \A y \in T : Max(T) >= y
  BY <1>3, Zenon DEF Max
<1> QED BY <1>4

LEMMA SentAreNamed ==
  ASSUME NEW n \in Node, NEW k \in Nat, k < ToSend[n]
  PROVE  <<n, k>> \in Name
<1> DEFINE T == {ToSend[m] : m \in Node}
<1>1. ToSend \in [Node -> Nat] /\ IsFiniteSet(Node)
  BY SizeAssumption, NodeAssumption
<1>2. T \in SUBSET Nat /\ T # {} /\ ToSend[n] \in T
  BY <1>1
<1>3. IsFiniteSet(T)
  <2>1. ToSend \in Surjection(Node, T)
    BY <1>1 DEF Surjection
  <2> HIDE DEF T
  <2> QED BY <1>1, <2>1, FS_Surjection
<1>4. Max(T) \in Nat /\ ToSend[n] <= Max(T)
  <2> HIDE DEF T
  <2> QED BY <1>2, <1>3, GreatestNumber
<1>5. k \in 0..Max(T)
  BY <1>1, <1>4
<1> QED BY <1>5 DEF Name

LEMMA NamesAreFinite == IsFiniteSet(Name)
<1>1. CASE Node = {}
  <2>1. Name = {}
    BY <1>1 DEF Name
  <2> QED BY <2>1, FS_EmptySet
<1>2. CASE Node # {}
  <2> DEFINE T == {ToSend[m] : m \in Node}
  <2>1. ToSend \in [Node -> Nat] /\ IsFiniteSet(Node)
    BY SizeAssumption, NodeAssumption
  <2>2. T \in SUBSET Nat /\ T # {}
    BY <1>2, <2>1
  <2>3. IsFiniteSet(T)
    <3>1. ToSend \in Surjection(Node, T)
      BY <2>1 DEF Surjection
    <3> HIDE DEF T
    <3> QED BY <2>1, <3>1, FS_Surjection
  <2>4. Max(T) \in Nat
    <3> HIDE DEF T
    <3> QED BY <2>2, <2>3, GreatestNumber
  <2>5. IsFiniteSet(0..Max(T))
    BY <2>4, FS_Interval
  <2>6. IsFiniteSet(Node \X (0..Max(T)))
    BY <2>1, <2>5, FS_Product
  <2>7. Name \in SUBSET (Node \X (0..Max(T)))
    BY DEF Name
  <2> QED BY <2>6, <2>7, FS_Subset
<1> QED BY <1>1, <1>2

--------------------------------------------------------------------------------
(* What is under way has a name.                                                *)

Links == [timer : BOOLEAN, packet : Packet \cup {NULL}, to : Node \cup {NULL}, rxmit : Nat, id : Nat]
Frames == [type : {"DATA"}, packet : Packet, id : Nat, from : Node]
          \cup [type : {"ACK"}, packet : {NULL}, id : Nat, from : Node]
Named ==
  /\ seqno \in [Node -> Nat]
  /\ link \in [Node -> Links] /\ \A n \in Node : link[n].timer => link[n].packet \in Packet
  /\ air \in [Node -> Seq(Frames)]

\* What a node has in recent_packets while the packets that it took, the set S, are no
\* more than there is room for: the places before the pointer hold just these.
Short(x) == <<x[1], x[2] % PacketIds>>
Holds(cache, taken) ==
  LET S == {x \in Name : taken[x] > 0}
      k == Cardinality(S)
  IN /\ taken \in [Name -> 0..2]
     /\ DOMAIN cache.packets = 1..NumRecent /\ cache.ptr \in 1..NumRecent
     /\ DOMAIN cache = {"packets", "ptr"}
     /\ k <= NumRecent =>
          /\ \A x \in Name : taken[x] <= 1
          /\ k < NumRecent => cache.ptr = k + 1
          /\ \A x \in S : \E i \in 1..k : cache.packets[i] = Short(x)
Caches ==
  /\ DOMAIN recent = Node /\ DOMAIN seen = Node
  /\ \A n \in Node : Holds(recent[n], seen[n])
TakenInv == Named /\ Caches

LEMMA SequenceFacts ==
  ASSUME NEW S, NEW s \in Seq(S)
  PROVE  /\ \A x \in S : Append(s, x) \in Seq(S)
         /\ s # <<>> => Tail(s) \in Seq(S) /\ Head(s) \in S
OBVIOUS

LEMMA AfterFacts ==
  ASSUME NEW a \in [Node -> Seq(Frames)], NEW to, NEW frame \in Frames
  PROVE  \A b \in After(a, to, frame) : b \in [Node -> Seq(Frames)]
<1>1. [a EXCEPT ![to] = Append(a[to], frame)] \in [Node -> Seq(Frames)]
  <2>1. CASE to \in Node
    <3>1. a[to] \in Seq(Frames)
      BY <2>1
    <3>2. PICK s : s = Append(a[to], frame)
      OBVIOUS
    <3>3. s \in Seq(Frames)
      BY <3>1, <3>2, SequenceFacts
    <3> QED BY <3>2, <3>3
  <2>2. CASE to \notin Node
    BY <2>2
  <2> QED BY <2>1, <2>2
<1>2. \A b \in After(a, to, frame) : b = a \/ b = [a EXCEPT ![to] = Append(a[to], frame)]
  BY DEF After
<1> QED BY <1>1, <1>2

LEMMA DataFacts ==
  ASSUME NEW n \in Node, NEW l \in Links, l.packet \in Packet
  PROVE  Data(n, l) \in Frames
BY DEF Data, Frames, Links

LEMMA SendFacts ==
  ASSUME Named, NEW n \in Node, NEW to \in Node, NEW packet \in Packet, NEW flag,
         NEW a \in [Node -> Seq(Frames)], runicast_send(n, to, packet, flag, a)
  PROVE  /\ air' \in [Node -> Seq(Frames)]
         /\ link' \in [Node -> Links] /\ \A k \in Node : link'[k].timer => link'[k].packet \in Packet
<1>1. PICK t \in BOOLEAN : t = (packet.max > 1)
  <2>1. packet.max \in Nat
    <3>1. Attempts \subseteq Nat
      BY SizeAssumption
    <3> QED BY <3>1 DEF Packet
  <2>2. (packet.max > 1) \in BOOLEAN
    BY <2>1
  <2> QED BY <2>2
<1>2. PICK l : l = [link[n] EXCEPT !.timer = t, !.packet = packet, !.to = to, !.rxmit = 1]
  OBVIOUS
<1>3. l \in Links /\ l.packet = packet
  BY <1>1, <1>2 DEF Named, Links
<1>4. CASE link' = [link EXCEPT ![n] = l] /\ air' \in After(a, to, Data(n, l))
  <2>1. air' \in [Node -> Seq(Frames)]
    BY <1>3, <1>4, DataFacts, AfterFacts
  <2> QED BY <1>3, <1>4, <2>1 DEF Named
<1>5. CASE link' = [link EXCEPT ![n].rxmit = 0] /\ air' = a
  <2>1. PICK k : k = [link[n] EXCEPT !.rxmit = 0]
    OBVIOUS
  <2>2. k \in Links /\ k.packet = link[n].packet /\ k.timer = link[n].timer
    BY <2>1 DEF Named, Links
  <2>3. link' = [link EXCEPT ![n] = k]
    BY <1>5, <2>1
  <2> QED BY <1>5, <2>2, <2>3 DEF Named
<1> QED BY <1>1, <1>2, <1>4, <1>5, Zenon DEF runicast_send

LEMMA BestFacts ==
  ASSUME TablesOK, NEW n \in Node
  PROVE  Best(neighbors[n]) \subseteq Node
BY TableFacts DEF Best, TablesOK

LEMMA TakenFacts ==
  ASSUME Named, NEW n \in Node, air[n] # <<>>
  PROVE  Taken(n) \in [Node -> Seq(Frames)] /\ Head(air[n]) \in Frames
<1>1. air[n] \in Seq(Frames)
  BY DEF Named
<1>2. PICK t : t = Tail(air[n])
  OBVIOUS
<1>3. t \in Seq(Frames) /\ Head(air[n]) \in Frames
  BY <1>1, <1>2, SequenceFacts
<1> QED BY <1>2, <1>3 DEF Taken, Named

LEMMA StepKeepsNames ==
  ASSUME Named, TablesOK, [Next]_vars
  PROVE  Named'
<1>0. ASSUME UNCHANGED <<seqno, link, air>> PROVE Named'
  BY <1>0 DEF Named
<1>1. ASSUME NEW n \in Node, collect_send(n) PROVE Named'
  <2>1. seqno[n] \in Nat /\ seqno[n] < ToSend[n] /\ seqno' = [seqno EXCEPT ![n] = seqno[n] + 1]
    BY <1>1 DEF collect_send, Named
  <2>2. seqno' \in [Node -> Nat]
    BY <2>1 DEF Named
  <2>3. CASE UNCHANGED <<link, air>>
    BY <2>2, <2>3 DEF Named
  <2>4. ASSUME NEW m \in Best(neighbors[n]), NEW max \in Attempts,
               runicast_send(n, m, [name |-> <<n, seqno[n]>>, ttl |-> MaxHopLim, max |-> max], forwarding, air)
        PROVE  Named'
    <3>1. PICK p : p = [name |-> <<n, seqno[n]>>, ttl |-> MaxHopLim, max |-> max]
      OBVIOUS
    <3>2. p \in Packet
      <4>1. <<n, seqno[n]>> \in Name
        BY <2>1, SentAreNamed
      <4>2. MaxHopLim \in 1..MaxHopLim
        BY SizeAssumption
      <4> QED BY <3>1, <4>1, <4>2 DEF Packet
    <3>3. m \in Node /\ runicast_send(n, m, p, forwarding, air)
      BY <2>4, <3>1, BestFacts
    <3> QED BY <2>2, <3>2, <3>3, SendFacts DEF Named
  <2> QED BY <1>1, <2>3, <2>4, Zenon DEF collect_send
<1>2. ASSUME NEW n \in Node, ReceiveData(n) PROVE Named'
  <2>1. PICK frame, p : frame = Head(air[n]) /\ p = frame.packet
    OBVIOUS
  <2>2. frame \in Frames /\ frame.type = "DATA" /\ Taken(n) \in [Node -> Seq(Frames)] /\ UNCHANGED seqno
    BY <1>2, <2>1, TakenFacts DEF ReceiveData
  <2>3. p \in Packet /\ frame.id \in Nat /\ frame.from \in Node
    BY <2>1, <2>2 DEF Frames
  <2>4. PICK ack : ack = [type |-> "ACK", packet |-> NULL, id |-> frame.id, from |-> n]
    OBVIOUS
  <2>5. ack \in Frames
    BY <2>3, <2>4 DEF Frames
  <2>6. PICK a \in After(Taken(n), frame.from, ack) :
          \/ air' = a /\ UNCHANGED link
          \/ Forwards(n, p) /\ Forward(n, p, a)
    BY <1>2, <2>1, <2>4, Zenon DEF ReceiveData
  <2>7. a \in [Node -> Seq(Frames)]
    BY <2>2, <2>5, AfterFacts
  <2>8. CASE air' = a /\ UNCHANGED link
    BY <2>2, <2>7, <2>8 DEF Named
  <2>9. CASE Forwards(n, p) /\ Forward(n, p, a)
    <3>1. CASE air' = a /\ UNCHANGED link
      BY <2>8, <3>1
    <3>2. ASSUME NEW m \in Best(neighbors[n]), NEW flag,
                 runicast_send(n, m, [p EXCEPT !.ttl = p.ttl - 1], flag, a)
          PROVE  Named'
      <4>1. PICK q : q = [p EXCEPT !.ttl = p.ttl - 1]
        OBVIOUS
      <4>2. q \in Packet
        <5>1. p.ttl \in 1..MaxHopLim /\ p.ttl > 1
          BY <2>3, <2>9 DEF Forwards, Packet
        <5>2. p.ttl - 1 \in 1..MaxHopLim
          BY <5>1, SizeAssumption
        <5> QED BY <2>3, <4>1, <5>2 DEF Packet
      <4>3. runicast_send(n, m, q, flag, a) /\ m \in Node
        BY <3>2, <4>1, BestFacts
      <4> QED BY <2>2, <2>7, <4>2, <4>3, SendFacts DEF Named
    <3> QED BY <2>9, <3>1, <3>2, Zenon DEF Forward
  <2> QED BY <2>6, <2>8, <2>9
<1>3. ASSUME NEW n \in Node, ReceiveAck(n) PROVE Named'
  <2>1. air' \in [Node -> Seq(Frames)] /\ UNCHANGED seqno
    BY <1>3, TakenFacts DEF ReceiveAck
  <2>2. CASE UNCHANGED link
    BY <2>1, <2>2 DEF Named
  <2>3. CASE link' = [link EXCEPT ![n].id = (link[n].id + 1) % Ids, ![n].timer = FALSE]
    <3>1. PICK i : i = (link[n].id + 1) % Ids
      OBVIOUS
    <3>2. i \in Nat
      BY <3>1, SizeAssumption DEF Named, Links
    <3>3. PICK l : l = [link[n] EXCEPT !.id = i, !.timer = FALSE]
      OBVIOUS
    <3>4. l \in Links /\ ~l.timer
      BY <3>2, <3>3 DEF Named, Links
    <3>5. link' = [link EXCEPT ![n] = l]
      <4>1. link \in [Node -> Links]
        BY DEF Named
      <4>2. link' = [link EXCEPT ![n].id = i, ![n].timer = FALSE]
        BY <2>3, <3>1
      <4> QED BY <3>3, <4>1, <4>2 DEF Links
    <3> QED BY <2>1, <3>4, <3>5 DEF Named
  <2> QED BY <1>3, <2>2, <2>3 DEF ReceiveAck
<1>4. ASSUME NEW n \in Node, Retransmit(n) PROVE Named'
  <2>1. link[n] \in Links /\ link[n].timer /\ link[n].packet \in Packet /\ UNCHANGED seqno
    BY <1>4 DEF Retransmit, Named
  <2>2. air' \in [Node -> Seq(Frames)]
    <3>1. air' \in After(air, link[n].to, Data(n, link[n]))
      BY <1>4 DEF Retransmit
    <3> QED BY <2>1, <3>1, DataFacts, AfterFacts DEF Named
  <2>3. PICK t \in BOOLEAN : t = ~(link[n].rxmit + 1 >= link[n].packet.max)
    OBVIOUS
  <2>4. PICK r : r = link[n].rxmit + 1
    OBVIOUS
  <2>5. r \in Nat
    BY <2>1, <2>4 DEF Links
  <2>6. PICK l : l = [link[n] EXCEPT !.rxmit = r, !.timer = t]
    OBVIOUS
  <2>7. l \in Links /\ l.packet \in Packet
    BY <2>1, <2>3, <2>6, <2>5 DEF Links
  <2>8. link' = [link EXCEPT ![n] = l]
    <3>1. link \in [Node -> Links]
      BY DEF Named
    <3>2. link' = [link EXCEPT ![n].rxmit = r, ![n].timer = t]
      BY <1>4, <2>3, <2>4 DEF Retransmit
    <3> QED BY <2>6, <3>1, <3>2 DEF Links
  <2> QED BY <2>1, <2>2, <2>7, <2>8 DEF Named
<1>5. ASSUME NEW n \in Node, NEW m \in Node, Age(n, m) \/ Advertise(m, n) PROVE Named'
  BY <1>0, <1>5 DEF Age, Advertise
<1>6. ASSUME NEW n \in Node, NEW b \in BOOLEAN, collect_set_sink(n, b) PROVE Named'
  BY <1>0, <1>6 DEF collect_set_sink
<1>7. CASE UNCHANGED vars
  BY <1>0, <1>7 DEF vars
<1> QED BY <1>1, <1>2, <1>3, <1>4, <1>5, <1>6, <1>7 DEF Next

--------------------------------------------------------------------------------
(* The cache.                                                                   *)

LEMMA OneMore ==
  ASSUME NEW v \in 0..2
  PROVE  Min({v + 1, 2}) \in 1..2 /\ (v = 0 => Min({v + 1, 2}) = 1)
<1> DEFINE T == {v + 1, 2}
<1>1. \E x \in T : \A y \in T : x <= y
  BY LeastNumber
<1>2. PICK m : m \in T /\ (\A y \in T : m <= y) /\ m = Min(T)
  BY <1>1, Zenon DEF Min
<1>3. m \in 1..2 /\ (v = 0 => m = 1)
  BY <1>2
<1> QED BY <1>2, <1>3

LEMMA NextPtrFacts ==
  ASSUME NEW i \in 1..NumRecent
  PROVE  NextPtr(i) \in 1..NumRecent /\ (i < NumRecent => NextPtr(i) = i + 1)
<1>1. NumRecent \in Nat \ {0}
  BY SizeAssumption
<1>2. i % NumRecent \in 0..(NumRecent - 1) /\ (i < NumRecent => i % NumRecent = i)
  BY <1>1
<1> QED BY <1>1, <1>2 DEF NextPtr

\* A packet that the cache does not hold is put behind those it holds.
LEMMA HoldsOneMore ==
  ASSUME NEW cache, NEW taken, Holds(cache, taken), NEW x \in Name,
         \A i \in 1..NumRecent : cache.packets[i] # Short(x)
  PROVE  Holds([cache EXCEPT !.packets = [cache.packets EXCEPT ![cache.ptr] = Short(x)],
                             !.ptr = NextPtr(cache.ptr)],
               [taken EXCEPT ![x] = Min({taken[x] + 1, 2})])
<1> DEFINE S == {y \in Name : taken[y] > 0}
           k == Cardinality(S)
<1>1. PICK T : T = S \cup {x}
  OBVIOUS
<1>2. IsFiniteSet(S) /\ S \subseteq T /\ T \subseteq Name /\ IsFiniteSet(T)
  BY <1>1, NamesAreFinite, FS_Subset
<1>3. k \in Nat /\ NumRecent \in Nat /\ Cardinality(T) \in Nat /\ k <= Cardinality(T)
  BY <1>2, FS_Subset, FS_CardinalityType, SizeAssumption
<1>4. PICK v : v = Min({taken[x] + 1, 2})
  OBVIOUS
<1>5. taken \in [Name -> 0..2] /\ v \in 1..2 /\ (taken[x] = 0 => v = 1)
  <2>1. taken \in [Name -> 0..2]
    BY DEF Holds
  <2>2. taken[x] \in 0..2
    BY <2>1
  <2> QED BY <1>4, <2>1, <2>2, OneMore
<1>6. PICK t : t = [taken EXCEPT ![x] = v]
  OBVIOUS
<1>7. t \in [Name -> 0..2] /\ T = {y \in Name : t[y] > 0}
  BY <1>1, <1>5, <1>6
<1>8. cache.ptr \in 1..NumRecent /\ DOMAIN cache.packets = 1..NumRecent
  BY Zenon DEF Holds
<1>9. PICK f : f = [cache.packets EXCEPT ![cache.ptr] = Short(x)]
  OBVIOUS
<1>10. PICK c : c = [cache EXCEPT !.packets = f, !.ptr = NextPtr(cache.ptr)]
  OBVIOUS
<1>11. c.packets = f /\ c.ptr = NextPtr(cache.ptr) /\ DOMAIN c = {"packets", "ptr"}
  BY <1>10 DEF Holds
<1>12. DOMAIN f = 1..NumRecent /\ c.ptr \in 1..NumRecent
  BY <1>8, <1>9, <1>11, NextPtrFacts
<1>13. ASSUME Cardinality(T) <= NumRecent
       PROVE  /\ \A y \in Name : t[y] <= 1
              /\ Cardinality(T) < NumRecent => c.ptr = Cardinality(T) + 1
              /\ \A y \in T : \E i \in 1..Cardinality(T) : c.packets[i] = Short(y)
  <2>1. k <= NumRecent
    <3> HIDE DEF k
    <3> QED BY <1>3, <1>13
  <2>2. /\ \A y \in Name : taken[y] <= 1
        /\ k < NumRecent => cache.ptr = k + 1
        /\ \A y \in S : \E i \in 1..k : cache.packets[i] = Short(y)
    BY <2>1, Zenon DEF Holds
  <2>3. x \notin S
    <3> SUFFICES ASSUME x \in S PROVE FALSE
      OBVIOUS
    <3>1. PICK i \in 1..k : cache.packets[i] = Short(x)
      BY <2>2
    <3> HIDE DEF k
    <3>2. i \in 1..NumRecent
      BY <1>3, <2>1
    <3> QED BY <3>1, <3>2
  <2>4. Cardinality(T) = k + 1
    BY <1>1, <1>2, <2>3, FS_AddElement
  <2> HIDE DEF k
  <2>5. k < NumRecent /\ cache.ptr = k + 1
    BY <1>3, <1>13, <2>2, <2>4
  <2>6. taken[x] = 0
    BY <1>5, <2>3
  <2>7. \A y \in Name : t[y] <= 1
    BY <1>5, <1>6, <2>2, <2>6
  <2>8. f[k + 1] = Short(x) /\ \A i \in 1..k : f[i] = cache.packets[i]
    BY <1>3, <1>8, <1>9, <2>5
  <2>9. Cardinality(T) < NumRecent => c.ptr = Cardinality(T) + 1
    BY <1>3, <1>8, <1>11, <2>4, <2>5, NextPtrFacts
  <2>10. ASSUME NEW y \in T PROVE \E i \in 1..Cardinality(T) : c.packets[i] = Short(y)
    <3>1. CASE y = x
      <4>1. k + 1 \in 1..Cardinality(T)
        BY <1>3, <2>4
      <4> QED BY <1>11, <2>8, <3>1, <4>1
    <3>2. CASE y # x
      <4>1. PICK i \in 1..k : cache.packets[i] = Short(y)
        BY <1>1, <2>2, <2>10, <3>2
      <4>2. i \in 1..Cardinality(T)
        BY <1>3, <2>4
      <4> QED BY <1>11, <2>8, <4>1, <4>2
    <3> QED BY <3>1, <3>2
  <2> QED BY <2>7, <2>9, <2>10
<1>14. Holds(c, t)
  BY <1>7, <1>11, <1>12, <1>13, Zenon DEF Holds
<1> QED BY <1>4, <1>6, <1>9, <1>10, <1>14

LEMMA RememberKeeps ==
  ASSUME Caches, NEW n \in Node, NEW p \in Packet, ~Duplicate(n, p), Remember(n, p)
  PROVE  Caches'
<1>1. p.name \in Name /\ Id(p) = Short(p.name)
  BY DEF Packet, Id, Short
<1>2. PICK cache, taken : cache = recent[n] /\ taken = seen[n]
  OBVIOUS
<1>3. Holds(cache, taken)
  BY <1>2 DEF Caches
<1>4. \A i \in 1..NumRecent : cache.packets[i] # Short(p.name)
  BY <1>1, <1>2, <1>3 DEF Duplicate, Range, Holds
<1>5. PICK c : c = [cache EXCEPT !.packets = [cache.packets EXCEPT ![cache.ptr] = Short(p.name)],
                                 !.ptr = NextPtr(cache.ptr)]
  OBVIOUS
<1>6. PICK t : t = [taken EXCEPT ![p.name] = Min({taken[p.name] + 1, 2})]
  OBVIOUS
<1>7. Holds(c, t)
  BY <1>1, <1>3, <1>4, <1>5, <1>6, HoldsOneMore
<1>8. recent' = [recent EXCEPT ![n] = c]
  <2>1. recent' = [recent EXCEPT ![n].packets[recent[n].ptr] = Short(p.name),
                                 ![n].ptr = NextPtr(recent[n].ptr)]
    BY <1>1 DEF Remember
  <2>2. DOMAIN recent = Node /\ DOMAIN recent[n] = {"packets", "ptr"}
    BY <1>2, <1>3 DEF Caches, Holds
  <2> QED BY <1>2, <1>5, <2>1, <2>2
<1>9. seen' = [seen EXCEPT ![n] = t]
  <2>1. seen' = [seen EXCEPT ![n][p.name] = Min({seen[n][p.name] + 1, 2})]
    BY DEF Remember
  <2>2. \A m : seen' = [seen EXCEPT ![n][p.name] = m] => seen' = [seen EXCEPT ![n] = [taken EXCEPT ![p.name] = m]]
    BY <1>2 DEF Caches
  <2>3. seen[n][p.name] = taken[p.name]
    BY <1>2
  <2> QED BY <1>6, <2>1, <2>2, <2>3
<1>10. DOMAIN recent' = Node /\ DOMAIN seen' = Node
  BY <1>8, <1>9 DEF Caches
<1>11. ASSUME NEW m \in Node PROVE Holds(recent'[m], seen'[m])
  <2>1. CASE m = n
    BY <1>7, <1>8, <1>9, <2>1 DEF Caches
  <2>2. CASE m # n
    <3>1. recent'[m] = recent[m] /\ seen'[m] = seen[m]
      BY <1>8, <1>9, <2>2 DEF Caches
    <3> QED BY <3>1 DEF Caches
  <2> QED BY <2>1, <2>2
<1> QED BY <1>10, <1>11 DEF Caches

LEMMA StepKeepsCaches ==
  ASSUME TakenInv, TablesOK, [Next]_vars
  PROVE  TakenInv'
<1>0. ASSUME UNCHANGED <<recent, seen>> PROVE Caches'
  BY <1>0 DEF TakenInv, Caches
<1>1. ASSUME NEW n \in Node, collect_send(n) PROVE Caches'
  BY <1>0, <1>1 DEF collect_send
<1>2. ASSUME NEW n \in Node, ReceiveData(n) PROVE Caches'
  <2>1. PICK p : p = Head(air[n]).packet
    OBVIOUS
  <2>2. p \in Packet
    <3>1. Head(air[n]) \in Frames /\ Head(air[n]).type = "DATA"
      BY <1>2, TakenFacts DEF ReceiveData, TakenInv
    <3> QED BY <2>1, <3>1 DEF Frames
  <2>3. UNCHANGED <<recent, seen>> \/ (~Duplicate(n, p) /\ Remember(n, p))
    BY <1>2, <2>1, Zenon DEF ReceiveData
  <2> QED BY <1>0, <2>2, <2>3, RememberKeeps DEF TakenInv
<1>3. ASSUME NEW n \in Node, ReceiveAck(n) PROVE Caches'
  BY <1>0, <1>3 DEF ReceiveAck
<1>4. ASSUME NEW n \in Node, Retransmit(n) PROVE Caches'
  BY <1>0, <1>4 DEF Retransmit
<1>5. ASSUME NEW n \in Node, NEW m \in Node, Age(n, m) \/ Advertise(m, n) PROVE Caches'
  BY <1>0, <1>5 DEF Age, Advertise
<1>6. ASSUME NEW n \in Node, NEW b \in BOOLEAN, collect_set_sink(n, b) PROVE Caches'
  BY <1>0, <1>6 DEF collect_set_sink
<1>7. ASSUME UNCHANGED vars PROVE Caches'
  BY <1>0, <1>7 DEF vars
<1>8. Caches'
  BY <1>1, <1>2, <1>3, <1>4, <1>5, <1>6, <1>7 DEF Next
<1> QED BY <1>8, StepKeepsNames DEF TakenInv

LEMMA InitCaches == Init => TakenInv
<1> SUFFICES ASSUME Init PROVE TakenInv
  OBVIOUS
<1>1. Named
  BY SizeAssumption DEF Init, Named, Links
<1>2. ASSUME NEW n \in Node PROVE Holds(recent[n], seen[n])
  <2>1. PICK cache, taken : cache = recent[n] /\ taken = seen[n]
    OBVIOUS
  <2>2. /\ taken = [x \in Name |-> 0]
        /\ cache = [packets |-> [i \in 1..NumRecent |-> NULL], ptr |-> 1]
    BY <2>1 DEF Init
  <2>3. {x \in Name : taken[x] > 0} = {} /\ taken \in [Name -> 0..2]
    BY <2>2
  <2>4. \A x \in Name : taken[x] <= 1
    BY <2>2
  <2>5. /\ DOMAIN cache.packets = 1..NumRecent /\ cache.ptr = 1 /\ cache.ptr \in 1..NumRecent
        /\ DOMAIN cache = {"packets", "ptr"}
    BY <2>2, SizeAssumption
  <2>6. Holds(cache, taken)
    <3> DEFINE S == {x \in Name : taken[x] > 0}
               k == Cardinality(S)
    <3>1. S = {} /\ k = 0
      BY <2>3, FS_EmptySet
    <3> HIDE DEF S
    <3>2. k < NumRecent => cache.ptr = k + 1
      BY <2>5, <3>1
    <3>3. \A x \in S : \E i \in 1..k : cache.packets[i] = Short(x)
      BY <3>1
    <3> QED BY <2>3, <2>4, <2>5, <3>2, <3>3, Zenon DEF Holds, S
  <2> QED BY <2>1, <2>6
<1>3. DOMAIN recent = Node /\ DOMAIN seen = Node
  BY DEF Init
<1> QED BY <1>1, <1>2, <1>3 DEF TakenInv, Caches

\* Copies of a packet, sent again or come along another way, are recognised by every node
\* they reach, whatever passes the other nodes, as long as no more packets passed this one
\* than recent_packets has places (collect.c: node_packet_received).
THEOREM TakenOnceWhileFewPass == Spec => []TakenOnce
<1>1. SinkInv /\ TakenInv /\ [Next]_vars => SinkInv' /\ TakenInv'
  BY StepKeepsSinks, StepKeepsCaches DEF SinkInv
<1>2. TakenInv => TakenOnce
  BY Zenon DEF TakenInv, Caches, Holds, Passed, TakenOnce
<1>3. Init => SinkInv /\ TakenInv
  BY InitSinks, InitCaches
<1> QED
  BY <1>1, <1>2, <1>3, PTL DEF Spec

================================================================================
