----------------------------- MODULE UnicastProofs -----------------------------
(***************************************************************************)
(* Theorems about reliable unicast, for any number of nodes, channels and  *)
(* buffers, and programs that do not open a connection again: how the      *)
(* connections of a node share its queue buffers, the types of its state,  *)
(* and that each handler is a step of PacketTransfer or changes nothing    *)
(* that programs see.                                                      *)
(***************************************************************************)
EXTENDS ReliableUnicast, FiniteSetTheorems, WellFoundedInduction, TLAPS

\* A set of numbers has a least one.
LEMMA LeastNumber ==
  ASSUME NEW T \in SUBSET Nat, T # {}
  PROVE  \E x \in T : \A y \in T : x <= y
<1> DEFINE R == {r \in Nat \X Nat : r[1] < r[2]}
<1>1. IsWellFoundedOn(R, Nat)
  BY NatLessThanWellFounded, Zenon DEF OpToRel
<1>2. \A x, y \in Nat : <<x, y>> \notin R => y <= x
  OBVIOUS
<1> HIDE DEF R
<1>3. PICK x \in T : \A y \in T : ~(<<y, x>> \in R)
  BY <1>1, WFMin
<1> QED BY <1>2, <1>3

--------------------------------------------------------------------------------
(* The invariant.                                                               *)

Conns == Node \X Channel

ConnType == [state : {"new", "open", "closed"}, buf : Buffer \cup {0}, to : Node,
             timer : BOOLEAN, rxmit : Nat, max : Nat, sndnxt : Id]

Typed ==
  /\ conn \in [Conns -> ConnType]
  /\ block \in [Node -> [Buffer -> Block]]
  /\ given \in [Conns -> Packet \cup {NULL}]

\* Connection c holds block b of its node.
Holds(c, b) == conn[c].state = "open" /\ conn[c].buf = b

\* A block has one holder, or none and is free.
OneHolder ==
  /\ \A c \in Conns, b \in Buffer : Holds(c, b) => block[c[1]][b].used
  /\ \A c, d \in Conns, b \in Buffer : c[1] = d[1] /\ Holds(c, b) /\ Holds(d, b) => c = d
  /\ \A n \in Node, b \in Buffer : block[n][b].used => \E c \in Conns : c[1] = n /\ Holds(c, b)

\* A connection that was never opened has no block, and one that is not open no timer.
Fresh ==
  \A c \in Conns :
    /\ conn[c].state = "new" => conn[c].buf = 0
    /\ conn[c].timer => conn[c].state = "open"

PoolInv == Typed /\ OneHolder /\ Fresh /\ SendsOwnPacket

--------------------------------------------------------------------------------
(* The pool.                                                                    *)

LEMMA ModRange == \A n \in Nat \ {0} : \A k \in Nat : k % n \in 0..(n - 1)
  BY SMT

LEMMA IdFacts == 0 \in Id /\ \A i \in Id : NextId(i) \in Id
<1>1. Ids \in Nat \ {0}
  BY SizeAssumption
<1>2. ASSUME NEW i \in Id PROVE NextId(i) \in Id
  <2>1. i + 1 \in Nat
    BY <1>1 DEF Id
  <2>2. (i + 1) % Ids \in 0..(Ids - 1)
    BY <1>1, <2>1, ModRange
  <2> QED BY <2>2 DEF NextId, Id
<1> QED
  BY <1>1, <1>2 DEF Id

LEMMA ConnFacts == \A c \in Conns : c[1] \in Node /\ c[2] \in Channel /\ c = <<c[1], c[2]>>
  BY DEF Conns

LEMMA AllocFacts ==
  ASSUME NEW blocks
  PROVE  /\ Alloc(blocks) \in Buffer \cup {0}
         /\ Alloc(blocks) # 0 => ~blocks[Alloc(blocks)].used
         /\ (\E b \in Buffer : ~blocks[b].used) => Alloc(blocks) # 0
<1>1. /\ Alloc(blocks) \in Buffer \cup {0}
      /\ Alloc(blocks) # 0 => ~blocks[Alloc(blocks)].used
  BY DEF Alloc, FirstFree
<1>2. ASSUME NEW f \in Buffer, ~blocks[f].used PROVE Alloc(blocks) # 0
  <2> DEFINE T == {b \in Buffer : ~blocks[b].used}
  <2>1. T \in SUBSET Nat /\ T # {}
    BY <1>2 DEF Buffer
  <2>2. PICK x \in T : \A y \in T : x <= y
    BY <2>1, LeastNumber
  <2>3. ASSUME NEW a \in 1..(x - 1) PROVE blocks[a].used
    <3>1. a \in Buffer /\ ~(x <= a)
      BY SizeAssumption DEF Buffer
    <3> QED BY <2>2, <3>1
  <2>4. x \in FirstFree(blocks)
    BY <2>3 DEF FirstFree
  <2> QED BY <2>4 DEF Alloc, FirstFree, Buffer
<1> QED
  BY <1>1, <1>2

LEMMA FreeFacts ==
  ASSUME NEW blocks \in [Buffer -> Block], NEW b \in Buffer \cup {0}
  PROVE  /\ Free(blocks, b) \in [Buffer -> Block]
         /\ \A a \in Buffer \ {b} : Free(blocks, b)[a] = blocks[a]
         /\ b # 0 => ~Free(blocks, b)[b].used
<1>1. CASE b = 0
  BY <1>1 DEF Free
<1>2. CASE b # 0
  <2> DEFINE e == [blocks[b] EXCEPT !.used = FALSE]
  <2>1. e \in Block /\ ~e.used
    BY <1>2 DEF Block
  <2>2. Free(blocks, b) = [blocks EXCEPT ![b] = e]
    BY <1>2 DEF Free
  <2> HIDE DEF e
  <2> QED BY <1>2, <2>1, <2>2
<1> QED
  BY <1>1, <1>2

--------------------------------------------------------------------------------
(* Steps that keep the pool.                                                    *)

\* A step that changes one connection, which keeps its block, and nothing in the pool.
LEMMA SameBlock ==
  ASSUME PoolInv, NEW c \in Conns, NEW d \in ConnType, conn' = [conn EXCEPT ![c] = d],
         d.state = conn[c].state \/ (conn[c].state = "new" /\ d.state = "open"),
         d.buf = conn[c].buf, d.timer => conn[c].timer /\ d.sndnxt = conn[c].sndnxt,
         UNCHANGED <<block, given>>
  PROVE  PoolInv'
<1>1. /\ conn' \in [Conns -> ConnType]
      /\ \A k \in Conns : conn'[k] = IF k = c THEN d ELSE conn[k]
  BY DEF PoolInv, Typed
<1>2. \A k \in Conns, b \in Buffer : Holds(k, b)' <=> Holds(k, b)
  BY <1>1 DEF PoolInv, Holds, Fresh, Buffer
<1>3. Typed' /\ OneHolder'
  BY <1>1, <1>2 DEF PoolInv, Typed, OneHolder
<1>4. Fresh'
  BY <1>1 DEF PoolInv, Fresh
<1>5. SendsOwnPacket'
  BY <1>1 DEF PoolInv, SendsOwnPacket, Conns
<1> QED
  BY <1>3, <1>4, <1>5 DEF PoolInv

\* A step that frees the block of an open connection c and gives it block b, or none (0):
\* the other connections of the node keep theirs.
LEMMA OtherBlock ==
  ASSUME PoolInv, NEW c \in Conns, conn[c].state = "open",
         NEW freed, freed = Free(block[c[1]], conn[c].buf),
         NEW b \in Buffer \cup {0}, b # 0 => ~freed[b].used,
         NEW d \in ConnType, conn' = [conn EXCEPT ![c] = d],
         (d.state = "open" /\ d.buf = b) \/ (d.state = "closed" /\ b = 0),
         NEW new \in Block, new.used,
         block' = [block EXCEPT ![c[1]] = IF b = 0 THEN freed ELSE [freed EXCEPT ![b] = new]],
         given' \in [Conns -> Packet \cup {NULL}], \A k \in Conns \ {c} : given'[k] = given[k],
         d.timer => /\ d.state = "open" /\ b # 0
                    /\ new = [used |-> TRUE, m |-> given'[c], id |-> d.sndnxt]
  PROVE  PoolInv'
<1> DEFINE n == c[1]
           old == conn[c].buf
<1>1. /\ n \in Node /\ block[n] \in [Buffer -> Block] /\ old \in Buffer \cup {0}
      /\ conn[c] \in ConnType
  BY ConnFacts DEF PoolInv, Typed, ConnType
<1>2. /\ freed \in [Buffer -> Block]
      /\ \A x \in Buffer \ {old} : freed[x] = block[n][x]
      /\ old # 0 => ~freed[old].used
  <2>1. freed = Free(block[n], old)
    OBVIOUS
  <2> HIDE DEF n, old
  <2> QED BY <1>1, <2>1, FreeFacts
<1>3. /\ conn' \in [Conns -> ConnType]
      /\ \A k \in Conns : conn'[k] = IF k = c THEN d ELSE conn[k]
  BY DEF PoolInv, Typed
<1>4. /\ block' \in [Node -> [Buffer -> Block]]
      /\ \A k \in Node \ {n} : block'[k] = block[k]
      /\ \A x \in Buffer : block'[n][x] = IF x = b THEN new ELSE freed[x]
  <2> DEFINE row == IF b = 0 THEN freed ELSE [freed EXCEPT ![b] = new]
  <2>1. /\ row \in [Buffer -> Block]
        /\ \A x \in Buffer : row[x] = IF x = b THEN new ELSE freed[x]
    BY <1>2, SizeAssumption DEF Buffer
  <2>2. block' = [block EXCEPT ![n] = row]
    OBVIOUS
  <2> HIDE DEF row
  <2> QED BY <1>1, <2>1, <2>2, ZenonT(40) DEF PoolInv, Typed
<1> HIDE DEF n, old
<1>5. Typed'
  BY <1>3, <1>4 DEF Typed
<1>6. \A x \in Buffer : Holds(c, x) <=> x = old
  BY DEF Holds, old
<1>7. \A x \in Buffer : Holds(c, x)' <=> x = b
  BY <1>3, SizeAssumption DEF Holds, Buffer
<1>8. \A k \in Conns \ {c}, x \in Buffer : Holds(k, x)' <=> Holds(k, x)
  BY <1>3 DEF Holds
<1>9. ASSUME NEW k \in Conns \ {c}, NEW x \in Buffer, Holds(k, x)
      PROVE  x # b \/ k[1] # n
  <2> SUFFICES ASSUME k[1] = n, x = b PROVE FALSE
    OBVIOUS
  <2>1. ~Holds(c, x)
    BY <1>9 DEF PoolInv, OneHolder, n
  <2>2. freed[x] = block[n][x]
    BY <1>2, <1>6, <2>1
  <2>3. block[n][x].used
    BY <1>9 DEF PoolInv, OneHolder
  <2> QED BY <2>2, <2>3, SizeAssumption DEF Buffer
<1>10. ASSUME NEW k \in Conns \ {c}, NEW x \in Buffer, Holds(k, x)
       PROVE  block'[k[1]][x] = block[k[1]][x] /\ block[k[1]][x].used
  <2>1. block[k[1]][x].used /\ k[1] \in Node
    BY <1>10, ConnFacts DEF PoolInv, OneHolder
  <2>2. CASE k[1] # n
    BY <1>4, <2>1, <2>2
  <2>3. CASE k[1] = n
    <3>1. ~Holds(c, x)
      BY <1>10, <2>3 DEF PoolInv, OneHolder, n
    <3>2. freed[x] = block[n][x]
      BY <1>2, <1>6, <3>1
    <3>3. x # b
      BY <1>9, <1>10, <2>3
    <3> QED BY <1>4, <2>1, <2>3, <3>2, <3>3
  <2> QED BY <2>2, <2>3
<1>11. OneHolder'
  <2>1. ASSUME NEW k \in Conns, NEW x \in Buffer, Holds(k, x)'
        PROVE  block'[k[1]][x].used
    BY <1>4, <1>7, <1>8, <1>10, <2>1 DEF n
  <2>2. ASSUME NEW k \in Conns, NEW l \in Conns, NEW x \in Buffer, k[1] = l[1],
               Holds(k, x)', Holds(l, x)'
        PROVE  k = l
    <3>1. CASE k = c
      BY <1>7, <1>8, <1>9, <2>2, <3>1 DEF n
    <3>2. CASE l = c
      BY <1>7, <1>8, <1>9, <2>2, <3>2 DEF n
    <3>3. CASE k # c /\ l # c
      BY <1>8, <2>2, <3>3 DEF PoolInv, OneHolder
    <3> QED BY <3>1, <3>2, <3>3
  <2>3. ASSUME NEW k \in Node, NEW x \in Buffer, block'[k][x].used
        PROVE  \E l \in Conns : l[1] = k /\ Holds(l, x)'
    <3>1. CASE k = n /\ x = b
      BY <1>7, <3>1 DEF n
    <3>2. CASE k # n
      <4>1. block[k][x].used
        BY <1>4, <2>3, <3>2
      <4>2. PICK l \in Conns : l[1] = k /\ Holds(l, x)
        BY <4>1 DEF PoolInv, OneHolder
      <4> QED BY <1>8, <3>2, <4>2 DEF n
    <3>3. CASE k = n /\ x # b
      <4>1. freed[x].used
        BY <1>4, <2>3, <3>3
      <4>2. x # old
        BY <1>2, <4>1, SizeAssumption DEF Buffer
      <4>3. block[n][x].used
        BY <1>2, <4>1, <4>2
      <4>4. PICK l \in Conns : l[1] = n /\ Holds(l, x)
        BY <1>1, <4>3 DEF PoolInv, OneHolder
      <4> QED BY <1>6, <1>8, <3>3, <4>2, <4>4
    <3> QED BY <3>1, <3>2, <3>3
  <2> QED BY <2>1, <2>2, <2>3 DEF OneHolder
<1>12. Fresh'
  BY <1>3, SizeAssumption DEF PoolInv, Fresh
<1>13. SendsOwnPacket'
  <2> SUFFICES ASSUME NEW k \in Conns, conn'[k].timer
               PROVE  /\ conn'[k].buf # 0
                      /\ block'[k[1]][conn'[k].buf]
                           = [used |-> TRUE, m |-> given'[k], id |-> conn'[k].sndnxt]
    BY DEF SendsOwnPacket, Conns
  <2>1. CASE k = c
    <3>1. b \in Buffer /\ d.timer /\ d.buf = b
      BY <1>3, <2>1
    <3>2. block'[n][b] = new /\ conn'[k] = d /\ k[1] = n
      BY <1>3, <1>4, <2>1, <3>1 DEF n
    <3>3. new = [used |-> TRUE, m |-> given'[k], id |-> conn'[k].sndnxt] /\ b # 0
      BY <2>1, <3>1, <3>2
    <3> QED BY <3>1, <3>2, <3>3
  <2>2. CASE k # c
    <3>1. /\ conn[k].timer /\ conn[k].buf # 0
          /\ block[k[1]][conn[k].buf] = [used |-> TRUE, m |-> given[k], id |-> conn[k].sndnxt]
      BY <1>3, <2>2 DEF PoolInv, SendsOwnPacket, Conns
    <3>2. conn[k].buf \in Buffer
      BY <3>1 DEF PoolInv, Typed, ConnType
    <3>3. Holds(k, conn[k].buf)
      BY <3>1 DEF Holds, PoolInv, Fresh
    <3>4. conn'[k] = conn[k] /\ given'[k] = given[k]
      BY <1>3, <2>2
    <3>5. block'[k[1]][conn[k].buf] = block[k[1]][conn[k].buf]
      BY <1>10, <2>2, <3>2, <3>3
    <3> QED BY <3>1, <3>4, <3>5
  <2> QED BY <2>1, <2>2
<1> QED
  BY <1>5, <1>11, <1>12, <1>13 DEF PoolInv

--------------------------------------------------------------------------------
(* The actions.                                                                 *)

LEMMA InitPool == Init => PoolInv
<1> SUFFICES ASSUME Init PROVE PoolInv
  OBVIOUS
<1>1. Typed
  BY SizeAssumption DEF Init, Typed, Conns, ConnType, Block, Buffer, Id
<1>2. OneHolder
  BY DEF Init, OneHolder, Holds, Conns
<1>3. Fresh /\ SendsOwnPacket
  BY DEF Init, Fresh, SendsOwnPacket, Conns
<1> QED
  BY <1>1, <1>2, <1>3 DEF PoolInv

LEMMA SentFacts ==
  ASSUME NEW r \in ConnType
  PROVE  /\ Sent(r) \in ConnType /\ Sent(r).state = r.state
         /\ Sent(r).buf = r.buf /\ Sent(r).sndnxt = r.sndnxt
<1> DEFINE t == ~TimedOut(r)
           x == r.rxmit + 1
<1>1. x \in Nat
  BY DEF ConnType
<1>2. t \in BOOLEAN
  BY Zenon
<1>3. Sent(r) = [r EXCEPT !.rxmit = x, !.timer = t]
  BY DEF Sent
<1> HIDE DEF t, x
<1> QED
  BY <1>1, <1>2, <1>3 DEF ConnType

LEMMA SendKeepsPool ==
  ASSUME PoolInv, NEW c \in Conns, NEW to \in Node, NEW max \in Attempts,
         runicast_send(c, to, max)
  PROVE  PoolInv'
<1> DEFINE m == CHOOSE k \in Unsent : TRUE
           freed == Free(block[c[1]], conn[c].buf)
           b == Alloc(freed)
           id == conn[c].sndnxt
           reset == [conn[c] EXCEPT !.max = max, !.rxmit = 0, !.buf = b]
           sent == Sent([reset EXCEPT !.to = to])
           new == [used |-> TRUE, m |-> m, id |-> id]
<1>1. m \in Packet /\ conn[c].state = "open"
  BY DEF runicast_send, Unsent
<1>2. /\ b = 0 => /\ conn' = [conn EXCEPT ![c] = reset]
                  /\ block' = [block EXCEPT ![c[1]] = freed]
                  /\ given' = given
      /\ b # 0 => /\ conn' = [conn EXCEPT ![c] = sent]
                  /\ block' = [block EXCEPT ![c[1]] = [freed EXCEPT ![b] = new]]
                  /\ given' = [given EXCEPT ![c] = m]
  BY DEF runicast_send
<1>3. /\ c[1] \in Node /\ block[c[1]] \in [Buffer -> Block] /\ conn[c].buf \in Buffer \cup {0}
      /\ conn[c] \in ConnType /\ given \in [Conns -> Packet \cup {NULL}]
  BY ConnFacts DEF PoolInv, Typed, ConnType
<1>4. b \in Buffer \cup {0} /\ (b # 0 => ~freed[b].used)
  BY AllocFacts
<1>5. conn[c].buf # 0 => b # 0
  <2>1. ASSUME conn[c].buf # 0 PROVE conn[c].buf \in Buffer /\ ~freed[conn[c].buf].used
    BY <1>3, <2>1, FreeFacts
  <2> HIDE DEF freed
  <2> QED BY <2>1, AllocFacts
<1>6. conn[c].timer => conn[c].buf # 0
  BY DEF PoolInv, SendsOwnPacket, Conns
<1>7. max \in Nat
  BY SizeAssumption
<1> HIDE DEF b, freed, m
<1>8. /\ reset \in ConnType /\ reset.state = "open" /\ reset.buf = b
      /\ reset.timer = conn[c].timer
  BY <1>1, <1>3, <1>4, <1>7 DEF ConnType
<1>9. /\ sent \in ConnType /\ sent.state = "open" /\ sent.buf = b
      /\ sent.sndnxt = id
  <2>1. [reset EXCEPT !.to = to] \in ConnType
    BY <1>8 DEF ConnType
  <2>2. /\ [reset EXCEPT !.to = to].state = "open" /\ [reset EXCEPT !.to = to].buf = b
        /\ [reset EXCEPT !.to = to].sndnxt = id
    BY <1>3, <1>8 DEF ConnType
  <2> HIDE DEF reset
  <2> QED BY <2>1, <2>2, SentFacts
<1>10. new \in Block /\ new.used
  BY <1>1, <1>3 DEF Block, ConnType
<1>11. freed = Free(block[c[1]], conn[c].buf)
  BY DEF freed
<1> HIDE DEF reset, sent
<1>12. CASE b = 0
  <2>1. ~reset.timer
    BY <1>5, <1>6, <1>8, <1>12
  <2>2. given' \in [Conns -> Packet \cup {NULL}] /\ given' = given
    BY <1>2, <1>3, <1>12
  <2>3. block' = [block EXCEPT ![c[1]] = IF b = 0 THEN freed ELSE [freed EXCEPT ![b] = new]]
    BY <1>2, <1>12
  <2> HIDE DEF new
  <2> QED BY <1>1, <1>2, <1>4, <1>8, <1>10, <1>11, <1>12, <2>1, <2>2, <2>3, OtherBlock
<1>13. CASE b # 0
  <2>1. /\ given' \in [Conns -> Packet \cup {NULL}] /\ given'[c] = m
        /\ \A k \in Conns \ {c} : given'[k] = given[k]
    BY <1>1, <1>2, <1>3, <1>13
  <2>2. block' = [block EXCEPT ![c[1]] = IF b = 0 THEN freed ELSE [freed EXCEPT ![b] = new]]
    BY <1>2, <1>13
  <2>3. sent.state = "open" /\ b # 0 /\ new = [used |-> TRUE, m |-> given'[c], id |-> sent.sndnxt]
    BY <1>9, <1>13, <2>1
  <2>4. sent \in ConnType /\ sent.buf = b
    BY <1>9
  <2>5. conn' = [conn EXCEPT ![c] = sent]
    BY <1>2, <1>13
  <2> HIDE DEF new, id
  <2> QED BY <1>1, <1>4, <1>10, <1>11, <2>1, <2>2, <2>3, <2>4, <2>5, OtherBlock
<1> QED
  BY <1>12, <1>13

LEMMA RetransmitKeepsPool ==
  ASSUME PoolInv, NEW c \in Conns, Retransmit(c)
  PROVE  PoolInv'
<1> DEFINE d == Sent(conn[c])
<1>1. conn[c] \in ConnType /\ conn[c].timer
  BY DEF PoolInv, Typed, Retransmit
<1>2. /\ d \in ConnType /\ d.state = conn[c].state /\ d.buf = conn[c].buf
      /\ d.sndnxt = conn[c].sndnxt
  BY <1>1, SentFacts
<1>3. conn' = [conn EXCEPT ![c] = d] /\ UNCHANGED <<block, given>>
  BY DEF Retransmit, PoolInv, Typed
<1> HIDE DEF d
<1> QED
  BY <1>1, <1>2, <1>3, SameBlock

LEMMA NothingChanges ==
  ASSUME PoolInv, UNCHANGED <<conn, block, given>>
  PROVE  PoolInv'
BY DEF PoolInv, Typed, OneHolder, Holds, Fresh, SendsOwnPacket

LEMMA AckKeepsPool ==
  ASSUME PoolInv, NEW n \in Node, ReceiveAck(n)
  PROVE  PoolInv'
<1> DEFINE frame == Head(air[n])
           c == <<n, frame.channel>>
           d == [conn[c] EXCEPT !.sndnxt = NextId(conn[c].sndnxt), !.timer = FALSE]
<1>1. UNCHANGED <<block, given>>
  BY DEF ReceiveAck
<1>2. \/ conn' = conn
      \/ conn' = [conn EXCEPT ![c] = d]
  BY DEF ReceiveAck
<1>3. CASE conn' = conn
  BY <1>1, <1>3, NothingChanges
<1>4. CASE conn' = [conn EXCEPT ![c] = d]
  <2>1. CASE c \notin Conns
    <3>1. conn' = conn
      BY <1>4, <2>1 DEF PoolInv, Typed
    <3> QED BY <1>1, <3>1, NothingChanges
  <2>2. CASE c \in Conns
    <3>1. conn[c] \in ConnType
      BY <2>2 DEF PoolInv, Typed
    <3> HIDE DEF c
    <3>2. NextId(conn[c].sndnxt) \in Id
      BY <3>1, IdFacts DEF ConnType
    <3>3. d \in ConnType /\ d.state = conn[c].state /\ d.buf = conn[c].buf /\ ~d.timer
      BY <3>1, <3>2 DEF ConnType
    <3> HIDE DEF d
    <3> QED BY <1>1, <1>4, <2>2, <3>3, SameBlock
  <2> QED BY <2>1, <2>2
<1> QED
  BY <1>2, <1>3, <1>4

LEMMA OpenKeepsPool ==
  ASSUME PoolInv, ~Reopens, NEW c \in Conns, runicast_open(c)
  PROVE  PoolInv'
<1> DEFINE d == [conn[c] EXCEPT !.state = "open", !.rxmit = 0, !.sndnxt = 0]
<1>1. conn[c] \in ConnType /\ conn[c].state = "new" /\ ~conn[c].timer
  BY DEF PoolInv, Typed, Fresh, runicast_open
<1>2. d \in ConnType /\ d.state = "open" /\ d.buf = conn[c].buf /\ ~d.timer
  BY <1>1, IdFacts DEF ConnType
<1>3. conn' = [conn EXCEPT ![c] = d] /\ UNCHANGED <<block, given>>
  BY DEF runicast_open
<1> HIDE DEF d
<1> QED
  BY <1>1, <1>2, <1>3, SameBlock

LEMMA CloseKeepsPool ==
  ASSUME PoolInv, NEW c \in Conns, runicast_close(c)
  PROVE  PoolInv'
<1> DEFINE d == [conn[c] EXCEPT !.state = "closed", !.timer = FALSE]
           freed == Free(block[c[1]], conn[c].buf)
<1>1. conn[c] \in ConnType /\ conn[c].state = "open"
  BY DEF PoolInv, Typed, runicast_close
<1>2. d \in ConnType /\ d.state = "closed" /\ ~d.timer
  BY <1>1 DEF ConnType
<1>3. conn' = [conn EXCEPT ![c] = d] /\ given' = given
  BY DEF runicast_close
<1>4. block' = [block EXCEPT ![c[1]] = freed]
  BY DEF runicast_close
<1> DEFINE new == [used |-> TRUE, m |-> NULL, id |-> 0]
<1>5. new \in Block /\ new.used
  BY SizeAssumption DEF Block, Id
<1>6. given' \in [Conns -> Packet \cup {NULL}] /\ \A k \in Conns \ {c} : given'[k] = given[k]
  BY <1>3 DEF PoolInv, Typed
<1>7. freed = Free(block[c[1]], conn[c].buf)
  OBVIOUS
<1> HIDE DEF d, freed, new
<1>8. block' = [block EXCEPT ![c[1]] = IF 0 = 0 THEN freed ELSE [freed EXCEPT ![0] = new]]
  BY <1>4
<1> QED
  BY <1>1, <1>2, <1>3, <1>5, <1>6, <1>7, <1>8, OtherBlock

LEMMA StepKeepsPool ==
  ASSUME ~Reopens, PoolInv, [Next]_vars
  PROVE  PoolInv'
<1>1. ASSUME NEW c \in Conns, runicast_open(c) PROVE PoolInv'
  BY <1>1, OpenKeepsPool
<1>2. ASSUME NEW c \in Conns, runicast_close(c) PROVE PoolInv'
  BY <1>2, CloseKeepsPool
<1>3. ASSUME NEW c \in Conns, Retransmit(c) PROVE PoolInv'
  BY <1>3, RetransmitKeepsPool
<1>4. ASSUME NEW c \in Conns, NEW to \in Node, NEW max \in Attempts, runicast_send(c, to, max)
      PROVE PoolInv'
  BY <1>4, SendKeepsPool
<1>5. ASSUME NEW n \in Node, ReceiveAck(n) PROVE PoolInv'
  BY <1>5, AckKeepsPool
<1>6. ASSUME NEW n \in Node, ReceiveData(n) PROVE PoolInv'
  BY <1>6, NothingChanges DEF ReceiveData
<1>7. CASE UNCHANGED vars
  BY <1>7, NothingChanges DEF vars
<1> QED
  BY <1>1, <1>2, <1>3, <1>4, <1>5, <1>6, <1>7 DEF Next, Conns

LEMMA HoldersExact == PoolInv => PoolExact
<1> SUFFICES ASSUME PoolInv, NEW n \in Node, NEW b \in Buffer
             PROVE  Cardinality({ch \in Channel : conn[<<n, ch>>].state = "open" /\ conn[<<n, ch>>].buf = b})
                      = IF block[n][b].used THEN 1 ELSE 0
  BY DEF PoolExact
<1> DEFINE H == {ch \in Channel : conn[<<n, ch>>].state = "open" /\ conn[<<n, ch>>].buf = b}
<1>1. \A ch \in Channel : ch \in H <=> Holds(<<n, ch>>, b)
  BY DEF Holds
<1>2. CASE ~block[n][b].used
  <2>1. \A ch \in Channel : ~Holds(<<n, ch>>, b)
    BY <1>2 DEF PoolInv, OneHolder, Conns
  <2>2. H = {}
    BY <1>1, <2>1
  <2> QED BY <1>2, <2>2, FS_EmptySet
<1>3. CASE block[n][b].used
  <2>1. PICK c \in Conns : c[1] = n /\ Holds(c, b)
    BY <1>3 DEF PoolInv, OneHolder
  <2>2. c[2] \in Channel /\ c = <<n, c[2]>>
    BY <2>1, ConnFacts
  <2>3. \A ch \in Channel : Holds(<<n, ch>>, b) => ch = c[2]
    BY <2>1, <2>2 DEF PoolInv, OneHolder, Conns
  <2>4. H = {c[2]}
    BY <1>1, <2>1, <2>2, <2>3
  <2> HIDE DEF H
  <2>5. Cardinality({c[2]}) = 1
    BY FS_Singleton
  <2> QED BY <1>3, <2>4, <2>5 DEF H
<1> QED
  BY <1>2, <1>3

LEMMA PoolAlways == ASSUME ~Reopens PROVE Spec => []PoolInv
<1>1. PoolInv /\ [Next]_vars => PoolInv'
  BY StepKeepsPool
<1> QED
  BY <1>1, InitPool, PTL DEF Spec

--------------------------------------------------------------------------------
(* Types and the bound of the network.                                          *)

OnAir(a) == UNION {{k} \X DOMAIN a[k] : k \in Node}
HasPacket(f) == f.type = "DATA" => f.m \in Packet
Frames == [Node -> Seq(Frame)]
Filled(a) ==
  /\ a \in Frames /\ IsFiniteSet(OnAir(a)) /\ Cardinality(OnAir(a)) <= MaxInAir
  /\ \A k \in Node : \A i \in DOMAIN a[k] : HasPacket(a[k][i])

\* A timer runs only while there are retransmissions left, which limits rxmit.
Tries(r, g) ==
  /\ r.rxmit \in 0..255 /\ r.max \in Attempts \cup {0}
  /\ r.timer => r.rxmit < r.max /\ g # NULL

TypeInv ==
  /\ PoolInv /\ PT!TypeOK /\ Filled(air)
  /\ \A c \in Conns : Tries(conn[c], given[c])

\* b are the packets under way when the oldest in a has reached n, or f has been sent to n.
Leaves(a, n, b) == a[n] # <<>> /\ b = [a EXCEPT ![n] = Tail(@)]
Joins(a, n, f, b) == b = [a EXCEPT ![n] = Append(@, f)]

LEMMA TailFacts ==
  ASSUME NEW a \in Frames, NEW n \in Node,
         NEW b, Leaves(a, n, b)
  PROVE  /\ b \in Frames
         /\ \A k \in Node \ {n} : b[k] = a[k]
         /\ \A i \in DOMAIN b[n] : i \in Nat /\ i + 1 \in DOMAIN a[n] /\ b[n][i] = a[n][i + 1]
<1>1. a[n] \in Seq(Frame)
  BY DEF Frames
<1>2. /\ Tail(a[n]) \in Seq(Frame)
      /\ \A i \in DOMAIN Tail(a[n]) : i \in Nat /\ i + 1 \in DOMAIN a[n] /\ Tail(a[n])[i] = a[n][i + 1]
  BY <1>1 DEF Leaves
<1>3. b[n] = Tail(a[n]) /\ \A k \in Node \ {n} : b[k] = a[k]
  BY DEF Frames, Leaves
<1>4. b \in Frames
  BY <1>2, <1>3 DEF Frames, Leaves
<1> QED BY <1>2, <1>3, <1>4

LEMMA AppendFacts ==
  ASSUME NEW a \in Frames, NEW n \in Node, NEW f \in Frame,
         NEW b, Joins(a, n, f, b)
  PROVE  /\ b \in Frames
         /\ \A k \in Node \ {n} : b[k] = a[k]
         /\ \A i \in DOMAIN a[n] : i \in Nat /\ i < Len(a[n]) + 1 /\ i \in DOMAIN b[n] /\ b[n][i] = a[n][i]
         /\ \A i \in DOMAIN b[n] : i \in DOMAIN a[n] \/ (i = Len(a[n]) + 1 /\ b[n][i] = f)
<1>1. a[n] \in Seq(Frame)
  BY DEF Frames
<1>2. /\ Append(a[n], f) \in Seq(Frame)
      /\ \A i \in DOMAIN a[n] : /\ i \in Nat /\ i < Len(a[n]) + 1 /\ i \in DOMAIN Append(a[n], f)
                                /\ Append(a[n], f)[i] = a[n][i]
      /\ \A i \in DOMAIN Append(a[n], f) :
           i \in DOMAIN a[n] \/ (i = Len(a[n]) + 1 /\ Append(a[n], f)[i] = f)
  BY <1>1
<1>3. b[n] = Append(a[n], f) /\ \A k \in Node \ {n} : b[k] = a[k]
  BY DEF Frames, Joins
<1>4. b \in Frames
  BY <1>2, <1>3 DEF Frames, Joins
<1> QED BY <1>2, <1>3, <1>4

LEMMA LeavesCount ==
  ASSUME NEW a \in Frames, NEW n \in Node, NEW b, Leaves(a, n, b), Filled(a)
  PROVE  Filled(b) /\ Cardinality(OnAir(b)) < MaxInAir
<1>1. a[n] \in Seq(Frame) /\ a[n] # <<>>
  BY DEF Frames, Leaves
<1>2. /\ b \in Frames /\ \A k \in Node \ {n} : b[k] = a[k]
      /\ \A i \in DOMAIN b[n] : i \in Nat /\ i + 1 \in DOMAIN a[n] /\ b[n][i] = a[n][i + 1]
  BY TailFacts
<1>3. b[n] = Tail(a[n])
  BY DEF Leaves, Frames
<1>4. DOMAIN b[n] = DOMAIN a[n] \ {Len(a[n])} /\ Len(a[n]) \in DOMAIN a[n]
  <2> DEFINE s == a[n]
  <2>1. s \in Seq(Frame) /\ s # <<>>
    BY <1>1
  <2> HIDE DEF s
  <2>2. DOMAIN Tail(s) = DOMAIN s \ {Len(s)} /\ Len(s) \in DOMAIN s
    BY <2>1
  <2> QED BY <1>3, <2>2 DEF s
<1>5. OnAir(b) = OnAir(a) \ {<<n, Len(a[n])>>} /\ <<n, Len(a[n])>> \in OnAir(a)
  <2>1. ASSUME NEW k \in Node, NEW i
        PROVE  i \in DOMAIN b[k] <=> i \in DOMAIN a[k] /\ <<k, i>> # <<n, Len(a[n])>>
    BY <1>2, <1>4
  <2>2. \A p : p \in OnAir(b) <=> \E k \in Node : \E i \in DOMAIN b[k] : p = <<k, i>>
    BY DEF OnAir
  <2>3. \A p : p \in OnAir(a) <=> \E k \in Node : \E i \in DOMAIN a[k] : p = <<k, i>>
    BY DEF OnAir
  <2>4. <<n, Len(a[n])>> \in OnAir(a)
    BY <1>4, <2>3
  <2>5. ASSUME NEW p PROVE p \in OnAir(b) <=> p \in OnAir(a) /\ p # <<n, Len(a[n])>>
    BY <2>1, <2>2, <2>3
  <2> QED BY <2>4, <2>5
<1>6. IsFiniteSet(OnAir(b)) /\ Cardinality(OnAir(b)) = Cardinality(OnAir(a)) - 1
  BY <1>5, FS_RemoveElement DEF Filled
<1>7. Cardinality(OnAir(a)) \in Nat /\ MaxInAir \in Nat /\ Cardinality(OnAir(a)) <= MaxInAir
  BY FS_CardinalityType, SizeAssumption DEF Filled
<1>8. \A k \in Node : \A i \in DOMAIN b[k] : HasPacket(b[k][i])
  BY <1>2 DEF Filled
<1> QED BY <1>2, <1>6, <1>7, <1>8 DEF Filled

LEMMA JoinsCount ==
  ASSUME NEW a \in Frames, NEW n \in Node, NEW f \in Frame, HasPacket(f), NEW b, Joins(a, n, f, b),
         Filled(a), Cardinality(OnAir(a)) < MaxInAir
  PROVE  Filled(b)
<1>1. a[n] \in Seq(Frame)
  BY DEF Frames
<1>2. /\ b \in Frames /\ \A k \in Node \ {n} : b[k] = a[k]
      /\ \A i \in DOMAIN a[n] : i \in DOMAIN b[n] /\ b[n][i] = a[n][i]
      /\ \A i \in DOMAIN b[n] : i \in DOMAIN a[n] \/ (i = Len(a[n]) + 1 /\ b[n][i] = f)
  BY AppendFacts
<1>3. DOMAIN b[n] = DOMAIN a[n] \cup {Len(a[n]) + 1}
  BY <1>1 DEF Joins, Frames
<1>4. OnAir(b) = OnAir(a) \cup {<<n, Len(a[n]) + 1>>}
  <2>1. ASSUME NEW k \in Node, NEW i
        PROVE  i \in DOMAIN b[k] <=> i \in DOMAIN a[k] \/ <<k, i>> = <<n, Len(a[n]) + 1>>
    BY <1>2, <1>3
  <2>2. \A p : p \in OnAir(b) <=> \E k \in Node : \E i \in DOMAIN b[k] : p = <<k, i>>
    BY DEF OnAir
  <2>3. \A p : p \in OnAir(a) <=> \E k \in Node : \E i \in DOMAIN a[k] : p = <<k, i>>
    BY DEF OnAir
  <2>4. ASSUME NEW p PROVE p \in OnAir(b) <=> p \in OnAir(a) \/ p = <<n, Len(a[n]) + 1>>
    BY <2>1, <2>2, <2>3
  <2> QED BY <2>4
<1>5. /\ IsFiniteSet(OnAir(b)) /\ Cardinality(OnAir(a)) \in Nat
      /\ Cardinality(OnAir(b)) \in {Cardinality(OnAir(a)), Cardinality(OnAir(a)) + 1}
  <2>1. PICK S, x : S = OnAir(a) /\ x = <<n, Len(a[n]) + 1>>
    OBVIOUS
  <2>2. IsFiniteSet(S) /\ OnAir(b) = S \cup {x}
    BY <1>4, <2>1 DEF Filled
  <2>3. /\ Cardinality(S) \in Nat /\ IsFiniteSet(S \cup {x})
        /\ Cardinality(S \cup {x}) = IF x \in S THEN Cardinality(S) ELSE Cardinality(S) + 1
    BY <2>2, FS_AddElement, FS_CardinalityType
  <2> QED BY <2>1, <2>2, <2>3
<1>6. MaxInAir \in Nat
  BY SizeAssumption
<1>7. \A k \in Node : \A i \in DOMAIN b[k] : HasPacket(b[k][i])
  BY <1>2 DEF Filled
<1> QED BY <1>2, <1>5, <1>6, <1>7 DEF Filled

LEMMA TransmitFills ==
  ASSUME Filled(air), NEW to \in Node, NEW f \in Frame, HasPacket(f), Transmit(to, f)
  PROVE  Filled(air')
<1>1. CASE air' = air
  BY <1>1
<1>2. CASE InAir < MaxInAir /\ Joins(air, to, f, air')
  <2>1. PICK b : b = air'
    OBVIOUS
  <2>2. Cardinality(OnAir(air)) < MaxInAir
    BY <1>2 DEF InAir, OnAir
  <2>3. air \in Frames /\ Joins(air, to, f, b)
    BY <1>2, <2>1 DEF Filled
  <2> QED BY <2>1, <2>2, <2>3, JoinsCount
<1> QED BY <1>1, <1>2 DEF Transmit, Joins

LEMMA SentTries ==
  ASSUME NEW r \in ConnType, NEW g, r.rxmit \in 0..254, r.max \in Attempts \cup {0}, g # NULL
  PROVE  Tries(Sent(r), g)
<1> DEFINE t == ~TimedOut(r)
           x == r.rxmit + 1
<1>1. t \in BOOLEAN
  BY Zenon
<1>2. Sent(r) = [r EXCEPT !.rxmit = x, !.timer = t]
  BY DEF Sent
<1>3. x \in 1..255 /\ (t => x < r.max)
  <2>1. r.max \in Nat /\ x \in 1..255
    <3>1. x \in 1..255
      OBVIOUS
    <3>2. \A y \in Attempts \cup {0} : y \in Nat
      BY SizeAssumption
    <3>3. r.max \in Nat
      <4>1. r.max \in Attempts \cup {0}
        OBVIOUS
      <4> HIDE DEF x
      <4> QED BY <3>2, <4>1
    <3> QED BY <3>1, <3>3
  <2>2. ~TimedOut(r) => x < r.max
    BY <2>1 DEF TimedOut
  <2> QED BY <2>1, <2>2
<1> HIDE DEF t, x
<1>4. Sent(r).timer = t /\ Sent(r).rxmit = x /\ Sent(r).max = r.max
  BY <1>1, <1>2 DEF ConnType
<1> QED BY <1>3, <1>4 DEF Tries

LEMMA TypeParts ==
  ASSUME TypeInv
  PROVE  /\ PoolInv /\ air \in Frames /\ Filled(air)
         /\ conn \in [Conns -> ConnType] /\ given \in [Conns -> Packet \cup {NULL}]
         /\ block \in [Node -> [Buffer -> Block]]
         /\ status \in [Packet -> PT!Status] /\ arrived \in SUBSET Packet /\ hurried \in SUBSET Packet
         /\ \A c \in Conns : Tries(conn[c], given[c])
BY DEF TypeInv, PoolInv, Typed, PT!TypeOK, Filled

LEMMA SendKeepsTypes ==
  ASSUME TypeInv, ~Reopens, NEW c \in Conns, NEW to \in Node, NEW max \in Attempts,
         runicast_send(c, to, max)
  PROVE  TypeInv'
<1> DEFINE m == CHOOSE k \in Unsent : TRUE
           freed == Free(block[c[1]], conn[c].buf)
           b == Alloc(freed)
           reset == [conn[c] EXCEPT !.max = max, !.rxmit = 0, !.buf = b]
           aimed == [reset EXCEPT !.to = to]
           f == [type |-> "DATA", id |-> conn[c].sndnxt, m |-> m, channel |-> c[2], from |-> c[1]]
<1>1. /\ PoolInv /\ air \in Frames /\ Filled(air)
      /\ conn \in [Conns -> ConnType] /\ given \in [Conns -> Packet \cup {NULL}]
      /\ block \in [Node -> [Buffer -> Block]]
      /\ status \in [Packet -> PT!Status] /\ arrived \in SUBSET Packet /\ hurried \in SUBSET Packet
      /\ \A k \in Conns : Tries(conn[k], given[k])
  BY TypeParts
<1>2. m \in Packet /\ m # NULL /\ arrived' = arrived /\ hurried' \in {hurried, hurried \cup {m}}
  BY NodeAssumption DEF runicast_send, Unsent
<1>3. b = 0 => conn' = [conn EXCEPT ![c] = reset] /\ UNCHANGED <<air, given, status, hurried>>
  BY DEF runicast_send
<1>4. b # 0 => /\ conn' = [conn EXCEPT ![c] = Sent(aimed)] /\ Transmit(to, f)
               /\ given' = [given EXCEPT ![c] = m]
               /\ status' = [k \in Packet |->
                               IF k = m THEN IF TimedOut(reset) THEN "timedout" ELSE "accepted"
                               ELSE IF k \in Displaced(c) THEN "dropped" ELSE status[k]]
  BY DEF runicast_send
<1>5. PoolInv'
  BY <1>1, SendKeepsPool
<1>6. b \in Buffer \cup {0}
  BY AllocFacts
<1>7. /\ conn[c] \in ConnType /\ max \in Nat /\ block[c[1]] \in [Buffer -> Block]
      /\ conn[c].buf \in Buffer \cup {0} /\ c[1] \in Node /\ c[2] \in Channel
  <2>1. c[1] \in Node /\ c[2] \in Channel
    BY ConnFacts
  <2>2. conn[c] \in ConnType /\ block[c[1]] \in [Buffer -> Block]
    BY <1>1, <2>1
  <2>3. conn[c].buf \in Buffer \cup {0} /\ max \in Nat
    BY <2>2, SizeAssumption DEF ConnType
  <2> QED BY <2>1, <2>2, <2>3
<1>8. conn[c].timer => b # 0
  <2>1. ASSUME conn[c].buf # 0 PROVE conn[c].buf \in Buffer /\ ~freed[conn[c].buf].used
    BY <1>7, <2>1, FreeFacts
  <2>2. conn[c].timer => conn[c].buf # 0
    BY <1>1 DEF PoolInv, SendsOwnPacket, Conns
  <2> HIDE DEF freed
  <2> QED BY <2>1, <2>2, AllocFacts
<1> HIDE DEF b, freed, m
<1>9. /\ reset.timer = conn[c].timer /\ reset.rxmit = 0 /\ reset.max = max
      /\ aimed \in ConnType /\ aimed.rxmit = 0 /\ aimed.max = max
  BY <1>6, <1>7 DEF ConnType
<1>10. f \in Frame /\ HasPacket(f)
  BY <1>2, <1>7 DEF Frame, ConnType, HasPacket
<1> HIDE DEF reset, aimed, f
<1>11. CASE b = 0
  <2>1. conn'[c] = reset /\ (\A k \in Conns \ {c} : conn'[k] = conn[k])
        /\ UNCHANGED <<air, given, status, arrived, hurried>>
    BY <1>1, <1>2, <1>3, <1>11
  <2>2. Tries(reset, given[c])
    BY <1>8, <1>9, <1>11 DEF Tries
  <2> QED BY <1>1, <1>5, <2>1, <2>2 DEF TypeInv, PT!TypeOK
<1>12. CASE b # 0
  <2>1. conn'[c] = Sent(aimed) /\ (\A k \in Conns \ {c} : conn'[k] = conn[k])
        /\ given'[c] = m /\ (\A k \in Conns \ {c} : given'[k] = given[k])
    BY <1>1, <1>4, <1>12
  <2>2. Tries(Sent(aimed), m)
    BY <1>2, <1>9, SentTries
  <2>3. Filled(air')
    BY <1>1, <1>4, <1>10, <1>12, TransmitFills
  <2>4. status' \in [Packet -> PT!Status]
    BY <1>1, <1>4, <1>12 DEF PT!Status
  <2> QED BY <1>1, <1>2, <1>5, <2>1, <2>2, <2>3, <2>4 DEF TypeInv, PT!TypeOK
<1> QED BY <1>11, <1>12

LEMMA RetransmitKeepsTypes ==
  ASSUME TypeInv, NEW c \in Conns, Retransmit(c)
  PROVE  TypeInv'
<1>1. /\ PoolInv /\ air \in Frames /\ Filled(air)
      /\ conn \in [Conns -> ConnType] /\ given \in [Conns -> Packet \cup {NULL}]
      /\ status \in [Packet -> PT!Status] /\ arrived \in SUBSET Packet /\ hurried \in SUBSET Packet
      /\ \A k \in Conns : Tries(conn[k], given[k])
  BY TypeParts
<1>2. conn[c] \in ConnType /\ conn[c].timer /\ c[1] \in Node /\ c[2] \in Channel
  BY <1>1, ConnFacts DEF Retransmit
<1>3. given[c] \in Packet /\ given[c] # NULL
  BY <1>1, <1>2 DEF Tries
<1> DEFINE f == [type |-> "DATA", id |-> conn[c].sndnxt, m |-> given[c], channel |-> c[2], from |-> c[1]]
<1>4. Transmit(conn[c].to, f)
  <2>1. block[c[1]][conn[c].buf] = [used |-> TRUE, m |-> given[c], id |-> conn[c].sndnxt]
    BY <1>1, <1>2 DEF PoolInv, SendsOwnPacket, Conns
  <2> QED BY <2>1 DEF Retransmit
<1>5. f \in Frame /\ HasPacket(f) /\ conn[c].to \in Node
  BY <1>2, <1>3 DEF Frame, ConnType, HasPacket
<1> HIDE DEF f
<1>6. Filled(air')
  BY <1>1, <1>4, <1>5, TransmitFills
<1>7. /\ conn'[c] = Sent(conn[c]) /\ \A k \in Conns \ {c} : conn'[k] = conn[k]
      /\ UNCHANGED <<given, arrived, hurried>>
      /\ status' \in [Packet -> PT!Status]
  BY <1>1, <1>3 DEF Retransmit, PT!Status
<1>8. Tries(Sent(conn[c]), given[c])
  <2>1. conn[c].rxmit \in 0..254 /\ conn[c].max \in Attempts \cup {0}
    <3>1. conn[c].rxmit \in 0..255 /\ conn[c].max \in Attempts \cup {0} /\ conn[c].rxmit < conn[c].max
      BY <1>1, <1>2 DEF Tries
    <3>2. conn[c].max \in 0..255
      BY <3>1, SizeAssumption
    <3> QED BY <3>1, <3>2
  <2> QED BY <1>2, <1>3, <2>1, SentTries
<1>9. PoolInv'
  BY <1>1, RetransmitKeepsPool
<1> QED BY <1>1, <1>6, <1>7, <1>8, <1>9 DEF TypeInv, PT!TypeOK

LEMMA HeadFacts ==
  ASSUME air \in Frames, NEW n \in Node, Received(n)
  PROVE  /\ 1 \in DOMAIN air[n] /\ Head(air[n]) = air[n][1] /\ Head(air[n]) \in Frame
         /\ Taken(n) \in Frames /\ Leaves(air, n, Taken(n))
         /\ \A k \in Node : \A i \in DOMAIN Taken(n)[k] :
              \E j \in DOMAIN air[k] : Taken(n)[k][i] = air[k][j] /\ (k = n => 1 < j)
<1>1. air[n] \in Seq(Frame) /\ air[n] # <<>>
  BY DEF Frames, Received
<1>2. 1 \in DOMAIN air[n] /\ Head(air[n]) = air[n][1] /\ Head(air[n]) \in Frame
  BY <1>1
<1>3. Leaves(air, n, Taken(n))
  BY <1>1 DEF Leaves, Taken
<1>4. PICK b : b = Taken(n)
  OBVIOUS
<1>5. /\ b \in Frames /\ (\A k \in Node \ {n} : b[k] = air[k])
      /\ \A i \in DOMAIN b[n] : i \in Nat /\ i + 1 \in DOMAIN air[n] /\ b[n][i] = air[n][i + 1]
  BY <1>3, <1>4, TailFacts
<1>6. ASSUME NEW i \in DOMAIN b[n] PROVE 1 < i + 1
  <2>1. b[n] \in Seq(Frame)
    BY <1>5 DEF Frames
  <2> QED BY <2>1, <1>6
<1> QED BY <1>2, <1>3, <1>4, <1>5, <1>6

LEMMA AckKeepsTypes ==
  ASSUME TypeInv, NEW n \in Node, ReceiveAck(n)
  PROVE  TypeInv'
<1> DEFINE f == Head(air[n])
<1>1. /\ PoolInv /\ air \in Frames /\ Filled(air)
      /\ conn \in [Conns -> ConnType] /\ given \in [Conns -> Packet \cup {NULL}]
      /\ status \in [Packet -> PT!Status] /\ arrived \in SUBSET Packet /\ hurried \in SUBSET Packet
      /\ \A k \in Conns : Tries(conn[k], given[k])
  BY TypeParts
<1>2. f \in Frame /\ Filled(Taken(n))
  BY <1>1, HeadFacts, LeavesCount DEF ReceiveAck
<1>3. air' = Taken(n) /\ UNCHANGED <<given, arrived, hurried>>
  BY DEF ReceiveAck
<1>4. PICK c \in Conns : c = <<n, f.channel>>
  <2>1. f.channel \in Channel
    BY <1>2 DEF Frame
  <2>2. <<n, f.channel>> \in Conns
    BY <2>1 DEF Conns
  <2> QED BY <2>2
<1> DEFINE d == [conn[c] EXCEPT !.sndnxt = NextId(conn[c].sndnxt), !.timer = FALSE]
<1>5. \/ conn' = conn /\ status' = status
      \/ /\ conn' = [conn EXCEPT ![c] = d]
         /\ status' = IF given[c] = NULL THEN status ELSE [status EXCEPT ![given[c]] = "sent"]
  BY <1>4 DEF ReceiveAck
<1>6. status' \in [Packet -> PT!Status]
  BY <1>1, <1>5 DEF PT!Status
<1>7. d.timer = FALSE /\ d.rxmit = conn[c].rxmit /\ d.max = conn[c].max
  <2>1. conn[c] \in ConnType
    BY <1>1
  <2> QED BY <2>1 DEF ConnType
<1> HIDE DEF d
<1>8. \A k \in Conns : Tries(conn'[k], given[k])
  <2>1. Tries(d, given[c])
    BY <1>1, <1>7 DEF Tries
  <2>2. \A k \in Conns : conn'[k] = conn[k] \/ (k = c /\ conn'[k] = d)
    BY <1>1, <1>5
  <2> QED BY <1>1, <2>1, <2>2
<1>9. PoolInv'
  BY <1>1, AckKeepsPool
<1> QED BY <1>1, <1>2, <1>3, <1>6, <1>8, <1>9 DEF TypeInv, PT!TypeOK

LEMMA DataKeepsTypes ==
  ASSUME TypeInv, NEW n \in Node, ReceiveData(n)
  PROVE  TypeInv'
<1> DEFINE f == Head(air[n])
           ack == [type |-> "ACK", id |-> f.id, m |-> NULL, channel |-> f.channel, from |-> n]
<1>1. /\ PoolInv /\ air \in Frames /\ Filled(air)
      /\ conn \in [Conns -> ConnType] /\ given \in [Conns -> Packet \cup {NULL}]
      /\ status \in [Packet -> PT!Status] /\ arrived \in SUBSET Packet /\ hurried \in SUBSET Packet
      /\ \A k \in Conns : Tries(conn[k], given[k])
  BY TypeParts
<1>2. /\ 1 \in DOMAIN air[n] /\ f = air[n][1] /\ f \in Frame
      /\ Taken(n) \in Frames /\ Leaves(air, n, Taken(n))
  BY <1>1, HeadFacts DEF ReceiveData
<1>3. Filled(Taken(n)) /\ Cardinality(OnAir(Taken(n))) < MaxInAir
  BY <1>1, <1>2, LeavesCount
<1>4. UNCHANGED <<conn, block, given, status, hurried>> /\ f.type = "DATA"
  BY DEF ReceiveData
<1>5. f.m \in Packet /\ f.from \in Node
  BY <1>1, <1>2, <1>4 DEF Filled, HasPacket, Frame
<1>6. \/ arrived' = arrived /\ air' = Taken(n)
      \/ arrived' = arrived \cup {f.m} /\ (air' = Taken(n) \/ Joins(Taken(n), f.from, ack, air'))
  BY DEF ReceiveData, Joins
<1>7. ack \in Frame /\ HasPacket(ack)
  BY <1>2 DEF Frame, HasPacket
<1> HIDE DEF ack, f
<1>8. Filled(air')
  <2>1. PICK b : b = air'
    OBVIOUS
  <2>2. Joins(Taken(n), f.from, ack, b) => Filled(b)
    BY <1>2, <1>3, <1>5, <1>7, JoinsCount
  <2> QED BY <1>3, <1>6, <2>1, <2>2
<1>9. arrived' \in SUBSET Packet
  BY <1>1, <1>5, <1>6
<1>10. PoolInv'
  BY <1>1, <1>4, NothingChanges
<1> QED BY <1>1, <1>4, <1>8, <1>9, <1>10 DEF TypeInv, PT!TypeOK

LEMMA OpenKeepsTypes ==
  ASSUME TypeInv, ~Reopens, NEW c \in Conns, runicast_open(c) \/ runicast_close(c)
  PROVE  TypeInv'
<1>1. /\ PoolInv /\ Filled(air)
      /\ conn \in [Conns -> ConnType] /\ given \in [Conns -> Packet \cup {NULL}]
      /\ status \in [Packet -> PT!Status] /\ arrived \in SUBSET Packet /\ hurried \in SUBSET Packet
      /\ \A k \in Conns : Tries(conn[k], given[k])
  BY TypeParts
<1>2. PoolInv'
  BY <1>1, OpenKeepsPool, CloseKeepsPool
<1>3. conn[c] \in ConnType
  BY <1>1
<1>4. ~conn[c].timer \/ runicast_close(c)
  BY <1>1 DEF runicast_open, PoolInv, Fresh
<1>5. /\ UNCHANGED <<air, given, arrived, hurried>> /\ \A k \in Conns \ {c} : conn'[k] = conn[k]
      /\ ~conn'[c].timer /\ conn'[c].max = conn[c].max /\ conn'[c].rxmit \in {0, conn[c].rxmit}
  <2>1. CASE runicast_open(c)
    <3>1. conn' = [conn EXCEPT ![c] = [conn[c] EXCEPT !.state = "open", !.rxmit = 0, !.sndnxt = 0]]
          /\ ~conn[c].timer /\ UNCHANGED <<air, given, arrived, hurried>>
      BY <1>1, <2>1 DEF runicast_open, PoolInv, Fresh
    <3> QED BY <1>1, <1>3, <3>1 DEF ConnType
  <2>2. CASE runicast_close(c)
    <3>1. conn' = [conn EXCEPT ![c] = [conn[c] EXCEPT !.state = "closed", !.timer = FALSE]]
          /\ UNCHANGED <<air, given, arrived, hurried>>
      BY <2>2 DEF runicast_close
    <3> QED BY <1>1, <1>3, <3>1 DEF ConnType
  <2> QED BY <2>1, <2>2
<1>6. status' \in [Packet -> PT!Status]
  BY <1>1 DEF runicast_open, runicast_close, PT!Status
<1>7. ASSUME NEW k \in Conns PROVE Tries(conn'[k], given[k])
  <2>1. Tries(conn[k], given[k])
    BY <1>1
  <2>2. 0 \in 0..255
    OBVIOUS
  <2> QED BY <1>5, <2>1, <2>2 DEF Tries
<1> QED BY <1>1, <1>2, <1>5, <1>6, <1>7 DEF TypeInv, PT!TypeOK

LEMMA InitTypes == Init => TypeInv
<1> SUFFICES ASSUME Init PROVE TypeInv
  OBVIOUS
<1>1. PoolInv
  BY InitPool
<1>2. PT!TypeOK
  BY DEF Init, PT!TypeOK, PT!Status
<1>3. air \in Frames /\ \A k \in Node : DOMAIN air[k] = {}
  BY DEF Init, Frames
<1>4. OnAir(air) = {}
  BY <1>3 DEF OnAir
<1>5. Filled(air)
  BY <1>3, <1>4, FS_EmptySet, SizeAssumption DEF Filled
<1>6. \A c \in Conns : Tries(conn[c], given[c])
  BY DEF Init, Conns, Tries
<1> QED BY <1>1, <1>2, <1>5, <1>6 DEF TypeInv

LEMMA StepKeepsTypes ==
  ASSUME ~Reopens, TypeInv, [Next]_vars
  PROVE  TypeInv'
<1>1. ASSUME NEW c \in Conns, runicast_open(c) \/ runicast_close(c) PROVE TypeInv'
  BY <1>1, OpenKeepsTypes
<1>2. ASSUME NEW c \in Conns, Retransmit(c) PROVE TypeInv'
  BY <1>2, RetransmitKeepsTypes
<1>3. ASSUME NEW c \in Conns, NEW to \in Node, NEW max \in Attempts, runicast_send(c, to, max)
      PROVE TypeInv'
  BY <1>3, SendKeepsTypes
<1>4. ASSUME NEW n \in Node, ReceiveAck(n) PROVE TypeInv'
  BY <1>4, AckKeepsTypes
<1>5. ASSUME NEW n \in Node, ReceiveData(n) PROVE TypeInv'
  BY <1>5, DataKeepsTypes
<1>6. CASE UNCHANGED vars
  <2>1. PoolInv'
    BY <1>6, NothingChanges DEF TypeInv, vars
  <2> QED BY <1>6, <2>1 DEF TypeInv, vars, PT!TypeOK
<1> QED
  BY <1>1, <1>2, <1>3, <1>4, <1>5, <1>6 DEF Next, Conns

--------------------------------------------------------------------------------
(* The promise to programs.                                                     *)

IsData(c, f) == f.type = "DATA" /\ f.from = c[1] /\ f.channel = c[2]
IsAck(c, f) == f.type = "ACK" /\ f.channel = c[2]

\* What the program of c was told of the packet it gave last, which no other program gave.
GivenOK(c) ==
  /\ conn[c].timer => given[c] # NULL /\ status[given[c]] = "accepted"
  /\ conn[c].state = "new" => given[c] = NULL
  /\ given[c] # NULL => status[given[c]] # "new"
  /\ conn[c].state = "open" /\ given[c] # NULL
       => status[given[c]] \in {"accepted", "timedout", "sent"}
  /\ given[c] # NULL => \A d \in Conns : given[d] = given[c] => d = c

\* The data of connection c on their way, where r is the connection, g the packet given
\* last: all go to one node, and those with the id that c waits for are copies of g, the
\* last ones in the queue.
DataOK(c, a, r, g, st) ==
  \A n \in Node : \A i \in DOMAIN a[n] : IsData(c, a[n][i]) =>
    /\ n = r.to /\ g # NULL /\ a[n][i].m \in Packet /\ st[a[n][i].m] # "new"
    /\ a[n][i].id = r.sndnxt =>
         /\ a[n][i].m = g /\ st[g] # "sent"
         /\ \A j \in DOMAIN a[n] : i < j /\ IsData(c, a[n][j]) => a[n][j].id = r.sndnxt

\* The acknowledgements for c: one with the id that c waits for is one of g, and only such
\* are behind it, also after the data under way have been answered.
AckOK(c, a, r, g, st, arr) ==
  \A i \in DOMAIN a[c[1]] : IsAck(c, a[c[1]][i]) =>
    /\ g # NULL
    /\ a[c[1]][i].id = r.sndnxt =>
         /\ g \in arr /\ st[g] # "sent"
         /\ \A j \in DOMAIN a[c[1]] : i < j /\ IsAck(c, a[c[1]][j]) => a[c[1]][j].id = r.sndnxt
         /\ \A k \in Node : \A j \in DOMAIN a[k] : IsData(c, a[k][j]) => a[k][j].id = r.sndnxt

OnWay(c, a, r, g, st, arr) == DataOK(c, a, r, g, st) /\ AckOK(c, a, r, g, st, arr)

\* The data on their way were given by a program.
Known(a, st) ==
  \A n \in Node : \A i \in DOMAIN a[n] :
    a[n][i].type = "DATA" => a[n][i].m \in Packet /\ st[a[n][i].m] # "new"
NoneNew(h, st) == \A m \in h : st[m] # "new"

\* The program of c waited with the packet that it gave last: nothing is said of the packets
\* under way for one that did not.
Waited(c) == given[c] \notin hurried
InvOf(c) == GivenOK(c) /\ (Waited(c) => OnWay(c, air, conn[c], given[c], status, arrived))

TransferInv ==
  /\ PoolInv /\ air \in Frames /\ PT!TypeOK /\ Known(air, status) /\ NoneNew(hurried, status)
  /\ \A c \in Conns : InvOf(c)

--------------------------------------------------------------------------------
(* Packets on their way.                                                        *)

\* A packet leaves the network.
LEMMA TailKeeps ==
  ASSUME NEW a \in Frames, NEW n \in Node, NEW b, Leaves(a, n, b),
         NEW c \in Conns, NEW r, NEW g, NEW st, NEW arr, OnWay(c, a, r, g, st, arr)
  PROVE  OnWay(c, b, r, g, st, arr)
<1>1. \A k \in Node : \A i \in DOMAIN b[k] :
        i \in Nat /\ \E s \in {0, 1} : i + s \in DOMAIN a[k] /\ b[k][i] = a[k][i + s]
                        /\ \A j \in DOMAIN b[k] : j \in Nat /\ j + s \in DOMAIN a[k] /\ b[k][j] = a[k][j + s]
  <2>0. /\ \A k \in Node \ {n} : b[k] = a[k]
        /\ \A i \in DOMAIN b[n] : i \in Nat /\ i + 1 \in DOMAIN a[n] /\ b[n][i] = a[n][i + 1]
    BY TailFacts
  <2>1. \A i \in DOMAIN b[n] : i \in Nat /\ i + 1 \in DOMAIN a[n] /\ b[n][i] = a[n][i + 1]
    BY <2>0
  <2>2. \A k \in Node \ {n} : b[k] = a[k] /\ \A i \in DOMAIN a[k] : i \in Nat /\ i + 0 = i
    BY <2>0 DEF Frames
  <2> QED BY <2>1, <2>2
<1>2. DataOK(c, b, r, g, st)
  <2> SUFFICES ASSUME NEW k \in Node, NEW i \in DOMAIN b[k], IsData(c, b[k][i])
               PROVE  /\ k = r.to /\ g # NULL /\ b[k][i].m \in Packet /\ st[b[k][i].m] # "new"
                      /\ b[k][i].id = r.sndnxt =>
                           /\ b[k][i].m = g /\ st[g] # "sent"
                           /\ \A j \in DOMAIN b[k] : i < j /\ IsData(c, b[k][j]) => b[k][j].id = r.sndnxt
    BY DEF DataOK
  <2>1. PICK s \in {0, 1} : /\ i \in Nat /\ i + s \in DOMAIN a[k] /\ b[k][i] = a[k][i + s]
                            /\ \A j \in DOMAIN b[k] : j \in Nat /\ j + s \in DOMAIN a[k] /\ b[k][j] = a[k][j + s]
    BY <1>1
  <2>2. /\ k = r.to /\ g # NULL /\ a[k][i + s].m \in Packet /\ st[a[k][i + s].m] # "new"
        /\ a[k][i + s].id = r.sndnxt =>
             /\ a[k][i + s].m = g /\ st[g] # "sent"
             /\ \A j \in DOMAIN a[k] : i + s < j /\ IsData(c, a[k][j]) => a[k][j].id = r.sndnxt
    BY <2>1 DEF OnWay, DataOK
  <2>3. \A j \in DOMAIN b[k] : i < j => i + s < j + s
    BY <2>1
  <2> QED BY <2>1, <2>2, <2>3
<1>3. c[1] \in Node
  BY ConnFacts
<1>4. AckOK(c, b, r, g, st, arr)
  <2> DEFINE n1 == c[1]
  <2> SUFFICES ASSUME NEW i \in DOMAIN b[n1], IsAck(c, b[n1][i])
               PROVE  /\ g # NULL
                      /\ b[n1][i].id = r.sndnxt =>
                           /\ g \in arr /\ st[g] # "sent"
                           /\ \A j \in DOMAIN b[n1] : i < j /\ IsAck(c, b[n1][j]) => b[n1][j].id = r.sndnxt
                           /\ \A k \in Node : \A j \in DOMAIN b[k] : IsData(c, b[k][j]) => b[k][j].id = r.sndnxt
    BY DEF AckOK
  <2>1. PICK s \in {0, 1} : /\ i \in Nat /\ i + s \in DOMAIN a[n1] /\ b[n1][i] = a[n1][i + s]
                            /\ \A j \in DOMAIN b[n1] : j \in Nat /\ j + s \in DOMAIN a[n1] /\ b[n1][j] = a[n1][j + s]
    BY <1>1, <1>3
  <2>2. /\ g # NULL
        /\ a[n1][i + s].id = r.sndnxt =>
             /\ g \in arr /\ st[g] # "sent"
             /\ \A j \in DOMAIN a[n1] : i + s < j /\ IsAck(c, a[n1][j]) => a[n1][j].id = r.sndnxt
             /\ \A k \in Node : \A j \in DOMAIN a[k] : IsData(c, a[k][j]) => a[k][j].id = r.sndnxt
    BY <2>1 DEF OnWay, AckOK
  <2>3. \A j \in DOMAIN b[n1] : i < j => i + s < j + s
    BY <2>1
  <2>4. \A k \in Node : \A j \in DOMAIN b[k] : \E x \in DOMAIN a[k] : b[k][j] = a[k][x]
    BY <1>1
  <2>5. ASSUME b[n1][i].id = r.sndnxt
        PROVE  /\ g \in arr /\ st[g] # "sent"
               /\ \A j \in DOMAIN b[n1] : i < j /\ IsAck(c, b[n1][j]) => b[n1][j].id = r.sndnxt
    BY <2>1, <2>2, <2>3, <2>5
  <2>6. ASSUME b[n1][i].id = r.sndnxt, NEW k \in Node, NEW j \in DOMAIN b[k], IsData(c, b[k][j])
        PROVE  b[k][j].id = r.sndnxt
    <3>1. PICK x \in DOMAIN a[k] : b[k][j] = a[k][x]
      BY <2>4
    <3> QED BY <2>1, <2>2, <2>6, <3>1
  <2> QED BY <2>2, <2>5, <2>6
<1> QED BY <1>2, <1>4 DEF OnWay

\* A packet of another connection is sent.
LEMMA OtherAppended ==
  ASSUME NEW a \in Frames, NEW n \in Node, NEW f \in Frame, NEW b, Joins(a, n, f, b),
         NEW c \in Conns, NEW r, NEW g, NEW st, NEW arr, OnWay(c, a, r, g, st, arr),
         ~IsData(c, f), n = c[1] => ~IsAck(c, f)
  PROVE  OnWay(c, b, r, g, st, arr)
<1>1. \A k \in Node : \A i \in DOMAIN b[k] :
        (i \in DOMAIN a[k] /\ b[k][i] = a[k][i]) \/ (k = n /\ b[k][i] = f)
  BY AppendFacts
<1>2. DataOK(c, b, r, g, st)
  BY <1>1 DEF OnWay, DataOK
<1>3. c[1] \in Node
  BY ConnFacts
<1>4. AckOK(c, b, r, g, st, arr)
  BY <1>1, <1>3 DEF OnWay, AckOK
<1> QED BY <1>2, <1>4 DEF OnWay

\* The packet g that c waits for is sent, once more or for the first time.
LEMMA DataAppended ==
  ASSUME NEW a \in Frames, NEW n \in Node, NEW f \in Frame, NEW b, Joins(a, n, f, b),
         NEW c \in Conns, NEW r, NEW g \in Packet, NEW st, NEW arr, OnWay(c, a, r, g, st, arr),
         IsData(c, f), n = r.to, f.id = r.sndnxt, f.m = g, g # NULL, st[g] \notin {"new", "sent"}
  PROVE  OnWay(c, b, r, g, st, arr)
<1>1. \A k \in Node : \A i \in DOMAIN b[k] :
        (i \in DOMAIN a[k] /\ b[k][i] = a[k][i]) \/ (k = n /\ b[k][i] = f)
  BY AppendFacts
<1>2. \A i \in DOMAIN b[n] : i \in DOMAIN a[n] \/ \A j \in DOMAIN b[n] : ~(i < j)
  <2>1. \A i \in DOMAIN b[n] : i \in Nat /\ (i \in DOMAIN a[n] \/ i = Len(a[n]) + 1)
    BY AppendFacts DEF Frames
  <2>2. \A i \in DOMAIN a[n] : i < Len(a[n]) + 1
    BY AppendFacts
  <2>3. Len(a[n]) \in Nat
    BY DEF Frames
  <2> QED BY <2>1, <2>2, <2>3
<1>3. DataOK(c, b, r, g, st)
  <2> SUFFICES ASSUME NEW k \in Node, NEW i \in DOMAIN b[k], IsData(c, b[k][i])
               PROVE  /\ k = r.to /\ g # NULL /\ b[k][i].m \in Packet /\ st[b[k][i].m] # "new"
                      /\ b[k][i].id = r.sndnxt =>
                           /\ b[k][i].m = g /\ st[g] # "sent"
                           /\ \A j \in DOMAIN b[k] : i < j /\ IsData(c, b[k][j]) => b[k][j].id = r.sndnxt
    BY DEF DataOK
  <2>1. CASE i \in DOMAIN a[k] /\ b[k][i] = a[k][i]
    BY <1>1, <2>1 DEF OnWay, DataOK
  <2>2. CASE i \notin DOMAIN a[k] /\ k = n /\ b[k][i] = f
    BY <1>1, <1>2, <2>2
  <2>3. CASE i \in DOMAIN a[k] /\ k = n /\ b[k][i] = f
    BY AppendFacts, <1>1, <2>1, <2>3
  <2> QED BY <1>1, <2>1, <2>2, <2>3
<1>4. c[1] \in Node /\ ~IsAck(c, f)
  BY ConnFacts DEF IsData, IsAck
<1>5. AckOK(c, b, r, g, st, arr)
  BY <1>1, <1>4 DEF OnWay, AckOK
<1> QED BY <1>3, <1>5 DEF OnWay

\* An acknowledgement for c is sent.
LEMMA AckAppended ==
  ASSUME NEW a \in Frames, NEW c \in Conns, NEW f \in Frame,
         NEW b, Joins(a, c[1], f, b),
         NEW r, NEW g, NEW st, NEW arr, OnWay(c, a, r, g, st, arr),
         IsAck(c, f), g # NULL,
         f.id = r.sndnxt =>
           /\ g \in arr /\ st[g] # "sent"
           /\ \A k \in Node : \A j \in DOMAIN a[k] : IsData(c, a[k][j]) => a[k][j].id = r.sndnxt,
         f.id # r.sndnxt =>
           \A i \in DOMAIN a[c[1]] : IsAck(c, a[c[1]][i]) => a[c[1]][i].id # r.sndnxt
  PROVE  OnWay(c, b, r, g, st, arr)
<1> DEFINE n == c[1]
<1>0. n \in Node /\ ~IsData(c, f)
  BY ConnFacts DEF IsData, IsAck
<1>1. \A k \in Node : \A i \in DOMAIN b[k] :
        (i \in DOMAIN a[k] /\ b[k][i] = a[k][i]) \/ (k = n /\ b[k][i] = f)
  BY <1>0, AppendFacts
<1>2. DataOK(c, b, r, g, st)
  BY <1>0, <1>1 DEF OnWay, DataOK
<1>3. ASSUME NEW i \in DOMAIN b[n], IsAck(c, b[n][i])
      PROVE  /\ g # NULL
             /\ b[n][i].id = r.sndnxt =>
                  /\ g \in arr /\ st[g] # "sent"
                  /\ \A j \in DOMAIN b[n] : i < j /\ IsAck(c, b[n][j]) => b[n][j].id = r.sndnxt
                  /\ \A k \in Node : \A j \in DOMAIN b[k] : IsData(c, b[k][j]) => b[k][j].id = r.sndnxt
  <2> SUFFICES ASSUME b[n][i].id = r.sndnxt
               PROVE  /\ f.id = r.sndnxt /\ g \in arr /\ st[g] # "sent"
                      /\ \A j \in DOMAIN a[n] : i < j /\ IsAck(c, a[n][j]) => a[n][j].id = r.sndnxt
                      /\ \A k \in Node : \A j \in DOMAIN a[k] : IsData(c, a[k][j]) => a[k][j].id = r.sndnxt
    BY <1>0, <1>1
  <2>1. CASE i \in DOMAIN a[n]
    <3>1. b[n][i] = a[n][i]
      BY <1>0, <2>1, AppendFacts
    <3> QED BY <1>0, <1>3, <2>1, <3>1 DEF OnWay, AckOK
  <2>2. CASE i \notin DOMAIN a[n]
    <3>1. i = Len(a[n]) + 1 /\ b[n][i] = f
      BY <1>0, <2>2, AppendFacts
    <3>2. \A j \in DOMAIN a[n] : j \in Nat /\ j < Len(a[n]) + 1
      BY <1>0, AppendFacts
    <3>3. Len(a[n]) \in Nat
      BY <1>0 DEF Frames
    <3> QED BY <3>1, <3>2, <3>3
  <2> QED BY <2>1, <2>2
<1>4. AckOK(c, b, r, g, st, arr)
  BY <1>3 DEF AckOK
<1> QED BY <1>2, <1>4 DEF OnWay

\* What does not change what OnWay looks at.
LEMMA OnWaySame ==
  ASSUME NEW c \in Conns, NEW a \in Frames, NEW r, NEW q, NEW g, NEW st, NEW new, NEW arr, NEW all,
         OnWay(c, a, r, g, st, arr), q.to = r.to, q.sndnxt = r.sndnxt, arr \subseteq all,
         \A m \in Packet : st[m] # "new" => new[m] # "new",
         g # NULL /\ new[g] = "sent" => st[g] = "sent"
  PROVE  OnWay(c, a, q, g, new, all)
<1>1. DataOK(c, a, q, g, new)
  BY DEF OnWay, DataOK
<1>2. AckOK(c, a, q, g, new, all)
  BY DEF OnWay, AckOK
<1> QED BY <1>1, <1>2 DEF OnWay

\* None of the packets under way has the id that c waits for from now on.
LEMMA OnWayFresh ==
  ASSUME NEW c \in Conns, NEW a \in Frames, NEW r, NEW q, NEW g, NEW h, NEW st, NEW new, NEW arr, NEW all,
         OnWay(c, a, r, g, st, arr), q.to = r.to, g # NULL => h # NULL,
         \A m \in Packet : st[m] # "new" => new[m] # "new",
         \A k \in Node : \A i \in DOMAIN a[k] : IsData(c, a[k][i]) => a[k][i].id # q.sndnxt,
         \A i \in DOMAIN a[c[1]] : IsAck(c, a[c[1]][i]) => a[c[1]][i].id # q.sndnxt
  PROVE  OnWay(c, a, q, h, new, all)
<1>1. DataOK(c, a, q, h, new)
  BY DEF OnWay, DataOK
<1>2. AckOK(c, a, q, h, new, all)
  BY DEF OnWay, AckOK
<1> QED BY <1>1, <1>2 DEF OnWay

\* None of the packets under way is of c.
LEMMA OnWayNone ==
  ASSUME NEW c \in Conns, NEW a \in Frames, NEW q, NEW g, NEW st, NEW arr,
         \A k \in Node : \A i \in DOMAIN a[k] : ~IsData(c, a[k][i]),
         \A i \in DOMAIN a[c[1]] : ~IsAck(c, a[c[1]][i])
  PROVE  OnWay(c, a, q, g, st, arr)
BY DEF OnWay, DataOK, AckOK

--------------------------------------------------------------------------------
(* The actions keep the promise.                                                *)

Promise == PT!Next \/ UNCHANGED <<status, arrived, hurried>>

LEMMA InvParts ==
  ASSUME TransferInv
  PROVE  /\ PoolInv /\ air \in Frames
         /\ conn \in [Conns -> ConnType] /\ given \in [Conns -> Packet \cup {NULL}]
         /\ block \in [Node -> [Buffer -> Block]]
         /\ status \in [Packet -> PT!Status] /\ arrived \in SUBSET Packet
         /\ \A c \in Conns : InvOf(c)
         /\ hurried \in SUBSET Packet /\ NULL \notin hurried
         /\ Known(air, status) /\ NoneNew(hurried, status)
BY NodeAssumption DEF TransferInv, PoolInv, Typed, PT!TypeOK

LEMMA InvOfParts ==
  ASSUME PoolInv', air' \in Frames, status' \in [Packet -> PT!Status], arrived' \in SUBSET Packet,
         hurried' \in SUBSET Packet, Known(air', status'), NoneNew(hurried', status'),
         \A c \in Conns : InvOf(c)'
  PROVE  TransferInv'
BY DEF TransferInv, PT!TypeOK

\* Every packet that was given stays given.
LEMMA StillKnown ==
  ASSUME NEW a \in Frames, NEW st, NEW new, NEW h \in SUBSET Packet, Known(a, st), NoneNew(h, st),
         \A m \in Packet : st[m] # "new" => new[m] # "new"
  PROVE  Known(a, new) /\ NoneNew(h, new)
BY DEF Known, NoneNew

LEMMA KnownLeaves ==
  ASSUME NEW a \in Frames, NEW b \in Frames, NEW st, Known(a, st),
         \A k \in Node : \A i \in DOMAIN b[k] : \E j \in DOMAIN a[k] : b[k][i] = a[k][j]
  PROVE  Known(b, st)
<1> SUFFICES ASSUME NEW k \in Node, NEW i \in DOMAIN b[k], b[k][i].type = "DATA"
             PROVE  b[k][i].m \in Packet /\ st[b[k][i].m] # "new"
  BY DEF Known
<1>1. PICK j \in DOMAIN a[k] : b[k][i] = a[k][j]
  OBVIOUS
<1> QED BY <1>1 DEF Known

LEMMA KnownJoins ==
  ASSUME NEW a \in Frames, NEW b, NEW to \in Node, NEW f \in Frame, NEW st, Known(a, st),
         f.type = "DATA" => f.m \in Packet /\ st[f.m] # "new", Joins(a, to, f, b)
  PROVE  Known(b, st)
<1> SUFFICES ASSUME NEW k \in Node, NEW i \in DOMAIN b[k], b[k][i].type = "DATA"
             PROVE  b[k][i].m \in Packet /\ st[b[k][i].m] # "new"
  BY DEF Known
<1>1. CASE k # to
  <2>1. b[k] = a[k]
    BY <1>1 DEF Joins, Frames
  <2> QED BY <2>1 DEF Known
<1>2. CASE k = to
  <2>1. b[k] = Append(a[k], f) /\ a[k] \in Seq(Frame)
    BY <1>2 DEF Joins, Frames
  <2>2. b[k][i] = f \/ (i \in DOMAIN a[k] /\ b[k][i] = a[k][i])
    BY <2>1
  <2> QED BY <2>2 DEF Known
<1> QED BY <1>1, <1>2

\* A connection that a step does not touch.
LEMMA RestKept ==
  ASSUME NEW k \in Conns, GivenOK(k), conn'[k] = conn[k], given'[k] = given[k],
         given[k] # NULL => /\ status'[given[k]] = status[given[k]]
                            /\ \A d \in Conns : given'[d] = given[k] => given[d] = given[k]
  PROVE  GivenOK(k)'
BY DEF GivenOK

\* A packet of one connection is that of no other.
LEMMA GivenApart ==
  ASSUME TransferInv, NEW c \in Conns, NEW k \in Conns, k # c, given[k] # NULL
  PROVE  given[k] # given[c]
BY InvParts DEF InvOf, GivenOK

LEMMA OpenKeeps ==
  ASSUME TransferInv, ~Reopens, NEW c \in Conns, runicast_open(c)
  PROVE  TransferInv' /\ Promise
<1>1. /\ conn \in [Conns -> ConnType] /\ air \in Frames /\ PoolInv /\ \A k \in Conns : InvOf(k)
      /\ status \in [Packet -> PT!Status] /\ arrived \in SUBSET Packet
      /\ hurried \in SUBSET Packet /\ NULL \notin hurried
      /\ Known(air, status) /\ NoneNew(hurried, status)
  BY InvParts
<1>2. /\ UNCHANGED <<block, air, given, status, arrived, hurried>> /\ conn[c].state = "new"
      /\ conn' = [conn EXCEPT ![c] = [conn[c] EXCEPT !.state = "open", !.rxmit = 0, !.sndnxt = 0]]
  BY DEF runicast_open
<1>3. given[c] = NULL /\ ~conn[c].timer
  BY <1>1, <1>2 DEF InvOf, GivenOK, PoolInv, Fresh
<1>4. PoolInv'
  BY <1>1, OpenKeepsPool
<1>5. conn'[c].to = conn[c].to /\ ~conn'[c].timer /\ conn'[c].state = "open"
  <2>1. conn[c] \in ConnType
    BY <1>1
  <2> QED BY <1>1, <1>2, <1>3, <2>1 DEF ConnType
<1>6. InvOf(c)'
  <2>1. OnWay(c, air, conn[c], NULL, status, arrived)
    BY <1>1, <1>3 DEF InvOf, Waited
  <2>2. /\ \A k \in Node : \A i \in DOMAIN air[k] : ~IsData(c, air[k][i])
        /\ \A i \in DOMAIN air[c[1]] : ~IsAck(c, air[c[1]][i])
    BY <2>1 DEF OnWay, DataOK, AckOK
  <2>3. OnWay(c, air, conn'[c], NULL, status, arrived)
    BY <1>1, <2>2, OnWayNone
  <2>4. GivenOK(c)'
    BY <1>1, <1>2, <1>3, <1>5 DEF InvOf, GivenOK
  <2> QED BY <1>2, <1>3, <2>3, <2>4 DEF InvOf
<1>7. ASSUME NEW k \in Conns, k # c PROVE InvOf(k)'
  <2>1. conn'[k] = conn[k]
    BY <1>1, <1>2, <1>7
  <2>2. GivenOK(k)'
    BY <1>1, <1>2, <2>1, RestKept DEF InvOf
  <2> QED BY <1>1, <1>2, <2>1, <2>2 DEF InvOf, Waited
<1>8. TransferInv'
  BY <1>1, <1>2, <1>4, <1>6, <1>7, InvOfParts
<1> QED BY <1>2, <1>8 DEF Promise

LEMMA CloseKeeps ==
  ASSUME TransferInv, ~Reopens, NEW c \in Conns, runicast_close(c)
  PROVE  TransferInv' /\ Promise
<1>1. /\ conn \in [Conns -> ConnType] /\ air \in Frames /\ PoolInv /\ \A k \in Conns : InvOf(k)
      /\ status \in [Packet -> PT!Status] /\ arrived \in SUBSET Packet
      /\ given \in [Conns -> Packet \cup {NULL}] /\ hurried \in SUBSET Packet
      /\ Known(air, status) /\ NoneNew(hurried, status)
  BY InvParts
<1>2. /\ UNCHANGED <<air, given, arrived, hurried>> /\ conn[c].state = "open"
      /\ conn' = [conn EXCEPT ![c] = [conn[c] EXCEPT !.state = "closed", !.timer = FALSE]]
      /\ status' = [k \in Packet |-> IF k \in Displaced(c) THEN "dropped" ELSE status[k]]
  BY DEF runicast_close
<1>3. PoolInv'
  BY <1>1, CloseKeepsPool
<1>4. conn'[c].to = conn[c].to /\ conn'[c].sndnxt = conn[c].sndnxt /\ ~conn'[c].timer /\ conn'[c].state = "closed"
  <2>1. conn[c] \in ConnType
    BY <1>1
  <2> QED BY <1>1, <1>2, <2>1 DEF ConnType
<1>5. /\ status' \in [Packet -> PT!Status]
      /\ \A m \in Packet : status[m] # "new" => status'[m] # "new"
      /\ \A m \in Packet : status'[m] = "sent" => status[m] = "sent"
      /\ \A m \in Packet : m # given[c] => status'[m] = status[m]
  BY <1>1, <1>2 DEF PT!Status, Displaced
<1>6. ASSUME NEW k \in Conns, Waited(k) PROVE OnWay(k, air, conn'[k], given[k], status', arrived)
  <2>1. conn'[k].to = conn[k].to /\ conn'[k].sndnxt = conn[k].sndnxt
    BY <1>1, <1>2, <1>4
  <2>2. given[k] # NULL => given[k] \in Packet
    BY <1>1
  <2>3. OnWay(k, air, conn[k], given[k], status, arrived)
    BY <1>1, <1>6 DEF InvOf
  <2> QED BY <1>1, <1>5, <2>1, <2>2, <2>3, OnWaySame
<1>7. GivenOK(c)'
  <2>1. given[c] # NULL => given[c] \in Packet
    BY <1>1
  <2>2. GivenOK(c)
    BY <1>1 DEF InvOf
  <2> QED BY <1>2, <1>4, <1>5, <2>1, <2>2 DEF GivenOK
<1>8. ASSUME NEW k \in Conns, k # c PROVE GivenOK(k)'
  <2>1. conn'[k] = conn[k] /\ given' = given
    BY <1>1, <1>2, <1>8
  <2>2. given[k] # NULL => status'[given[k]] = status[given[k]]
    BY <1>1, <1>5, <1>8, GivenApart
  <2> QED BY <1>1, <2>1, <2>2, RestKept DEF InvOf
<1>9. TransferInv'
  <2>1. \A k \in Conns : InvOf(k)'
    BY <1>2, <1>6, <1>7, <1>8 DEF InvOf, Waited
  <2>2. air' = air /\ arrived' = arrived /\ hurried' = hurried
    BY <1>2
  <2>3. PICK st : st = status'
    OBVIOUS
  <2>4. Known(air, st) /\ NoneNew(hurried, st)
    BY <1>1, <1>5, <2>3, StillKnown
  <2> QED BY <1>1, <1>3, <1>5, <2>1, <2>2, <2>3, <2>4, InvOfParts
<1>10. Promise
  <2>1. CASE Displaced(c) = {}
    BY <1>1, <1>2, <2>1 DEF Promise
  <2>2. CASE Displaced(c) # {}
    <3>1. given[c] \in Packet /\ status[given[c]] = "accepted" /\ Displaced(c) = {given[c]}
      BY <1>1, <2>2 DEF Displaced
    <3>2. status' = [status EXCEPT ![given[c]] = "dropped"]
      BY <1>1, <1>2, <3>1
    <3>3. PT!GiveUp(given[c])
      BY <1>2, <3>1, <3>2 DEF PT!GiveUp
    <3> QED BY <3>1, <3>3 DEF Promise, PT!Next
  <2> QED BY <2>1, <2>2
<1> QED BY <1>9, <1>10

LEMMA TransmitFacts ==
  ASSUME air \in Frames, NEW to \in Node, NEW f \in Frame, Transmit(to, f)
  PROVE  air' \in Frames /\ (air' = air \/ Joins(air, to, f, air'))
<1>1. CASE air' = air
  BY <1>1
<1>2. CASE Joins(air, to, f, air')
  BY <1>2, AppendFacts
<1> QED BY <1>1, <1>2 DEF Transmit, Joins

\* A transmission of c: nothing is lost of what is known about the packets under way.
LEMMA Transmitted ==
  ASSUME air \in Frames, NEW c \in Conns, NEW r, r.to \in Node, r.sndnxt \in Id,
         NEW g \in Packet, g # NULL, NEW st, NEW arr, st[g] \notin {"new", "sent"},
         Transmit(r.to, [type |-> "DATA", id |-> r.sndnxt, m |-> g, channel |-> c[2], from |-> c[1]])
  PROVE  /\ air' \in Frames
         /\ OnWay(c, air, r, g, st, arr) => OnWay(c, air', r, g, st, arr)
         /\ \A k \in Conns \ {c} : \A q, h : OnWay(k, air, q, h, st, arr) => OnWay(k, air', q, h, st, arr)
         /\ Known(air, st) => Known(air', st)
<1> DEFINE f == [type |-> "DATA", id |-> r.sndnxt, m |-> g, channel |-> c[2], from |-> c[1]]
<1>1. c[1] \in Node /\ c[2] \in Channel /\ c = <<c[1], c[2]>>
  BY ConnFacts
<1>2. f \in Frame
  BY <1>1 DEF Frame
<1>3. IsData(c, f) /\ f.id = r.sndnxt /\ f.m = g /\ \A k \in Conns : ~IsAck(k, f)
  BY DEF IsData, IsAck
<1>4. ASSUME NEW k \in Conns \ {c} PROVE ~IsData(k, f)
  <2>1. k = <<k[1], k[2]>>
    BY ConnFacts
  <2> QED BY <1>1, <2>1 DEF IsData
<1> HIDE DEF f
<1>5. Transmit(r.to, f)
  BY DEF f
<1>6. air' \in Frames /\ (air' = air \/ Joins(air, r.to, f, air'))
  BY <1>2, <1>5, TransmitFacts
<1>7. CASE air' = air
  BY <1>6, <1>7
<1>8. CASE Joins(air, r.to, f, air')
  <2>1. PICK b \in Frames : b = air'
    BY <1>6
  <2>2. Joins(air, r.to, f, b)
    BY <1>8, <2>1
  <2>3. OnWay(c, air, r, g, st, arr) => OnWay(c, b, r, g, st, arr)
    BY <1>2, <1>3, <2>2, DataAppended
  <2>4. ASSUME NEW k \in Conns \ {c}, NEW q, NEW h, OnWay(k, air, q, h, st, arr)
        PROVE  OnWay(k, b, q, h, st, arr)
    BY <1>2, <1>3, <1>4, <2>2, <2>4, OtherAppended
  <2>5. Known(air, st) => Known(b, st)
    BY <1>2, <1>3, <2>2, KnownJoins
  <2> QED BY <1>6, <2>1, <2>3, <2>4, <2>5
<1> QED BY <1>6, <1>7, <1>8

LEMMA SentTimer ==
  ASSUME NEW r \in ConnType
  PROVE  Sent(r).timer <=> ~TimedOut(r)
<1> DEFINE t == ~TimedOut(r)
           x == r.rxmit + 1
<1>1. t \in BOOLEAN
  BY Zenon
<1>2. Sent(r) = [r EXCEPT !.rxmit = x, !.timer = t]
  BY DEF Sent
<1> HIDE DEF t, x
<1>3. Sent(r).timer = t
  BY <1>1, <1>2 DEF ConnType
<1> QED BY <1>1, <1>3 DEF t

LEMMA SentTo ==
  ASSUME NEW r \in ConnType
  PROVE  Sent(r).to = r.to
<1> DEFINE t == ~TimedOut(r)
           x == r.rxmit + 1
<1>1. Sent(r) = [r EXCEPT !.rxmit = x, !.timer = t]
  BY DEF Sent
<1> HIDE DEF t, x
<1> QED BY <1>1 DEF ConnType

LEMMA RetransmitKeeps ==
  ASSUME TransferInv, ~Reopens, NEW c \in Conns, Retransmit(c)
  PROVE  TransferInv' /\ Promise
<1> DEFINE g == given[c]
           d == Sent(conn[c])
<1>1. /\ conn \in [Conns -> ConnType] /\ air \in Frames /\ PoolInv /\ \A k \in Conns : InvOf(k)
      /\ status \in [Packet -> PT!Status] /\ arrived \in SUBSET Packet
      /\ given \in [Conns -> Packet \cup {NULL}] /\ hurried \in SUBSET Packet
      /\ Known(air, status) /\ NoneNew(hurried, status)
  BY InvParts
<1>2. conn[c] \in ConnType /\ conn[c].timer
  BY <1>1 DEF Retransmit
<1>3. g \in Packet /\ g # NULL /\ status[g] = "accepted" /\ conn[c].state = "open"
  BY <1>1, <1>2 DEF InvOf, GivenOK, PoolInv, Fresh
<1>4. /\ d \in ConnType /\ d.state = "open" /\ d.sndnxt = conn[c].sndnxt /\ d.to = conn[c].to
      /\ d.timer <=> ~TimedOut(conn[c])
  BY <1>2, <1>3, SentFacts, SentTimer, SentTo
<1>5. /\ UNCHANGED <<block, given, arrived, hurried>> /\ conn' = [conn EXCEPT ![c] = d]
      /\ status' = IF TimedOut(conn[c]) THEN [status EXCEPT ![g] = "timedout"] ELSE status
  BY <1>1, <1>3 DEF Retransmit
<1>6. Transmit(conn[c].to, [type |-> "DATA", id |-> conn[c].sndnxt, m |-> g, channel |-> c[2], from |-> c[1]])
  <2>1. block[c[1]][conn[c].buf] = [used |-> TRUE, m |-> g, id |-> conn[c].sndnxt]
    BY <1>1, <1>2 DEF PoolInv, SendsOwnPacket, Conns
  <2> QED BY <2>1 DEF Retransmit
<1>7. PoolInv'
  BY <1>1, RetransmitKeepsPool
<1> HIDE DEF d
<1>8. conn'[c] = d /\ \A k \in Conns \ {c} : conn'[k] = conn[k]
  BY <1>1, <1>5
<1>9. /\ status' \in [Packet -> PT!Status]
      /\ \A m \in Packet : status[m] # "new" => status'[m] # "new"
      /\ \A m \in Packet : status'[m] = "sent" => status[m] = "sent"
      /\ \A m \in Packet : m # g => status'[m] = status[m]
      /\ status'[g] \in {"accepted", "timedout"} /\ (~TimedOut(conn[c]) => status'[g] = "accepted")
  BY <1>1, <1>3, <1>5 DEF PT!Status
<1>10. ASSUME NEW k \in Conns, Waited(k)
       PROVE  OnWay(k, air, conn'[k], given[k], status', arrived)
  <2>1. conn'[k].to = conn[k].to /\ conn'[k].sndnxt = conn[k].sndnxt
    BY <1>4, <1>8
  <2>2. given[k] # NULL => given[k] \in Packet
    BY <1>1
  <2>3. OnWay(k, air, conn[k], given[k], status, arrived)
    BY <1>1, <1>10 DEF InvOf
  <2> QED BY <1>1, <1>9, <2>1, <2>2, <2>3, OnWaySame
<1>11. /\ air' \in Frames /\ Known(air', status') /\ NoneNew(hurried, status')
       /\ \A k \in Conns : Waited(k) => OnWay(k, air', conn'[k], given[k], status', arrived)
  <2>1. PICK st : st = status'
    OBVIOUS
  <2>2. /\ conn[c].to \in Node /\ conn[c].sndnxt \in Id /\ st[g] \notin {"new", "sent"}
        /\ d.to = conn[c].to /\ d.sndnxt = conn[c].sndnxt
    BY <1>2, <1>4, <1>9, <2>1 DEF ConnType
  <2>3. Transmit(d.to, [type |-> "DATA", id |-> d.sndnxt, m |-> g, channel |-> c[2], from |-> c[1]])
    BY <1>6, <2>2
  <2>4. /\ air' \in Frames
        /\ OnWay(c, air, d, g, st, arrived) => OnWay(c, air', d, g, st, arrived)
        /\ \A k \in Conns \ {c} : \A q, h : OnWay(k, air, q, h, st, arrived) => OnWay(k, air', q, h, st, arrived)
        /\ Known(air, st) => Known(air', st)
    <3> HIDE DEF g
    <3> QED BY <1>1, <1>3, <2>2, <2>3, Transmitted
  <2>5. Known(air, st) /\ NoneNew(hurried, st)
    BY <1>1, <1>9, <2>1, StillKnown
  <2> QED BY <1>8, <1>10, <2>1, <2>4, <2>5
<1>12. GivenOK(c)'
  <2>1. GivenOK(c)
    BY <1>1 DEF InvOf
  <2> QED BY <1>3, <1>4, <1>5, <1>8, <1>9, <2>1 DEF GivenOK
<1>13. ASSUME NEW k \in Conns, k # c PROVE GivenOK(k)'
  <2>1. conn'[k] = conn[k] /\ given' = given
    BY <1>5, <1>8, <1>13
  <2>2. given[k] # NULL => status'[given[k]] = status[given[k]]
    BY <1>1, <1>9, <1>13, GivenApart
  <2> QED BY <1>1, <2>1, <2>2, RestKept DEF InvOf
<1>14. TransferInv'
  <2>1. \A k \in Conns : InvOf(k)'
    BY <1>5, <1>11, <1>12, <1>13 DEF InvOf, Waited
  <2>2. arrived' = arrived /\ hurried' = hurried
    BY <1>5
  <2> QED BY <1>1, <1>7, <1>9, <1>11, <2>1, <2>2, InvOfParts
<1>15. Promise
  <2>1. CASE TimedOut(conn[c])
    <3>1. PT!GiveUp(g)
      BY <1>3, <1>5, <2>1 DEF PT!GiveUp
    <3> QED BY <1>3, <3>1 DEF Promise, PT!Next
  <2>2. CASE ~TimedOut(conn[c])
    BY <1>5, <2>2 DEF Promise
  <2> QED BY <2>1, <2>2
<1> QED BY <1>14, <1>15

LEMMA SendKeeps ==
  ASSUME TransferInv, ~Reopens, NEW c \in Conns, NEW to \in Node, NEW max \in Attempts,
         runicast_send(c, to, max)
  PROVE  TransferInv' /\ Promise
<1> DEFINE m == CHOOSE k \in Unsent : TRUE
           freed == Free(block[c[1]], conn[c].buf)
           b == Alloc(freed)
           reset == [conn[c] EXCEPT !.max = max, !.rxmit = 0, !.buf = b]
           aimed == [reset EXCEPT !.to = to]
           d == Sent(aimed)
<1>1. /\ conn \in [Conns -> ConnType] /\ air \in Frames /\ PoolInv /\ \A k \in Conns : InvOf(k)
      /\ status \in [Packet -> PT!Status] /\ arrived \in SUBSET Packet
      /\ given \in [Conns -> Packet \cup {NULL}] /\ block \in [Node -> [Buffer -> Block]]
      /\ hurried \in SUBSET Packet /\ NULL \notin hurried
      /\ Known(air, status) /\ NoneNew(hurried, status)
  BY InvParts
<1>2. m \in Packet /\ m # NULL /\ status[m] = "new" /\ conn[c].state = "open" /\ m \notin hurried
  BY <1>1, NodeAssumption DEF runicast_send, Unsent, NoneNew
<1>3. arrived' = arrived
  BY DEF runicast_send
<1>4. b = 0 => conn' = [conn EXCEPT ![c] = reset] /\ UNCHANGED <<air, given, status, hurried>>
  BY DEF runicast_send
<1>5. b # 0 => /\ conn' = [conn EXCEPT ![c] = d]
               /\ hurried' = IF Patient(c, to) THEN hurried ELSE hurried \cup {m}
               /\ Transmit(to, [type |-> "DATA", id |-> conn[c].sndnxt, m |-> m, channel |-> c[2], from |-> c[1]])
               /\ given' = [given EXCEPT ![c] = m]
               /\ status' = [k \in Packet |->
                               IF k = m THEN IF TimedOut(reset) THEN "timedout" ELSE "accepted"
                               ELSE IF k \in Displaced(c) THEN "dropped" ELSE status[k]]
  BY DEF runicast_send
<1>6. PoolInv'
  BY <1>1, SendKeepsPool
<1>7. b \in Buffer \cup {0}
  BY AllocFacts
<1>8. conn[c] \in ConnType /\ max \in Nat
  BY <1>1, SizeAssumption
<1> HIDE DEF b, freed, m
<1>9. /\ reset \in ConnType /\ reset.state = conn[c].state /\ reset.to = conn[c].to
      /\ reset.sndnxt = conn[c].sndnxt /\ reset.timer = conn[c].timer
      /\ reset.rxmit = 0 /\ reset.max = max
  BY <1>7, <1>8 DEF ConnType
<1>10. /\ aimed \in ConnType /\ aimed.state = "open" /\ aimed.to = to
       /\ aimed.sndnxt = conn[c].sndnxt /\ aimed.rxmit = 0 /\ aimed.max = max
  BY <1>2, <1>7, <1>8 DEF ConnType
<1> HIDE DEF reset, aimed
<1>11. TimedOut(aimed) <=> TimedOut(reset)
  BY <1>9, <1>10 DEF TimedOut
<1>12. /\ d \in ConnType /\ d.state = "open" /\ d.to = to /\ d.sndnxt = conn[c].sndnxt
       /\ d.timer <=> ~TimedOut(reset)
  BY <1>10, <1>11, SentFacts, SentTimer, SentTo
<1> HIDE DEF d
<1>13. CASE b = 0
  <2>1. conn'[c] = reset /\ \A k \in Conns \ {c} : conn'[k] = conn[k]
    BY <1>1, <1>4, <1>13
  <2>2. UNCHANGED <<air, given, status, arrived, hurried>>
    BY <1>3, <1>4, <1>13
  <2>3. ASSUME NEW k \in Conns, Waited(k)
        PROVE  OnWay(k, air, conn'[k], given[k], status, arrived)
    <3>1. conn'[k].to = conn[k].to /\ conn'[k].sndnxt = conn[k].sndnxt
      BY <1>9, <2>1
    <3>2. OnWay(k, air, conn[k], given[k], status, arrived)
      BY <1>1, <2>3 DEF InvOf
    <3> QED BY <1>1, <3>1, <3>2, OnWaySame
  <2>4. ASSUME NEW k \in Conns PROVE GivenOK(k)'
    <3>1. conn'[k].timer = conn[k].timer /\ conn'[k].state = conn[k].state
      BY <1>9, <2>1
    <3>2. GivenOK(k)
      BY <1>1 DEF InvOf
    <3> QED BY <2>2, <3>1, <3>2 DEF GivenOK
  <2>5. \A k \in Conns : InvOf(k)'
    BY <2>2, <2>3, <2>4 DEF InvOf, Waited
  <2>6. TransferInv'
    BY <1>1, <1>6, <2>2, <2>5, InvOfParts
  <2> QED BY <2>2, <2>6 DEF Promise
<1>14. CASE b # 0
  <2> DEFINE g == given[c]
  <2>1. /\ conn'[c] = d /\ (\A k \in Conns \ {c} : conn'[k] = conn[k])
        /\ given'[c] = m /\ (\A k \in Conns \ {c} : given'[k] = given[k])
        /\ hurried' \in {hurried, hurried \cup {m}} /\ (m \notin hurried' => Patient(c, to))
    BY <1>1, <1>5, <1>14
  <2>2. /\ status' \in [Packet -> PT!Status]
        /\ \A k \in Packet : status[k] # "new" => status'[k] # "new"
        /\ \A k \in Packet : status'[k] = "sent" => status[k] = "sent"
        /\ \A k \in Packet : k # g /\ k # m => status'[k] = status[k]
        /\ status'[m] \in {"accepted", "timedout"} /\ (~TimedOut(reset) => status'[m] = "accepted")
    BY <1>1, <1>2, <1>5, <1>14 DEF PT!Status, Displaced
  <2>3. ASSUME NEW k \in Conns, given[k] # NULL PROVE given[k] \in Packet /\ given[k] # m
    BY <1>1, <1>2, <2>3 DEF InvOf, GivenOK
  <2>4. ASSUME Patient(c, to) PROVE OnWay(c, air, d, m, status', arrived)
    <3>1. g \notin hurried => OnWay(c, air, conn[c], g, status, arrived)
      BY <1>1 DEF InvOf, Waited
    <3>2. CASE \A n \in Node : \A i \in DOMAIN air[n] : air[n][i].channel # c[2]
      <4>1. /\ \A k \in Node : \A i \in DOMAIN air[k] : ~IsData(c, air[k][i])
            /\ \A i \in DOMAIN air[c[1]] : ~IsAck(c, air[c[1]][i])
        BY <3>2, ConnFacts DEF IsData, IsAck
      <4> QED BY <1>1, <4>1, OnWayNone
    <3>3. CASE g = NULL
      <4>1. /\ \A k \in Node : \A i \in DOMAIN air[k] : ~IsData(c, air[k][i])
            /\ \A i \in DOMAIN air[c[1]] : ~IsAck(c, air[c[1]][i])
        BY <1>1, <3>1, <3>3 DEF OnWay, DataOK, AckOK
      <4> QED BY <1>1, <4>1, OnWayNone
    <3>4. CASE g # NULL /\ status[g] = "sent" /\ conn[c].to = to /\ g \notin hurried
      <4>1. /\ \A k \in Node : \A i \in DOMAIN air[k] : IsData(c, air[k][i]) => air[k][i].id # d.sndnxt
            /\ \A i \in DOMAIN air[c[1]] : IsAck(c, air[c[1]][i]) => air[c[1]][i].id # d.sndnxt
        BY <1>12, <3>1, <3>4 DEF OnWay, DataOK, AckOK
      <4>2. d.to = conn[c].to
        BY <1>12, <3>4
      <4>3. PICK st : st = status'
        OBVIOUS
      <4>4. /\ OnWay(c, air, conn[c], g, status, arrived) /\ m # NULL
            /\ \A k \in Packet : status[k] # "new" => st[k] # "new"
        BY <1>2, <2>2, <3>1, <3>4, <4>3
      <4>5. OnWay(c, air, d, m, st, arrived)
        <5> HIDE DEF g
        <5> QED BY <1>1, <4>1, <4>2, <4>4, OnWayFresh
      <4> QED BY <4>3, <4>5
    <3> QED BY <2>4, <3>2, <3>3, <3>4 DEF Patient
  <2>5. ASSUME NEW k \in Conns, k # c, given[k] \notin hurried
        PROVE  OnWay(k, air, conn[k], given[k], status', arrived)
    <3>1. OnWay(k, air, conn[k], given[k], status, arrived)
      BY <1>1, <2>5 DEF InvOf, Waited
    <3>2. given[k] # NULL => given[k] \in Packet
      BY <1>1
    <3> QED BY <1>1, <2>2, <3>1, <3>2, OnWaySame
  <2>6. /\ air' \in Frames /\ Known(air', status') /\ NoneNew(hurried', status')
        /\ \A k \in Conns : given'[k] \notin hurried' =>
             OnWay(k, air', conn'[k], given'[k], status', arrived)
    <3>1. PICK st : st = status'
      OBVIOUS
    <3>2. d.to \in Node /\ d.sndnxt \in Id /\ st[m] \notin {"new", "sent"}
      BY <1>12, <2>2, <3>1 DEF ConnType
    <3>3. Transmit(d.to, [type |-> "DATA", id |-> d.sndnxt, m |-> m, channel |-> c[2], from |-> c[1]])
      BY <1>5, <1>12, <1>14
    <3>4. /\ air' \in Frames
          /\ OnWay(c, air, d, m, st, arrived) => OnWay(c, air', d, m, st, arrived)
          /\ \A k \in Conns \ {c} : \A q, h : OnWay(k, air, q, h, st, arrived) => OnWay(k, air', q, h, st, arrived)
          /\ Known(air, st) => Known(air', st)
      BY <1>1, <1>2, <3>2, <3>3, Transmitted
    <3>5. Known(air, st) /\ NoneNew(hurried, st)
      BY <1>1, <2>2, <3>1, StillKnown
    <3>6. NoneNew(hurried', st)
      BY <2>1, <3>2, <3>5 DEF NoneNew
    <3>7. ASSUME NEW k \in Conns, given'[k] \notin hurried'
          PROVE  OnWay(k, air', conn'[k], given'[k], st, arrived)
      <4>1. CASE k = c
        BY <2>1, <2>4, <3>1, <3>4, <3>7, <4>1
      <4>2. CASE k # c
        <5>1. given'[k] = given[k] /\ given[k] \notin hurried /\ conn'[k] = conn[k]
          BY <2>1, <3>7, <4>2
        <5> QED BY <2>5, <3>1, <3>4, <4>2, <5>1
      <4> QED BY <4>1, <4>2
    <3> QED BY <3>1, <3>4, <3>5, <3>6, <3>7
  <2>7. GivenOK(c)'
    <3>1. conn'[c].state = "open" /\ (conn'[c].timer => status'[m] = "accepted")
      BY <1>12, <2>1, <2>2
    <3>2. \A k \in Conns : given'[k] = m => k = c
      BY <1>2, <2>1, <2>3
    <3> QED BY <1>2, <2>1, <2>2, <3>1, <3>2 DEF GivenOK
  <2>8. ASSUME NEW k \in Conns, k # c PROVE GivenOK(k)'
    <3>1. conn'[k] = conn[k] /\ given'[k] = given[k]
      BY <2>1, <2>8
    <3>2. ASSUME given[k] # NULL
          PROVE  /\ status'[given[k]] = status[given[k]]
                 /\ \A e \in Conns : given'[e] = given[k] => given[e] = given[k]
      <4>1. given[k] # g /\ given[k] # m /\ given[k] \in Packet
        BY <2>3, <2>8, <3>2, GivenApart
      <4> QED BY <2>1, <2>2, <4>1
    <3> QED BY <1>1, <3>1, <3>2, RestKept DEF InvOf
  <2>9. TransferInv'
    <3>1. \A k \in Conns : InvOf(k)'
      BY <1>3, <2>6, <2>7, <2>8 DEF InvOf, Waited
    <3>2. hurried' \in SUBSET Packet
      BY <1>1, <1>2, <2>1
    <3> QED BY <1>1, <1>3, <1>6, <2>2, <2>6, <3>1, <3>2, InvOfParts
  <2>10. PT!Accept(m, Displaced(c))
    <3>1. m \notin Displaced(c) /\ \A k \in Displaced(c) : status[k] = "accepted"
      BY <1>2 DEF Displaced
    <3>2. \E s \in {"accepted", "timedout"} :
            status' = [k \in Packet |-> IF k = m THEN s
                                        ELSE IF k \in Displaced(c) THEN "dropped" ELSE status[k]]
      BY <1>5, <1>14
    <3> QED BY <1>2, <1>3, <2>1, <3>1, <3>2 DEF PT!Accept
  <2>11. Displaced(c) \subseteq Packet
    BY <1>1 DEF Displaced
  <2> QED BY <1>2, <2>9, <2>10, <2>11 DEF Promise, PT!Next
<1> QED BY <1>13, <1>14

LEMMA NextIdDiffers == \A i \in Id : NextId(i) # i
<1> SUFFICES ASSUME NEW i \in Id PROVE NextId(i) # i
  OBVIOUS
<1>1. Ids \in Nat /\ Ids > 1 /\ i \in Nat /\ i < Ids
  BY SizeAssumption DEF Id
<1>2. CASE i + 1 < Ids
  <2>1. (i + 1) % Ids = i + 1
    BY <1>1, <1>2
  <2> QED BY <1>1, <2>1 DEF NextId
<1>3. CASE i + 1 = Ids
  <2>1. (i + 1) % Ids = 0
    BY <1>1, <1>3
  <2> QED BY <1>1, <1>3, <2>1 DEF NextId
<1> QED BY <1>1, <1>2, <1>3

LEMMA AckKeeps ==
  ASSUME TransferInv, ~Reopens, NEW n \in Node, ReceiveAck(n)
  PROVE  TransferInv' /\ Promise
<1> DEFINE f == Head(air[n])
<1>1. /\ conn \in [Conns -> ConnType] /\ air \in Frames /\ PoolInv /\ \A k \in Conns : InvOf(k)
      /\ status \in [Packet -> PT!Status] /\ arrived \in SUBSET Packet
      /\ given \in [Conns -> Packet \cup {NULL}] /\ hurried \in SUBSET Packet /\ NULL \notin hurried
      /\ Known(air, status) /\ NoneNew(hurried, status)
  BY InvParts
<1>2. /\ 1 \in DOMAIN air[n] /\ f = air[n][1] /\ f \in Frame
      /\ Taken(n) \in Frames /\ Leaves(air, n, Taken(n))
      /\ \A k \in Node : \A i \in DOMAIN Taken(n)[k] :
           \E j \in DOMAIN air[k] : Taken(n)[k][i] = air[k][j] /\ (k = n => 1 < j)
  BY <1>1, HeadFacts DEF ReceiveAck
<1>3. air' = Taken(n) /\ UNCHANGED <<block, given, arrived, hurried>> /\ f.type = "ACK"
  BY DEF ReceiveAck
<1>4. PICK c \in Conns : c = <<n, f.channel>> /\ c[1] = n /\ c[2] = f.channel
  <2>1. f.channel \in Channel
    BY <1>2 DEF Frame
  <2>2. <<n, f.channel>> \in Conns
    BY <2>1 DEF Conns
  <2> QED BY <2>2
<1>0. PICK g : g = given[c]
  OBVIOUS
<1> DEFINE d == [conn[c] EXCEPT !.sndnxt = NextId(conn[c].sndnxt), !.timer = FALSE]
<1>5. PoolInv'
  BY <1>1, AckKeepsPool
<1>6. PICK b \in Frames : b = Taken(n)
  BY <1>2
<1>7. ASSUME NEW k \in Conns, Waited(k) PROVE OnWay(k, b, conn[k], given[k], status, arrived)
  <2>1. OnWay(k, air, conn[k], given[k], status, arrived) /\ Leaves(air, n, b)
    BY <1>1, <1>2, <1>6, <1>7 DEF InvOf
  <2> QED BY <1>1, <2>1, TailKeeps
<1>8. Known(b, status)
  <2>1. \A k \in Node : \A i \in DOMAIN b[k] : \E j \in DOMAIN air[k] : b[k][i] = air[k][j]
    BY <1>2, <1>6
  <2> HIDE DEF f
  <2> QED BY <1>1, <1>6, <2>1, KnownLeaves
<1>9. CASE conn[c].state = "open" /\ f.id = conn[c].sndnxt
  <2>1. /\ conn' = [conn EXCEPT ![c] = d]
        /\ status' = IF g = NULL THEN status ELSE [status EXCEPT ![g] = "sent"]
    BY <1>0, <1>4, <1>9 DEF ReceiveAck
  <2>2. ASSUME Waited(c)
        PROVE  /\ g # NULL /\ g \in arrived /\ status[g] # "sent"
               /\ \A j \in DOMAIN air[n] : 1 < j /\ IsAck(c, air[n][j]) => air[n][j].id = conn[c].sndnxt
               /\ \A k \in Node : \A j \in DOMAIN air[k] : IsData(c, air[k][j]) => air[k][j].id = conn[c].sndnxt
    <3>1. OnWay(c, air, conn[c], g, status, arrived) /\ IsAck(c, air[c[1]][1])
      BY <1>0, <1>1, <1>2, <1>3, <1>4, <2>2 DEF InvOf, IsAck
    <3> QED BY <1>2, <1>4, <1>9, <3>1 DEF OnWay, AckOK
  <2>3. g # NULL /\ g \in arrived \cup hurried /\ (~Waited(c) => g \in hurried)
    <3>1. g \in hurried => g # NULL
      BY <1>1
    <3> QED BY <1>0, <2>2, <3>1 DEF Waited
  <2>4. g \in Packet /\ status[g] \in {"accepted", "timedout", "sent"}
    <3>1. GivenOK(c)
      BY <1>1, <1>4 DEF InvOf
    <3> QED BY <1>0, <1>1, <1>9, <2>3, <3>1 DEF GivenOK
  <2>5. conn[c] \in ConnType
    BY <1>1, <1>4
  <2>6. conn[c].sndnxt \in Id /\ NextId(conn[c].sndnxt) \in Id /\ NextId(conn[c].sndnxt) # conn[c].sndnxt
    BY <2>5, IdFacts, NextIdDiffers DEF ConnType
  <2>7. /\ d.to = conn[c].to /\ d.state = "open" /\ d.timer = FALSE
        /\ d.sndnxt = NextId(conn[c].sndnxt)
    BY <1>9, <2>5, <2>6 DEF ConnType
  <2> HIDE DEF d
  <2>8. conn'[c] = d /\ \A k \in Conns \ {c} : conn'[k] = conn[k]
    BY <1>1, <1>4, <2>1
  <2>9. /\ status' \in [Packet -> PT!Status] /\ status' = [status EXCEPT ![g] = "sent"]
        /\ \A m \in Packet : status[m] # "new" => status'[m] # "new"
        /\ \A m \in Packet : m # g => status'[m] = status[m]
        /\ status'[g] = "sent"
    BY <1>1, <2>1, <2>3, <2>4 DEF PT!Status
  <2>10. ASSUME Waited(c) PROVE OnWay(c, b, d, g, status', arrived)
    <3>1. /\ \A k \in Node : \A i \in DOMAIN b[k] : IsData(c, b[k][i]) => b[k][i].id # d.sndnxt
          /\ \A i \in DOMAIN b[c[1]] : IsAck(c, b[c[1]][i]) => b[c[1]][i].id # d.sndnxt
      <4>1. \A k \in Node : \A i \in DOMAIN b[k] :
              \E j \in DOMAIN air[k] : b[k][i] = air[k][j] /\ (k = n => 1 < j)
        BY <1>2, <1>6
      <4> QED BY <1>4, <2>2, <2>6, <2>7, <2>10, <4>1
    <3>2. OnWay(c, b, conn[c], g, status, arrived)
      BY <1>0, <1>7, <2>10
    <3>3. PICK st : st = status'
      OBVIOUS
    <3>4. d.to = conn[c].to /\ \A m \in Packet : status[m] # "new" => st[m] # "new"
      BY <2>7, <2>9, <3>3
    <3>5. OnWay(c, b, d, g, st, arrived)
      BY <3>1, <3>2, <3>4, OnWayFresh
    <3> QED BY <3>3, <3>5
  <2>11. ASSUME NEW k \in Conns, k # c, Waited(k)
         PROVE  OnWay(k, b, conn[k], given[k], status', arrived)
    <3>1. given[k] # NULL => given[k] \in Packet /\ given[k] # g
      BY <1>1, <1>4, <2>11, <1>0, GivenApart
    <3>2. OnWay(k, b, conn[k], given[k], status, arrived)
      BY <1>7, <2>11
    <3>3. given[k] # NULL /\ status'[given[k]] = "sent" => status[given[k]] = "sent"
      BY <2>9, <3>1
    <3> QED BY <1>6, <2>9, <3>2, <3>3, OnWaySame
  <2>12. GivenOK(c)'
    <3>1. GivenOK(c)
      BY <1>1, <1>4 DEF InvOf
    <3>2. given' = given /\ g = given[c]
      BY <1>0, <1>3
    <3> QED BY <1>9, <2>3, <2>7, <2>8, <2>9, <3>1, <3>2 DEF GivenOK
  <2>13. ASSUME NEW k \in Conns, k # c PROVE GivenOK(k)'
    <3>1. conn'[k] = conn[k] /\ given' = given
      BY <1>3, <2>8, <2>13
    <3>2. given[k] # NULL => status'[given[k]] = status[given[k]]
      BY <1>1, <1>4, <2>9, <2>13, <1>0, GivenApart
    <3> QED BY <1>1, <3>1, <3>2, RestKept DEF InvOf
  <2>14. TransferInv'
    <3>1. \A k \in Conns : InvOf(k)'
      <4>1. air' = b /\ given' = given /\ arrived' = arrived /\ hurried' = hurried
        BY <1>3, <1>6
      <4>2. \A k \in Conns : Waited(k) => OnWay(k, b, conn'[k], given[k], status', arrived)
        BY <1>0, <2>8, <2>10, <2>11
      <4> QED BY <2>12, <2>13, <4>1, <4>2 DEF InvOf, Waited
    <3>2. air' = b /\ arrived' = arrived /\ hurried' = hurried
      BY <1>3, <1>6
    <3>3. PICK st : st = status'
      OBVIOUS
    <3>4. Known(b, st) /\ NoneNew(hurried, st)
      BY <1>1, <1>6, <1>8, <2>9, <3>3, StillKnown
    <3> QED BY <1>1, <1>5, <1>6, <2>9, <3>1, <3>2, <3>3, <3>4, InvOfParts
  <2>15. CASE status[g] = "sent"
    <3>1. status' = status
      BY <1>1, <2>4, <2>9, <2>15
    <3> QED BY <1>3, <2>14, <3>1 DEF Promise
  <2>16. CASE status[g] # "sent"
    <3>1. PT!Confirm(g)
      BY <1>3, <2>3, <2>4, <2>9, <2>16 DEF PT!Confirm
    <3> QED BY <2>4, <2>14, <3>1 DEF Promise, PT!Next
  <2> QED BY <2>15, <2>16
<1>10. CASE ~(conn[c].state = "open" /\ f.id = conn[c].sndnxt)
  <2>1. UNCHANGED <<conn, given, status, arrived, hurried>>
    BY <1>4, <1>10 DEF ReceiveAck
  <2>2. ASSUME NEW k \in Conns PROVE InvOf(k)'
    <3>1. GivenOK(k)
      BY <1>1 DEF InvOf
    <3>2. GivenOK(k)'
      BY <2>1, <3>1 DEF GivenOK
    <3> QED BY <1>3, <1>6, <1>7, <2>1, <3>2 DEF InvOf, Waited
  <2>3. TransferInv'
    BY <1>1, <1>3, <1>5, <1>6, <1>8, <2>1, <2>2, InvOfParts
  <2> QED BY <2>1, <2>3 DEF Promise
<1> QED BY <1>9, <1>10

LEMMA DataKeeps ==
  ASSUME TransferInv, ~Reopens, NEW n \in Node, ReceiveData(n)
  PROVE  TransferInv' /\ Promise
<1> DEFINE f == Head(air[n])
           ack == [type |-> "ACK", id |-> f.id, m |-> NULL, channel |-> f.channel, from |-> n]
<1>1. /\ conn \in [Conns -> ConnType] /\ air \in Frames /\ PoolInv /\ \A k \in Conns : InvOf(k)
      /\ status \in [Packet -> PT!Status] /\ arrived \in SUBSET Packet
      /\ given \in [Conns -> Packet \cup {NULL}] /\ hurried \in SUBSET Packet
      /\ Known(air, status) /\ NoneNew(hurried, status)
  BY InvParts
<1>2. /\ 1 \in DOMAIN air[n] /\ f = air[n][1] /\ f \in Frame
      /\ Taken(n) \in Frames /\ Leaves(air, n, Taken(n))
      /\ \A k \in Node : \A i \in DOMAIN Taken(n)[k] :
           \E j \in DOMAIN air[k] : Taken(n)[k][i] = air[k][j] /\ (k = n => 1 < j)
  BY <1>1, HeadFacts DEF ReceiveData
<1>3. UNCHANGED <<conn, block, given, status, hurried>> /\ f.type = "DATA"
  BY DEF ReceiveData
<1>4. PICK c \in Conns : c = <<f.from, f.channel>> /\ c[1] = f.from /\ c[2] = f.channel
  <2>1. f.from \in Node /\ f.channel \in Channel
    BY <1>2 DEF Frame
  <2>2. <<f.from, f.channel>> \in Conns
    BY <2>1 DEF Conns
  <2> QED BY <2>2
<1>5. PoolInv'
  BY <1>1, <1>3, NothingChanges
<1>6. PICK b \in Frames : b = Taken(n)
  BY <1>2
<1>7. \/ arrived' = arrived /\ air' = b
      \/ arrived' = arrived \cup {f.m} /\ (air' = b \/ Joins(b, f.from, ack, air'))
  BY <1>6 DEF ReceiveData, Joins
<1>8. PICK all : all = arrived'
  OBVIOUS
<1>9. /\ IsData(c, air[n][1]) /\ f.m \in Packet /\ status[f.m] # "new"
      /\ Waited(c) => OnWay(c, air, conn[c], given[c], status, arrived)
  BY <1>1, <1>2, <1>3, <1>4 DEF InvOf, IsData, Known
<1>10. ASSUME Waited(c)
       PROVE  /\ given[c] # NULL /\ n = conn[c].to
              /\ f.id = conn[c].sndnxt =>
                   /\ f.m = given[c] /\ status[given[c]] # "sent"
                   /\ \A j \in DOMAIN air[n] : 1 < j /\ IsData(c, air[n][j]) => air[n][j].id = conn[c].sndnxt
  <2> HIDE DEF f
  <2> QED BY <1>2, <1>9, <1>10 DEF OnWay, DataOK
<1>11. ASSUME Waited(c), f.id # conn[c].sndnxt
       PROVE  \A i \in DOMAIN air[c[1]] : IsAck(c, air[c[1]][i]) => air[c[1]][i].id # conn[c].sndnxt
  <2> HIDE DEF f
  <2> QED BY <1>2, <1>9, <1>11 DEF OnWay, AckOK
<1>12. all \in SUBSET Packet /\ arrived \subseteq all
  BY <1>1, <1>7, <1>8, <1>9
<1>13. ASSUME NEW k \in Conns, Waited(k) PROVE OnWay(k, b, conn[k], given[k], status, all)
  <2>1. OnWay(k, air, conn[k], given[k], status, arrived) /\ Leaves(air, n, b)
    BY <1>1, <1>2, <1>6, <1>13 DEF InvOf
  <2>2. OnWay(k, b, conn[k], given[k], status, arrived)
    BY <1>1, <2>1, TailKeeps
  <2> QED BY <1>12, <2>2, OnWaySame
<1>14. ack \in Frame /\ IsAck(c, ack) /\ ack.id = f.id /\ ack.type = "ACK" /\ ack.channel = c[2]
  BY <1>2, <1>4 DEF Frame, IsAck
<1>15. c[1] \in Node /\ f.from = c[1]
  BY <1>4, ConnFacts
<1>16. Known(b, status)
  <2>1. \A k \in Node : \A i \in DOMAIN b[k] : \E j \in DOMAIN air[k] : b[k][i] = air[k][j]
    BY <1>2, <1>6
  <2> HIDE DEF f, ack
  <2> QED BY <1>1, <1>6, <2>1, KnownLeaves
<1> HIDE DEF ack, f
<1>17. /\ air' \in Frames /\ Known(air', status)
       /\ \A k \in Conns : Waited(k) => OnWay(k, air', conn[k], given[k], status, all)
  <2>1. CASE air' = b
    BY <1>6, <1>13, <1>16, <2>1
  <2>2. CASE arrived' = arrived \cup {f.m} /\ Joins(b, f.from, ack, air')
    <3>1. PICK e : e = air'
      OBVIOUS
    <3>2. Joins(b, c[1], ack, e)
      BY <1>15, <2>2, <3>1
    <3>3. e \in Frames /\ Known(e, status)
      BY <1>14, <1>15, <1>16, <3>2, AppendFacts, KnownJoins
    <3>4. ASSUME Waited(c), f.id = conn[c].sndnxt
          PROVE
            /\ given[c] \in all /\ status[given[c]] # "sent"
            /\ \A k \in Node : \A j \in DOMAIN b[k] : IsData(c, b[k][j]) => b[k][j].id = conn[c].sndnxt
      <4>1. ASSUME NEW k \in Node, NEW j \in DOMAIN b[k], IsData(c, b[k][j])
            PROVE  b[k][j].id = conn[c].sndnxt
        <5>1. PICK i \in DOMAIN air[k] : b[k][j] = air[k][i] /\ (k = n => 1 < i)
          BY <1>2, <1>6
        <5>2. k = n
          BY <1>9, <1>10, <3>4, <4>1, <5>1 DEF OnWay, DataOK
        <5> QED BY <1>10, <3>4, <4>1, <5>1, <5>2
      <4>2. given[c] \in all
        BY <1>8, <1>10, <2>2, <3>4
      <4> QED BY <1>10, <3>4, <4>1, <4>2
    <3>5. ASSUME Waited(c), f.id # conn[c].sndnxt
          PROVE
            \A i \in DOMAIN b[c[1]] : IsAck(c, b[c[1]][i]) => b[c[1]][i].id # conn[c].sndnxt
      <4>1. \A i \in DOMAIN b[c[1]] : \E j \in DOMAIN air[c[1]] : b[c[1]][i] = air[c[1]][j]
        BY <1>2, <1>6, <1>15
      <4> QED BY <1>11, <3>5, <4>1
    <3>6. ASSUME Waited(c) PROVE OnWay(c, e, conn[c], given[c], status, all)
      BY <1>10, <1>13, <1>14, <3>2, <3>4, <3>5, <3>6, AckAppended
    <3>7. ASSUME NEW k \in Conns, k # c, Waited(k)
          PROVE  OnWay(k, e, conn[k], given[k], status, all)
      <4>1. ~IsData(k, ack) /\ (c[1] = k[1] => ~IsAck(k, ack))
        <5>1. c = <<c[1], c[2]>> /\ k = <<k[1], k[2]>>
          BY ConnFacts
        <5> QED BY <1>14, <3>7, <5>1 DEF IsData, IsAck
      <4>2. OnWay(k, b, conn[k], given[k], status, all)
        BY <1>13, <3>7
      <4> QED BY <1>14, <1>15, <3>2, <4>1, <4>2, OtherAppended
    <3> QED BY <3>1, <3>3, <3>6, <3>7
  <2> QED BY <1>7, <2>1, <2>2
<1>18. TransferInv'
  <2>1. ASSUME NEW k \in Conns PROVE InvOf(k)'
    <3>1. GivenOK(k)
      BY <1>1 DEF InvOf
    <3>2. GivenOK(k)'
      BY <1>3, <3>1 DEF GivenOK
    <3> QED BY <1>3, <1>8, <1>17, <3>2 DEF InvOf, Waited
  <2> QED BY <1>1, <1>3, <1>5, <1>8, <1>12, <1>17, <2>1, InvOfParts
<1>19. Promise
  <2>1. CASE arrived' = arrived
    BY <1>3, <2>1 DEF Promise
  <2>2. CASE arrived' = arrived \cup {f.m}
    <3>1. PT!Arrive(f.m)
      BY <1>3, <1>9, <2>2 DEF PT!Arrive
    <3> QED BY <1>9, <3>1 DEF Promise, PT!Next
  <2> QED BY <1>7, <2>1, <2>2
<1> QED BY <1>18, <1>19

LEMMA InitTransfer == Init => TransferInv /\ PT!Init
<1> SUFFICES ASSUME Init PROVE TransferInv /\ PT!Init
  OBVIOUS
<1>1. PoolInv
  BY InitPool
<1>2. air = [n \in Node |-> <<>>] /\ air \in Frames
  BY DEF Init, Frames
<1>3. PT!Init /\ PT!TypeOK
  BY DEF Init, PT!Init, PT!TypeOK, PT!Status
<1>4. ASSUME NEW c \in Conns
      PROVE  InvOf(c)
  <2>1. c[1] \in Node
    BY ConnFacts
  <2>2. OnWay(c, air, conn[c], given[c], status, arrived)
    BY <1>2, <2>1 DEF OnWay, DataOK, AckOK
  <2>3. conn[c].timer = FALSE /\ given[c] = NULL
    BY DEF Init, Conns
  <2>4. GivenOK(c)
    BY <2>3 DEF GivenOK
  <2> QED BY <2>2, <2>4 DEF InvOf
<1>5. Known(air, status) /\ NoneNew(hurried, status)
  BY <1>2 DEF Init, Known, NoneNew
<1> QED BY <1>1, <1>2, <1>3, <1>4, <1>5 DEF TransferInv

LEMMA TransferStep ==
  ASSUME ~Reopens, TransferInv, [Next]_vars
  PROVE  TransferInv' /\ Promise
<1>1. ASSUME NEW c \in Conns, runicast_open(c) PROVE TransferInv' /\ Promise
  BY <1>1, OpenKeeps
<1>2. ASSUME NEW c \in Conns, runicast_close(c) PROVE TransferInv' /\ Promise
  BY <1>2, CloseKeeps
<1>3. ASSUME NEW c \in Conns, Retransmit(c) PROVE TransferInv' /\ Promise
  BY <1>3, RetransmitKeeps
<1>4. ASSUME NEW c \in Conns, NEW to \in Node, NEW max \in Attempts, runicast_send(c, to, max)
      PROVE TransferInv' /\ Promise
  BY <1>4, SendKeeps
<1>5. ASSUME NEW n \in Node, ReceiveAck(n) PROVE TransferInv' /\ Promise
  BY <1>5, AckKeeps
<1>6. ASSUME NEW n \in Node, ReceiveData(n) PROVE TransferInv' /\ Promise
  BY <1>6, DataKeeps
<1>7. CASE UNCHANGED vars
  <2>1. /\ UNCHANGED <<conn, block, given>>
        /\ air' = air /\ status' = status /\ arrived' = arrived /\ conn' = conn /\ given' = given
        /\ hurried' = hurried
    BY <1>7 DEF vars
  <2>2. PoolInv'
    BY <2>1, NothingChanges DEF TransferInv
  <2>3. ASSUME NEW c \in Conns PROVE InvOf(c)'
    <3>1. InvOf(c)
      BY InvParts
    <3>2. GivenOK(c)'
      BY <2>1, <3>1 DEF InvOf, GivenOK
    <3> QED BY <2>1, <3>1, <3>2 DEF InvOf, Waited
  <2>4. TransferInv'
    BY <2>1, <2>2, <2>3, InvParts, InvOfParts
  <2> QED BY <2>1, <2>4 DEF Promise
<1> QED
  BY <1>1, <1>2, <1>3, <1>4, <1>5, <1>6, <1>7 DEF Next, Conns

--------------------------------------------------------------------------------
(* The theorems.                                                                *)

\* Whatever is sent, refused, acknowledged, timed out or closed, the queue buffers in use
\* on a node are those of its open connections, each held by one (runicast.c, stunicast.c,
\* memb.c).  Programs do not open a connection again: stunicast_close() keeps the pointer.
THEOREM PoolAlwaysExact == ASSUME ~Reopens PROVE Spec => []PoolExact
BY PoolAlways, HoldersExact, PTL

\* A running retransmission timer finds in its buffer the packet that the program gave
\* last, under the id that the connection waits for (runicast.c, send()).
THEOREM AlwaysOwnPacket == ASSUME ~Reopens PROVE Spec => []SendsOwnPacket
<1>1. PoolInv => SendsOwnPacket
  BY DEF PoolInv
<1> QED
  BY <1>1, PoolAlways, PTL

\* A packet that a program is told is sent was given to its receiver, unless the program sent
\* it while copies of an earlier one could be under way, and no program hears of a packet
\* otherwise than it should (runicast.c, stunicast.c): each handler is a step of
\* PacketTransfer.  Programs may send as they like, on connections they open once.
THEOREM TransferImplemented == ASSUME ~Reopens PROVE Spec => ImplementsTransfer
<1>1. TransferInv /\ [Next]_vars => TransferInv' /\ [PT!Next]_<<status, arrived, hurried>>
  BY TransferStep DEF Promise
<1> QED
  BY <1>1, InitTransfer, PTL DEF Spec, ImplementsTransfer, PT!Spec

\* Every connection, buffer and packet keeps its type, and the bound of the network is
\* kept: rxmit, which is counted in 8 bits, does not pass the number of retransmissions.
THEOREM UnicastTypes == ASSUME ~Reopens PROVE Spec => []TypeOK
<1>1. TypeInv => TypeOK
  <2> SUFFICES ASSUME TypeInv PROVE TypeOK
    OBVIOUS
  <2>1. /\ air \in Frames /\ Filled(air) /\ conn \in [Conns -> ConnType] /\ PT!TypeOK
        /\ block \in [Node -> [Buffer -> Block]] /\ given \in [Conns -> Packet \cup {NULL}]
        /\ \A k \in Conns : Tries(conn[k], given[k])
    BY TypeParts DEF TypeInv
  <2>2. \A c \in Conns : conn[c] \in Connection
    BY <2>1 DEF ConnType, Connection, Tries
  <2>3. conn \in [Conns -> Connection]
    BY <2>1, <2>2
  <2>4. InAir <= MaxInAir
    BY <2>1 DEF InAir, Filled, OnAir
  <2> QED BY <2>1, <2>3, <2>4 DEF TypeOK, Frames, Conns
<1>2. TypeInv /\ [Next]_vars => TypeInv'
  BY StepKeepsTypes
<1> QED
  BY <1>1, <1>2, InitTypes, PTL DEF Spec
================================================================================
