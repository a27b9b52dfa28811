----------------------------- MODULE PeersProofs -----------------------------
(***************************************************************************)
(* The table of peers holds live connections under their own addresses,    *)
(* and the set of seen blocks keeps its capacity: for any number of hosts, *)
(* connections, dialing goroutines and faults.                             *)
(***************************************************************************)
EXTENDS Peers, FiniteSetTheorems, SequenceTheorems, WellFoundedInduction, TLAPS

(* First-order steps; a leaf that needs arithmetic or functions cites SMT. *)
USE Zenon

Peer == [phase : {"free", "handshake", "open"}, host : Host \cup {None}, inbound : BOOLEAN,
         closed : BOOLEAN, banScore : Nat]

(* The types of what connections and their entries are made of.            *)
PeersTyped ==
    /\ conn \in [Conn -> Peer]
    /\ outbound \in [Host -> Conn \cup {None}]
    /\ inbound \in SUBSET Conn
    /\ dialing \in [Dialer -> Host \cup {None}]
    /\ accepting \in Host \cup {None}

PeersInv == PeersTyped /\ PeersAreLive

-----------------------------------------------------------------------------
(* The table of peers.                                                     *)

(* Nothing is an entry before its handshake is complete.                   *)
LEMMA EntriesAreOpen ==
    ASSUME PeersInv, NEW c \in Conn, conn[c].phase # "open"
    PROVE  c \notin inbound /\ \A h \in Host : outbound[h] # c
<1>1. None \notin Conn
  BY PeersAssumption DEF Conn
<1> QED BY SMT, <1>1 DEF PeersInv, PeersAreLive

(* Closing a connection leaves what it is.                                 *)
LEMMA ClosedPeer ==
    ASSUME NEW p \in Peer
    PROVE  LET q == [p EXCEPT !.closed = TRUE]
           IN  /\ q \in Peer /\ q.phase = p.phase /\ q.host = p.host
               /\ q.inbound = p.inbound
BY DEF Peer

(* A step that closes a connection or counts an offence: its entry stays   *)
(* what it was.                                                            *)
LEMMA SameConnections ==
    ASSUME PeersInv, conn' \in [Conn -> Peer],
           \A c \in Conn : /\ conn'[c].phase = conn[c].phase /\ conn'[c].host = conn[c].host
                           /\ conn'[c].inbound = conn[c].inbound,
           UNCHANGED <<outbound, inbound>>
    PROVE  conn' \in [Conn -> Peer] /\ PeersAreLive'
<1>1. inbound' = inbound /\ outbound' = outbound
  OBVIOUS
<1>2. \A h \in Host : outbound[h] # None =>
           /\ outbound[h] \in Conn /\ conn[outbound[h]].phase = "open"
           /\ conn[outbound[h]].host = h /\ ~conn[outbound[h]].inbound
  BY DEF PeersInv, PeersAreLive
<1>3. \A c \in inbound : c \in Conn /\ conn[c].phase = "open" /\ conn[c].inbound
  BY DEF PeersInv, PeersAreLive
<1>4. \A h \in Host : outbound'[h] # None =>
           /\ outbound'[h] \in Conn /\ conn'[outbound'[h]].phase = "open"
           /\ conn'[outbound'[h]].host = h /\ ~conn'[outbound'[h]].inbound
  BY SMT, <1>1, <1>2
<1>5. \A c \in inbound' : c \in Conn /\ conn'[c].phase = "open" /\ conn'[c].inbound
  BY <1>1, <1>3
<1> QED BY <1>4, <1>5 DEF PeersAreLive

(* A new connection takes the place of none (NewPeer).                     *)
LEMMA NewPeerKeeps ==
    ASSUME PeersInv, NEW h \in Host, NEW in \in BOOLEAN, NewPeer(h, in),
           UNCHANGED <<outbound, inbound>>
    PROVE  conn' \in [Conn -> Peer] /\ PeersAreLive'
<1> DEFINE p == [phase |-> "handshake", host |-> h, inbound |-> in, closed |-> FALSE,
                 banScore |-> 0]
<1>1. PICK c \in Conn : conn[c] = Free /\ conn' = [conn EXCEPT ![c] = p]
  BY DEF NewPeer
<1>2. conn \in [Conn -> Peer]
  BY DEF PeersInv, PeersTyped
<1>3. conn[c].phase = "free" /\ p \in Peer
  <2>1. 0 \in Nat /\ conn[c].phase = "free"
    BY SMT, <1>1 DEF Free
  <2>2. p \in Peer
    BY <2>1 DEF Peer
  <2> QED BY <2>1, <2>2
<1> HIDE DEF p
<1>4. conn' \in [Conn -> Peer] /\ \A x \in Conn : x # c => conn'[x] = conn[x]
  BY <1>1, <1>2, <1>3
<1>5. c \notin inbound /\ \A x \in Host : outbound[x] # c
  BY <1>3, EntriesAreOpen
<1>6. inbound' = inbound /\ outbound' = outbound
  OBVIOUS
<1>7. \A x \in Host : outbound[x] # None => outbound[x] \in Conn /\ outbound[x] # c
  BY <1>5 DEF PeersInv, PeersAreLive
<1>8. \A x \in Host : outbound'[x] # None =>
           /\ outbound'[x] \in Conn /\ conn'[outbound'[x]].phase = "open"
           /\ conn'[outbound'[x]].host = x /\ ~conn'[outbound'[x]].inbound
  BY SMT, <1>4, <1>6, <1>7 DEF PeersInv, PeersAreLive
<1>9. \A x \in inbound' : x \in Conn /\ conn'[x].phase = "open" /\ conn'[x].inbound
  BY <1>4, <1>5, <1>6 DEF PeersInv, PeersAreLive
<1> QED BY <1>4, <1>8, <1>9 DEF PeersAreLive

(* handlePeer gives a connection its entry, over an earlier one.           *)
LEMMA RegisterKeeps ==
    ASSUME PeersInv, NEW c \in Conn, Register(c)
    PROVE  PeersInv'
<1>1. /\ conn[c].phase = "handshake" /\ conn' = [conn EXCEPT ![c].phase = "open"]
      /\ UNCHANGED <<dialing, accepting>>
  BY DEF Register
<1>2. PeersTyped
  BY DEF PeersInv
<1>3. /\ conn' \in [Conn -> Peer] /\ \A x \in Conn : x # c => conn'[x] = conn[x]
      /\ conn'[c].phase = "open" /\ conn'[c].host = conn[c].host
      /\ conn'[c].inbound = conn[c].inbound
  BY SMT, <1>1, <1>2 DEF PeersTyped, Peer
<1>4. \A x \in Host : outbound[x] # None =>
           /\ outbound[x] \in Conn /\ conn'[outbound[x]].phase = "open"
           /\ conn'[outbound[x]].host = x /\ ~conn'[outbound[x]].inbound
  BY SMT, <1>3 DEF PeersInv, PeersAreLive
<1>5. \A x \in inbound : x \in Conn /\ conn'[x].phase = "open" /\ conn'[x].inbound
  BY SMT, <1>3 DEF PeersInv, PeersAreLive
<1>6. CASE conn[c].inbound
  <2>1. inbound' = inbound \cup {c} /\ outbound' = outbound
    BY <1>6 DEF Register
  <2>2. PeersAreLive'
    BY <2>1, <1>3, <1>4, <1>5, <1>6 DEF PeersAreLive
  <2>3. PeersTyped'
    BY <2>1, <1>1, <1>2, <1>3 DEF PeersTyped
  <2> QED BY <2>2, <2>3 DEF PeersInv
<1>7. CASE ~conn[c].inbound
  <2>1. inbound' = inbound /\ outbound' = [outbound EXCEPT ![conn[c].host] = c]
    BY <1>7 DEF Register
  <2>2. outbound \in [Host -> Conn \cup {None}]
    BY <1>2 DEF PeersTyped
  <2>3. /\ outbound' \in [Host -> Conn \cup {None}]
        /\ \A x \in Host : outbound'[x] = IF x = conn[c].host THEN c ELSE outbound[x]
    BY <2>1, <2>2
  <2>4. \A x \in Host : outbound'[x] # None =>
           /\ outbound'[x] \in Conn /\ conn'[outbound'[x]].phase = "open"
           /\ conn'[outbound'[x]].host = x /\ ~conn'[outbound'[x]].inbound
    <3> SUFFICES ASSUME NEW x \in Host, outbound'[x] # None
                 PROVE  /\ outbound'[x] \in Conn /\ conn'[outbound'[x]].phase = "open"
                        /\ conn'[outbound'[x]].host = x /\ ~conn'[outbound'[x]].inbound
      OBVIOUS
    <3>1. CASE x = conn[c].host
      <4>1. outbound'[x] = c
        BY <3>1, <2>3
      <4> QED BY <4>1, <3>1, <1>3, <1>7
    <3>2. CASE x # conn[c].host
      <4>1. outbound'[x] = outbound[x]
        BY <3>2, <2>3
      <4> QED BY <4>1, <1>4
    <3> QED BY <3>1, <3>2
  <2>5. PeersAreLive'
    BY <2>1, <2>4, <1>5 DEF PeersAreLive
  <2>6. PeersTyped'
    BY <2>1, <2>3, <1>1, <1>2, <1>3 DEF PeersTyped
  <2> QED BY <2>5, <2>6 DEF PeersInv
<1> QED BY <1>6, <1>7

(* The deferred cleanup deletes by address, which deletes every entry of   *)
(* the connection that ends, and perhaps that of another.                  *)
LEMMA LeaveKeeps ==
    ASSUME PeersInv, NEW c \in Conn, Leave(c), UNCHANGED <<dialing, accepting>>
    PROVE  PeersInv'
<1>1. PeersTyped
  BY DEF PeersInv
<1>2. conn \in [Conn -> Peer] /\ conn' = [conn EXCEPT ![c] = Free] /\ inbound' = inbound \ {c}
  BY <1>1 DEF PeersTyped, Leave
<1>3. Free \in Peer
  BY SMT DEF Free, Peer
<1>4. conn' \in [Conn -> Peer] /\ \A x \in Conn : x # c => conn'[x] = conn[x]
  BY <1>2, <1>3
<1>5. outbound \in [Host -> Conn \cup {None}]
  BY <1>1 DEF PeersTyped
<1>6. /\ outbound' \in [Host -> Conn \cup {None}]
      /\ \A x \in Host : outbound'[x] = outbound[x] \/ outbound'[x] = None
      /\ ~conn[c].inbound => \A x \in Host : x = conn[c].host => outbound'[x] = None
  <2>1. CASE conn[c].inbound
    BY <2>1, <1>5 DEF Leave
  <2>2. CASE ~conn[c].inbound
    <3>1. outbound' = [outbound EXCEPT ![conn[c].host] = None]
      BY <2>2 DEF Leave
    <3> QED BY <3>1, <1>5
  <2> QED BY <2>1, <2>2
<1>7. \A x \in Host : outbound'[x] # None => outbound'[x] = outbound[x] /\ outbound[x] # c
  BY SMT, <1>6 DEF PeersInv, PeersAreLive
<1>8. \A x \in Host : outbound'[x] # None =>
           /\ outbound'[x] \in Conn /\ conn'[outbound'[x]].phase = "open"
           /\ conn'[outbound'[x]].host = x /\ ~conn'[outbound'[x]].inbound
  BY SMT, <1>4, <1>7 DEF PeersInv, PeersAreLive
<1>9. \A x \in inbound' : x \in Conn /\ conn'[x].phase = "open" /\ conn'[x].inbound
  BY <1>2, <1>4 DEF PeersInv, PeersAreLive
<1>10. PeersAreLive'
  BY <1>8, <1>9 DEF PeersAreLive
<1>11. PeersTyped'
  BY <1>1, <1>2, <1>4, <1>6 DEF PeersTyped
<1> QED BY <1>10, <1>11 DEF PeersInv

(* A step that touches neither connections nor entries.                    *)
LEMMA TableSame ==
    ASSUME PeersInv, UNCHANGED <<conn, outbound, inbound>>,
           dialing' \in [Dialer -> Host \cup {None}], accepting' \in Host \cup {None}
    PROVE  PeersInv'
BY DEF PeersInv, PeersTyped, PeersAreLive

(* A dial is of a host (connectPeer).                                      *)
LEMMA DialTyped ==
    ASSUME PeersTyped, NEW d \in Dialer, NEW h \in Host, ConnectPeer(d, h)
    PROVE  dialing' \in [Dialer -> Host \cup {None}]
BY DEF PeersTyped, ConnectPeer

(* addMisbehavior.                                                         *)
LEMMA MisbehaviorKeeps ==
    ASSUME PeersInv, NEW c \in Conn, NEW n \in Score, AddMisbehavior(c, n),
           UNCHANGED <<outbound, inbound, dialing, accepting>>
    PROVE  PeersInv'
<1>1. PeersTyped /\ conn \in [Conn -> Peer] /\ n \in Nat
  BY SMT, PeersAssumption DEF PeersInv, PeersTyped, Score
<1>2. /\ conn' \in [Conn -> Peer]
      /\ \A x \in Conn : /\ conn'[x].phase = conn[x].phase /\ conn'[x].host = conn[x].host
                          /\ conn'[x].inbound = conn[x].inbound
  <2>1. \/ conn' = conn
        \/ conn' = [conn EXCEPT ![c].banScore = @ + n, ![c].closed = TRUE]
        \/ conn' = [conn EXCEPT ![c].banScore = @ + n]
    BY DEF AddMisbehavior
  <2>2. CASE conn' = conn
    BY <1>1, <2>2
  <2>3. CASE conn' = [conn EXCEPT ![c].banScore = @ + n, ![c].closed = TRUE]
    <3> DEFINE p == [conn[c] EXCEPT !.banScore = @ + n]
               q == [p EXCEPT !.closed = TRUE]
    <3>1. p \in Peer /\ p.phase = conn[c].phase /\ p.host = conn[c].host
          /\ p.inbound = conn[c].inbound
      BY SMT, <1>1 DEF Peer
    <3>2. conn' = [conn EXCEPT ![c] = q]
      BY <2>3, <1>1
    <3> HIDE DEF p
    <3>3. q \in Peer /\ q.phase = p.phase /\ q.host = p.host /\ q.inbound = p.inbound
      BY <3>1, ClosedPeer
    <3> HIDE DEF q
    <3> QED BY <3>1, <3>2, <3>3, <1>1
  <2>4. CASE conn' = [conn EXCEPT ![c].banScore = @ + n]
    BY SMT, <1>1, <2>4 DEF Peer
  <2> QED BY <2>1, <2>2, <2>3, <2>4
<1>3. PeersAreLive'
  BY <1>2, SameConnections
<1> QED BY <1>1, <1>2, <1>3 DEF PeersInv, PeersTyped

(* Closing a connection, by the operator, a write error or an eviction.    *)
LEMMA CloseKeeps ==
    ASSUME PeersInv, NEW c \in Conn, conn' = [conn EXCEPT ![c].closed = TRUE],
           UNCHANGED <<outbound, inbound, dialing>>, accepting' \in Host \cup {None}
    PROVE  PeersInv'
<1>1. PeersTyped /\ conn \in [Conn -> Peer]
  BY DEF PeersInv, PeersTyped
<1>2. /\ conn' \in [Conn -> Peer]
      /\ \A x \in Conn : /\ conn'[x].phase = conn[x].phase /\ conn'[x].host = conn[x].host
                          /\ conn'[x].inbound = conn[x].inbound
  <2> DEFINE q == [conn[c] EXCEPT !.closed = TRUE]
  <2>1. conn' = [conn EXCEPT ![c] = q]
    BY <1>1
  <2>2. /\ q \in Peer /\ q.phase = conn[c].phase /\ q.host = conn[c].host
        /\ q.inbound = conn[c].inbound
    BY <1>1, ClosedPeer
  <2> HIDE DEF q
  <2> QED BY <2>1, <2>2, <1>1
<1>3. PeersAreLive'
  BY <1>2, SameConnections
<1> QED BY <1>1, <1>2, <1>3 DEF PeersInv, PeersTyped

(* Every step keeps the entries live.                                      *)
LEMMA PeersStep == PeersInv /\ [Next]_vars => PeersInv'
<1> SUFFICES ASSUME PeersInv, [Next]_vars
             PROVE  PeersInv'
  OBVIOUS
<1>t. /\ PeersTyped /\ dialing \in [Dialer -> Host \cup {None}]
      /\ accepting \in Host \cup {None} /\ "loop" \in Dialer
  BY PeersAssumption DEF PeersInv, PeersTyped
<1>1. CASE ReconnectLoop
  <2>1. /\ UNCHANGED <<conn, outbound, inbound, accepting>>
        /\ UNCHANGED dialing \/ \E h \in Host : ConnectPeer("loop", h)
    BY <1>1 DEF ReconnectLoop, LoopTick, LoopDiscovered, LoopEnd, LoopTarget, LoopStored
  <2>2. dialing' \in [Dialer -> Host \cup {None}]
    BY <2>1, <1>t, DialTyped
  <2> QED BY <2>1, <2>2, <1>t, TableSame
<1>2. ASSUME NEW d \in Dialer, Dialed(d)
      PROVE  PeersInv'
  <2>1. /\ dialing[d] \in Host /\ NewPeer(dialing[d], FALSE)
        /\ UNCHANGED <<outbound, inbound, accepting>>
        /\ dialing' = [dialing EXCEPT ![d] = None]
    BY <1>2, <1>t DEF Dialed
  <2>2. conn' \in [Conn -> Peer] /\ PeersAreLive'
    BY <2>1, NewPeerKeeps
  <2>3. dialing' \in [Dialer -> Host \cup {None}]
    BY <2>1, <1>t
  <2> QED BY <2>1, <2>2, <2>3, <1>t DEF PeersInv, PeersTyped
<1>3. ASSUME NEW d \in Dialer, DialFails(d)
      PROVE  PeersInv'
  <2>1. /\ UNCHANGED <<conn, outbound, inbound, accepting>>
        /\ dialing' = [dialing EXCEPT ![d] = None]
    BY <1>3 DEF DialFails
  <2>2. dialing' \in [Dialer -> Host \cup {None}]
    BY <2>1, <1>t
  <2> QED BY <2>1, <2>2, <1>t, TableSame
<1>4. ASSUME NEW d \in Dialer, NEW h \in Host, AddNode(d, h)
      PROVE  PeersInv'
  <2>1. UNCHANGED <<conn, outbound, inbound, accepting>> /\ ConnectPeer(d, h)
    BY <1>4 DEF AddNode
  <2> QED BY <2>1, <1>t, DialTyped, TableSame
<1>5. ASSUME NEW c \in Conn, Handler(c)
      PROVE  PeersInv'
  <2>1. CASE Register(c)
    BY <2>1, RegisterKeeps
  <2>2. CASE HandshakeFails(c) \/ Disconnected(c)
    BY <2>2, LeaveKeeps DEF HandshakeFails, Disconnected
  <2>3. ASSUME NEW n \in Score, Misbehave(c, n)
        PROVE  PeersInv'
    BY <2>3, MisbehaviorKeeps DEF Misbehave
  <2>4. ASSUME NEW h \in Host, HandleAddr(c, h)
        PROVE  PeersInv'
    BY <2>4, <1>t, TableSame DEF HandleAddr
  <2>5. ASSUME NEW x \in Hash, HandleBlock(c, x)
        PROVE  PeersInv'
    <3>1. /\ UNCHANGED <<outbound, inbound, dialing, accepting>>
          /\ UNCHANGED conn \/ \E n \in Score : AddMisbehavior(c, n)
      BY <2>5 DEF HandleBlock
    <3> QED BY <3>1, <1>t, TableSame, MisbehaviorKeeps
  <2> QED BY <1>5, <2>1, <2>2, <2>3, <2>4, <2>5 DEF Handler
<1>6. ASSUME NEW c \in Conn, DisconnectNode(c) \/ WriteLoop(c)
      PROVE  PeersInv'
  BY <1>6, <1>t, CloseKeeps DEF DisconnectNode, WriteLoop, ClosePeer
<1>7. ASSUME NEW c \in Conn, NEW h \in Host, Evict(h, c)
      PROVE  PeersInv'
  BY <1>7, CloseKeeps DEF Evict
<1>8. ASSUME NEW h \in Host, Accept(h)
      PROVE  PeersInv'
  <2>1. NewPeer(h, TRUE) /\ UNCHANGED <<outbound, inbound, dialing, accepting>>
    BY <1>8 DEF Accept
  <2>2. conn' \in [Conn -> Peer] /\ PeersAreLive'
    BY <2>1, NewPeerKeeps
  <2> QED BY <2>1, <2>2, <1>t DEF PeersInv, PeersTyped
<1>9. ASSUME NEW h \in Host, BanExpires(h) \/ BackoffElapses(h)
      PROVE  PeersInv'
  BY <1>9, <1>t, TableSame DEF BanExpires, BackoffElapses
<1>10. CASE Recount
  <2>1. /\ accepting \in Host /\ accepting' = None /\ UNCHANGED <<outbound, inbound, dialing>>
        /\ UNCHANGED conn \/ NewPeer(accepting, TRUE)
    BY <1>10, <1>t DEF Recount
  <2>2. CASE UNCHANGED conn
    BY <2>1, <2>2, <1>t, TableSame
  <2>3. CASE NewPeer(accepting, TRUE)
    <3>1. conn' \in [Conn -> Peer] /\ PeersAreLive'
      BY <2>1, <2>3, NewPeerKeeps
    <3> QED BY <2>1, <3>1, <1>t DEF PeersInv, PeersTyped
  <2> QED BY <2>1, <2>2, <2>3
<1>11. CASE UNCHANGED vars
  BY <1>11, <1>t, TableSame DEF vars
<1> QED
  BY <1>1, <1>2, <1>3, <1>4, <1>5, <1>6, <1>7, <1>8, <1>9, <1>10, <1>11 DEF Next

(* An entry of m.peers is a connection whose handler is in its read loop,  *)
(* filed under its own address, whatever dials, accepts, evictions and     *)
(* cleanups of handlePeer interleave.                                      *)
THEOREM PeersAreLiveAlways == Spec => []PeersAreLive
<1>1. Init => PeersInv
  <2> SUFFICES ASSUME Init
               PROVE  PeersInv
    OBVIOUS
  <2>1. Free \in Peer
    BY SMT DEF Free, Peer
  <2>2. PeersTyped
    BY <2>1 DEF Init, PeersTyped
  <2>3. PeersAreLive
    BY DEF Init, PeersAreLive
  <2> QED BY <2>2, <2>3 DEF PeersInv
<1>2. PeersInv => PeersAreLive
  BY DEF PeersInv
<1> QED BY <1>1, <1>2, PeersStep, PTL DEF Spec

-----------------------------------------------------------------------------
(* The set of seen blocks.                                                 *)

SeenInv ==
    /\ seen \in [items : SUBSET Hash, order : Seq(Hash)] /\ IsFiniteSet(seen.items)
    /\ SeenBounded

(* A set of natural numbers has a least element.                           *)
LEMMA Least ==
    ASSUME NEW T, T \subseteq Nat, T # {}
    PROVE  \E x \in T : \A y \in T : x <= y
<1>1. PICK x \in T : \A y \in T : ~(<<y, x>> \in OpToRel(<, Nat))
  BY WFMin, NatLessThanWellFounded
<1>2. \A y \in T : ~(y < x)
  BY <1>1 DEF OpToRel
<1>3. \A y \in T : x <= y
  BY SMT, <1>2
<1> QED BY <1>3

(* evictUntilSpace stops: when there is room, or when the order is empty.  *)
LEMMA EvictionsEnd ==
    ASSUME NEW s, s.order \in Seq(Hash), IsFiniteSet(s.items)
    PROVE  /\ Evictions(s) \in 0..Len(s.order)
           /\ Evictions(s) = Len(s.order) \/ Cardinality(Left(s, Evictions(s))) < SeenCap
<1> DEFINE Stop(n) == n = Len(s.order) \/ Cardinality(Left(s, n)) < SeenCap
           T == {n \in 0..Len(s.order) : Stop(n)}
<1>1. T \subseteq Nat /\ Len(s.order) \in T
  BY SMT
<1>2. PICK n \in T : \A m \in T : n <= m
  BY <1>1, Least
<1>3. \A m : Cardinality(Left(s, m)) \in Nat
  BY FS_Difference, FS_CardinalityType DEF Left
<1>4. \A m \in 0..(n - 1) : m \in 0..Len(s.order) /\ ~(n <= m)
  BY SMT, <1>2
<1>5. \A m \in 0..(n - 1) : ~(Cardinality(Left(s, m)) < SeenCap)
  BY <1>2, <1>4
<1>6. \A m \in 0..(n - 1) : Cardinality(Left(s, m)) >= SeenCap
  BY SMT, <1>3, <1>5, SeenAssumption
<1>7. \E k \in 0..Len(s.order) :
        Stop(k) /\ \A m \in 0..(k - 1) : Cardinality(Left(s, m)) >= SeenCap
  BY <1>2, <1>6
<1> QED BY <1>7 DEF Evictions

(* Add keeps the capacity, and what it keeps is in the order it keeps.     *)
LEMMA AddBounded ==
    ASSUME SeenInv, NEW x \in Hash
    PROVE  LET t == Add(seen, x)
           IN  /\ t \in [items : SUBSET Hash, order : Seq(Hash)] /\ IsFiniteSet(t.items)
               /\ Cardinality(t.items) <= SeenCap /\ t.items \subseteq Range(t.order)
<1>1. CASE Has(seen, x)
  BY <1>1 DEF SeenInv, SeenBounded, Add
<1>2. CASE ~Has(seen, x)
  <2> DEFINE n == Evictions(seen)
             items == Left(seen, n) \cup {x}
             rest == SubSeq(seen.order, n + 1, Len(seen.order))
             order == Append(rest, x)
  <2>1. Add(seen, x) = [items |-> items, order |-> order]
    BY <1>2 DEF Add
  <2>2. /\ seen.order \in Seq(Hash) /\ seen.items \in SUBSET Hash
        /\ IsFiniteSet(seen.items) /\ seen.items \subseteq Range(seen.order)
    BY DEF SeenInv, SeenBounded
  <2>3. /\ n \in 0..Len(seen.order)
        /\ n = Len(seen.order) \/ Cardinality(Left(seen, n)) < SeenCap
    BY <2>2, EvictionsEnd
  <2> HIDE DEF n
  <2>4. /\ rest \in Seq(Hash) /\ Len(rest) = Len(seen.order) - n
        /\ \A i \in 1..(Len(seen.order) - n) : rest[i] = seen.order[n + i]
    BY SMT, <2>2, <2>3
  <2> HIDE DEF rest
  <2>5. /\ order \in Seq(Hash) /\ Len(order) = Len(rest) + 1
        /\ \A i \in 1..Len(rest) : order[i] = rest[i]
        /\ order[Len(rest) + 1] = x
    BY SMT, <2>4
  <2> HIDE DEF order
  <2>6. ASSUME NEW y \in Left(seen, n)
        PROVE  y \in Range(order)
    <3>1. y \in Range(seen.order) /\ \A i \in 1..n : seen.order[i] # y
      BY <2>2, <2>6 DEF Left
    <3>2. PICK i \in DOMAIN seen.order : seen.order[i] = y
      BY <3>1 DEF Range
    <3>3. i \in 1..Len(seen.order) /\ ~(i \in 1..n)
      BY <3>1, <3>2, <2>2, LenProperties
    <3>4. /\ i - n \in 1..(Len(seen.order) - n) /\ i - n \in 1..Len(rest)
          /\ i - n \in 1..Len(order) /\ n + (i - n) = i
      BY SMT, <3>3, <2>2, <2>3, <2>4, <2>5
    <3>5. order[i - n] = y
      BY <3>2, <3>4, <2>4, <2>5
    <3>6. DOMAIN order = 1..Len(order)
      BY <2>5, LenProperties
    <3> QED BY <3>4, <3>5, <3>6 DEF Range
  <2>7. x \in Range(order)
    <3>1. Len(rest) + 1 \in 1..Len(order) /\ DOMAIN order = 1..Len(order)
      BY SMT, <2>4, <2>5
    <3> QED BY <3>1, <2>5 DEF Range
  <2>8. IsFiniteSet(Left(seen, n)) /\ Left(seen, n) \subseteq seen.items
    BY <2>2, FS_Difference DEF Left
  <2>9. Cardinality(Left(seen, n)) < SeenCap
    <3>1. CASE n = Len(seen.order)
      <4>1. DOMAIN seen.order = 1..n
        BY <3>1, <2>2, LenProperties
      <4>2. Left(seen, n) = {}
        BY <4>1, <2>2 DEF Left, Range
      <4>3. Cardinality(Left(seen, n)) = 0
        BY <4>2, FS_EmptySet
      <4> QED BY SMT, <4>3, SeenAssumption
    <3> QED BY <3>1, <2>3
  <2>10. IsFiniteSet(items) /\ Cardinality(items) <= SeenCap
    <3>1. /\ IsFiniteSet(items) /\ Cardinality(Left(seen, n)) \in Nat
          /\ Cardinality(items) = Cardinality(Left(seen, n))
             \/ Cardinality(items) = Cardinality(Left(seen, n)) + 1
      BY <2>8, FS_AddElement, FS_CardinalityType
    <3> HIDE DEF items
    <3>2. Cardinality(items) <= SeenCap
      BY SMT, <3>1, <2>9, SeenAssumption
    <3> QED BY <3>1, <3>2
  <2>11. items \in SUBSET Hash /\ items \subseteq Range(order)
    BY <2>2, <2>6, <2>7, <2>8
  <2> HIDE DEF items
  <2>12. /\ Add(seen, x).items = items /\ Add(seen, x).order = order
         /\ Add(seen, x) \in [items : SUBSET Hash, order : Seq(Hash)]
    <3>1. [items |-> items, order |-> order] \in [items : SUBSET Hash, order : Seq(Hash)]
      BY <2>5, <2>11
    <3>2. Add(seen, x) \in [items : SUBSET Hash, order : Seq(Hash)]
      BY <2>1, <3>1
    <3>3. Add(seen, x).items = items /\ Add(seen, x).order = order
      BY SMT, <2>1
    <3> QED BY <3>2, <3>3
  <2> QED BY <2>12, <2>10, <2>11
<1> QED BY <1>1, <1>2

(* Removing a hash from the set leaves it within its bound.                *)
LEMMA RemoveBounded ==
    ASSUME NEW t \in [items : SUBSET Hash, order : Seq(Hash)], IsFiniteSet(t.items),
           Cardinality(t.items) <= SeenCap, t.items \subseteq Range(t.order), NEW x
    PROVE  LET u == Remove(t, x)
           IN  /\ u \in [items : SUBSET Hash, order : Seq(Hash)] /\ IsFiniteSet(u.items)
               /\ Cardinality(u.items) <= SeenCap /\ u.items \subseteq Range(u.order)
<1> DEFINE u == Remove(t, x)
<1>1. u.items = t.items \ {x} /\ u.order = t.order
      /\ u \in [items : SUBSET Hash, order : Seq(Hash)]
  BY DEF Remove
<1>2. /\ IsFiniteSet(u.items) /\ Cardinality(u.items) <= Cardinality(t.items)
      /\ Cardinality(u.items) \in Nat /\ Cardinality(t.items) \in Nat
  BY <1>1, FS_Difference, FS_CardinalityType, FS_Subset
<1> HIDE DEF u
<1>3. Cardinality(u.items) <= SeenCap
  BY SMT, <1>2, SeenAssumption
<1> QED BY <1>1, <1>2, <1>3 DEF u

(* seenBlocks never holds more than its capacity, and everything it holds  *)
(* can still be evicted, through any sequence of blocks that are accepted, *)
(* refused and delivered again (handleBlock, boundedHashSet).              *)
THEOREM SeenBoundedAlways == Spec => []SeenBounded
<1>1. Init => SeenInv
  <2> SUFFICES ASSUME Init
               PROVE  SeenInv
    OBVIOUS
  <2>1. seen = [items |-> {}, order |-> <<>>] /\ <<>> \in Seq(Hash)
    BY EmptySeq DEF Init, NewHashSet
  <2>2. Cardinality(seen.items) <= SeenCap /\ IsFiniteSet(seen.items)
    <3>1. seen.items = {} /\ IsFiniteSet(seen.items) /\ Cardinality(seen.items) = 0
      BY <2>1, FS_EmptySet
    <3> QED BY SMT, <3>1, SeenAssumption
  <2>3. seen.items \subseteq Range(seen.order)
    BY <2>1
  <2> QED BY <2>1, <2>2, <2>3 DEF SeenInv, SeenBounded
<1>2. SeenInv /\ [Next]_vars => SeenInv'
  <2> SUFFICES ASSUME SeenInv, [Next]_vars
               PROVE  SeenInv'
    OBVIOUS
  <2>1. \/ seen' = seen
        \/ \E x \in Hash : seen' = Add(seen, x) \/ seen' = Remove(Add(seen, x), x)
    BY DEF vars, Next, ReconnectLoop, LoopTick, LoopDiscovered, LoopEnd, LoopTarget,
           LoopStored, Dialed, DialFails, AddNode, Handler, Register, HandshakeFails,
           Disconnected, Misbehave, HandleAddr, HandleBlock, DisconnectNode, WriteLoop,
           ClosePeer, Evict, Accept, BanExpires, BackoffElapses, Recount
  <2>2. CASE seen' = seen
    BY <2>2 DEF SeenInv, SeenBounded
  <2>3. ASSUME NEW x \in Hash, seen' = Add(seen, x) \/ seen' = Remove(Add(seen, x), x)
        PROVE  SeenInv'
    BY <2>3, AddBounded, RemoveBounded DEF SeenInv, SeenBounded
  <2> QED BY <2>1, <2>2, <2>3
<1>3. SeenInv => SeenBounded
  BY DEF SeenInv
<1> QED BY <1>1, <1>2, <1>3, PTL DEF Spec

=============================================================================
