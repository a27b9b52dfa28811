-------------------------------- MODULE Peers --------------------------------
(***************************************************************************)
(* The connections of the P2P manager (internal/p2p/manager.go, peer.go):  *)
(* dialing and accepting, the handshake, the table m.peers, bans, backoff, *)
(* the reconnect loop, and the set of blocks it has seen.                  *)
(*                                                                         *)
(* m.peers is keyed by address.  An outbound connection has the address it *)
(* was dialed at, an inbound one a port of its own, so outbound entries    *)
(* are a function of the host and inbound ones a set of connections.  A    *)
(* host's listen address (AddrFrom) stands for the host and for its IP.    *)
(*                                                                         *)
(* The handler of a connection, the reconnect loop, the goroutines of      *)
(* AddNode and connectSeeds and the accept loop interleave between their   *)
(* locked sections.                                                        *)
(*                                                                         *)
(* A definition X_... is a faulty variant of X; none is used by Next.      *)
(***************************************************************************)
EXTENDS HashSet

CONSTANTS
    Host,           \* remote nodes
    Subnet,         \* Subnet[h]: the /16 of the host
    Target,         \* the hosts of -connect, or the seeds without it
    MaxConn,        \* bound on the connections at one time
    MaxShaking,     \* bound on the outbound handshakes in progress at a tick
    Dialer,         \* goroutines that call connectPeer: "loop" and others
    Hash,           \* blocks
    MaxOutbound, MaxInbound,
    MaxOutboundPerSubnet,
    BanThreshold,
    MaxFaults,      \* bound on what the network and the operators do
    MaxEvents,      \* bound on those and the blocks received
    None

VARIABLES
    connectOnly,    \* whether Target was given by -connect
    conn,           \* conn[c]: phase, host, inbound, closed (done), banScore
    outbound,       \* outbound[h]: the entry of m.peers for h, or None
    inbound,        \* the inbound connections in m.peers
    stored,         \* peerStore
    banned,
    waiting,        \* the hosts whose backoff has not elapsed
    dialing,        \* dialing[d]: the host that goroutine d is dialing
    loop,           \* of reconnectLoop: stage, hosts to try, connected, outCount
    accepting,      \* the host whose connection waits for an eviction
    seen,           \* seenBlocks
    faults, blocks

network == <<faults, blocks>>
vars == <<connectOnly, conn, outbound, inbound, stored, banned, waiting, dialing, loop,
          accepting, seen, network>>

Conn == 1..MaxConn

Free == [phase |-> "free", host |-> None, inbound |-> FALSE, closed |-> FALSE, banScore |-> 0]
Idle == [stage |-> "idle", todo |-> {}, skip |-> {}, count |-> 0]

ASSUME PeersAssumption ==
    /\ Target \subseteq Host /\ None \notin Host /\ "loop" \in Dialer /\ MaxConn \in Nat
    /\ MaxShaking \in Nat /\ None \notin 1..MaxConn
    /\ MaxOutbound \in Nat /\ MaxInbound \in Nat /\ MaxOutboundPerSubnet \in Nat
    /\ BanThreshold \in Nat \ {0} /\ MaxFaults \in Nat /\ MaxEvents \in Nat

(* A host is connected when it has an entry, or a peer with an entry gave  *)
(* its address as the one it listens at.                                   *)
Connected(h) == outbound[h] # None \/ \E c \in inbound : conn[c].host = h

OutboundCount == Cardinality({h \in Host : outbound[h] # None})

OutboundSubnetCount(h) ==
    Cardinality({x \in Host : outbound[x] # None /\ Subnet[x] = Subnet[h]})

Fault == faults < MaxFaults /\ faults + blocks < MaxEvents /\ faults' = faults + 1

Init ==
    /\ connectOnly \in BOOLEAN
    /\ conn = [c \in Conn |-> Free]
    /\ outbound = [h \in Host |-> None] /\ inbound = {}
    /\ stored = Host \ Target /\ banned = {} /\ waiting = {}
    /\ dialing = [d \in Dialer |-> None] /\ loop = Idle /\ accepting = None
    /\ seen = NewHashSet /\ faults = 0 /\ blocks = 0

-----------------------------------------------------------------------------
(* connectPeer up to the dial: nothing for a host that is connected,       *)
(* banned or in a saturated subnet.                                        *)
MayDial(h) ==
    /\ ~Connected(h)
    /\ OutboundSubnetCount(h) < MaxOutboundPerSubnet
    /\ h \notin banned

ConnectPeer(d, h) == dialing' = [dialing EXCEPT ![d] = IF MayDial(h) THEN h ELSE None]

(* AddNode, or a host in the turn of connectSeeds.                         *)
AddNode(d, h) ==
    /\ d # "loop" /\ dialing[d] = None /\ MayDial(h)
    /\ Fault
    /\ ConnectPeer(d, h)
    /\ UNCHANGED <<connectOnly, conn, outbound, inbound, stored, banned, waiting, loop,
                   accepting, seen, blocks>>

DialFails(d) ==
    /\ dialing[d] # None /\ Fault
    /\ waiting' = waiting \cup {dialing[d]}
    /\ dialing' = [dialing EXCEPT ![d] = None]
    /\ UNCHANGED <<connectOnly, conn, outbound, inbound, stored, banned, loop, accepting,
                   seen, blocks>>

(* NewPeer, under the lowest free number; handlePeer runs in a goroutine   *)
(* of its own.                                                             *)
NewPeer(h, in) ==
    \E c \in Conn :
        /\ conn[c] = Free /\ \A x \in 1..(c - 1) : conn[x] # Free
        /\ conn' = [conn EXCEPT ![c] = [phase |-> "handshake", host |-> h, inbound |-> in,
                                        closed |-> FALSE, banScore |-> 0]]

Dialed(d) ==
    /\ dialing[d] # None
    /\ NewPeer(dialing[d], FALSE)
    /\ dialing' = [dialing EXCEPT ![d] = None]
    /\ UNCHANGED <<connectOnly, outbound, inbound, stored, banned, waiting, loop, accepting,
                   seen, network>>

(* acceptLoop with a free slot.  Handshakes in progress do not count.      *)
Accept(h) ==
    /\ accepting = None /\ h \notin banned /\ Fault
    /\ Cardinality(inbound) < MaxInbound
    /\ NewPeer(h, TRUE)
    /\ UNCHANGED <<connectOnly, outbound, inbound, stored, banned, waiting, dialing, loop,
                   accepting, seen, blocks>>

(* maybeEvictInbound: the slowest inbound peer, which may be any, is       *)
(* closed, and the accept loop sleeps.                                     *)
Evict(h, victim) ==
    /\ accepting = None /\ h \notin banned /\ Fault
    /\ Cardinality(inbound) >= MaxInbound /\ victim \in inbound
    /\ conn' = [conn EXCEPT ![victim].closed = TRUE]
    /\ accepting' = h
    /\ UNCHANGED <<connectOnly, outbound, inbound, stored, banned, waiting, dialing, loop,
                   seen, blocks>>

(* It counts again, and refuses if the victim is still there.              *)
Recount ==
    /\ accepting # None
    /\ \/ Cardinality(inbound) < MaxInbound /\ NewPeer(accepting, TRUE)
       \/ Cardinality(inbound) >= MaxInbound /\ UNCHANGED conn
    /\ accepting' = None
    /\ UNCHANGED <<connectOnly, outbound, inbound, stored, banned, waiting, dialing, loop,
                   seen, network>>

-----------------------------------------------------------------------------
(* handlePeer.  The handshake is complete: success is recorded, the peer   *)
(* gets its entry, over an earlier one for the same address, and its       *)
(* listen address is stored.                                               *)
Register(c) ==
    /\ conn[c].phase = "handshake"
    /\ conn' = [conn EXCEPT ![c].phase = "open"]
    /\ IF conn[c].inbound
       THEN inbound' = inbound \cup {c} /\ UNCHANGED <<outbound, waiting>>
       ELSE /\ outbound' = [outbound EXCEPT ![conn[c].host] = c]
            /\ waiting' = waiting \ {conn[c].host}
            /\ UNCHANGED inbound
    /\ stored' = stored \cup {conn[c].host}
    /\ UNCHANGED <<connectOnly, banned, dialing, loop, accepting, seen, network>>

(* The deferred function deletes the entry of the address, whichever       *)
(* connection it holds.                                                    *)
Leave_OutboundOnly(c) ==
    /\ conn' = [conn EXCEPT ![c] = Free]
    /\ IF conn[c].inbound THEN UNCHANGED outbound
       ELSE outbound' = [outbound EXCEPT ![conn[c].host] = None]
    /\ UNCHANGED inbound

Leave(c) ==
    /\ conn' = [conn EXCEPT ![c] = Free]
    /\ IF conn[c].inbound THEN UNCHANGED outbound
       ELSE outbound' = [outbound EXCEPT ![conn[c].host] = None]
    /\ inbound' = inbound \ {c}

(* The handshake fails: a read error, a timeout, the node itself, an old   *)
(* protocol version or an implausible height.                              *)
HandshakeFails(c) ==
    /\ conn[c].phase = "handshake" /\ Fault
    /\ waiting' = IF conn[c].inbound THEN waiting ELSE waiting \cup {conn[c].host}
    /\ Leave(c)
    /\ UNCHANGED <<connectOnly, stored, banned, dialing, loop, accepting, seen, blocks>>

(* The read loop ends with a read error, or because the peer was closed.   *)
Disconnected(c) ==
    /\ conn[c].phase = "open"
    /\ IF conn[c].closed THEN UNCHANGED faults ELSE Fault
    /\ Leave(c)
    /\ UNCHANGED <<connectOnly, stored, banned, waiting, dialing, loop, accepting, seen,
                   blocks>>

ClosePeer(c) ==
    /\ conn[c].phase = "open" /\ ~conn[c].closed /\ Fault
    /\ conn' = [conn EXCEPT ![c].closed = TRUE]
    /\ UNCHANGED <<connectOnly, outbound, inbound, stored, banned, waiting, dialing, loop,
                   accepting, seen, blocks>>

(* DisconnectNode finds the peer by its entry.                             *)
DisconnectNode(c) == c \in inbound \cup {outbound[h] : h \in Host} /\ ClosePeer(c)

(* A write error, in the goroutine that sends.                             *)
WriteLoop(c) == ClosePeer(c)

(* What one offence adds: less than the threshold, or all of it.          *)
Score == {1, BanThreshold}

(* addMisbehavior: the dialed -connect peers are exempt; at the threshold  *)
(* the IP is banned and the peer closed.                                   *)
AddMisbehavior(c, n) ==
    LET p == conn[c]
    IN  IF connectOnly /\ ~p.inbound /\ p.host \in Target THEN UNCHANGED <<conn, banned>>
        ELSE IF p.banScore + n >= BanThreshold
        THEN /\ conn' = [conn EXCEPT ![c].banScore = @ + n, ![c].closed = TRUE]
             /\ banned' = banned \cup {p.host}
        ELSE conn' = [conn EXCEPT ![c].banScore = @ + n] /\ UNCHANGED banned

(* handleMessage on something malformed, or out of turn, or too many.      *)
Misbehave(c, n) ==
    /\ conn[c].phase = "open" /\ ~conn[c].closed /\ Fault
    /\ AddMisbehavior(c, n)
    /\ UNCHANGED <<connectOnly, outbound, inbound, stored, waiting, dialing, loop, accepting,
                   seen, blocks>>

(* handleMessage on addr.                                                  *)
HandleAddr(c, h) ==
    /\ conn[c].phase = "open" /\ ~conn[c].closed /\ h \notin banned \cup stored
    /\ stored' = stored \cup {h}
    /\ UNCHANGED <<connectOnly, conn, outbound, inbound, banned, waiting, dialing, loop,
                   accepting, seen, network>>

(* handleBlock of a synced node.  A block that is refused is forgotten, so *)
(* that it can come again; a bad one also counts against the peer, and an  *)
(* accepted one is announced (BroadcastBlock).                             *)
HandleBlock(c, x) ==
    /\ conn[c].phase = "open" /\ ~conn[c].closed
    /\ faults + blocks < MaxEvents /\ blocks' = blocks + 1 /\ ~Has(seen, x)
    /\ \/ seen' = Add(seen, x) /\ UNCHANGED <<conn, banned, faults>>
       \/ seen' = Remove(Add(seen, x), x) /\ UNCHANGED <<conn, banned, faults>>
       \/ /\ seen' = Remove(Add(seen, x), x) /\ Fault
          /\ \E n \in Score : AddMisbehavior(c, n)
    /\ UNCHANGED <<connectOnly, outbound, inbound, stored, waiting, dialing, loop, accepting>>

BanExpires(h) ==
    /\ h \in banned /\ banned' = banned \ {h}
    /\ UNCHANGED <<connectOnly, conn, outbound, inbound, stored, waiting, dialing, loop,
                   accepting, seen, network>>

BackoffElapses(h) ==
    /\ h \in waiting /\ waiting' = waiting \ {h}
    /\ UNCHANGED <<connectOnly, conn, outbound, inbound, stored, banned, dialing, loop,
                   accepting, seen, network>>

-----------------------------------------------------------------------------
Shaking == {c \in Conn : conn[c].phase = "handshake" /\ ~conn[c].inbound}

(* reconnectLoop.  A tick notes who is connected.  The -connect targets    *)
(* are tried even when the outbound slots are full, seeds are not.         *)
LoopTick_SlotsOnly ==
    /\ loop = Idle /\ dialing["loop"] = None /\ Cardinality(Shaking) < MaxShaking
    /\ OutboundCount < MaxOutbound
    /\ loop' = [stage |-> "targets", todo |-> {h \in Target : ~Connected(h)},
                skip |-> {h \in Host : Connected(h)}, count |-> 0]
    /\ UNCHANGED <<connectOnly, conn, outbound, inbound, stored, banned, waiting, dialing,
                   accepting, seen, network>>

LoopTick ==
    /\ loop = Idle /\ dialing["loop"] = None /\ Cardinality(Shaking) < MaxShaking
    /\ connectOnly \/ OutboundCount < MaxOutbound
    /\ loop' = [stage |-> "targets", todo |-> {h \in Target : ~Connected(h)},
                skip |-> {h \in Host : Connected(h)}, count |-> 0]
    /\ UNCHANGED <<connectOnly, conn, outbound, inbound, stored, banned, waiting, dialing,
                   accepting, seen, network>>

MayRetry(h) == h \notin banned \cup waiting

LoopTarget(h) ==
    /\ loop.stage = "targets" /\ dialing["loop"] = None /\ h \in loop.todo
    /\ loop' = [loop EXCEPT !.todo = @ \ {h}, !.skip = IF MayRetry(h) THEN @ \cup {h} ELSE @]
    /\ IF MayRetry(h) THEN ConnectPeer("loop", h) ELSE UNCHANGED dialing
    /\ UNCHANGED <<connectOnly, conn, outbound, inbound, stored, banned, waiting, accepting,
                   seen, network>>

(* Then the stored addresses, for as many slots as are left.               *)
LoopDiscovered ==
    /\ loop.stage = "targets" /\ dialing["loop"] = None /\ loop.todo = {}
    /\ loop' = IF stored \subseteq loop.skip THEN Idle
               ELSE [Idle EXCEPT !.stage = "stored", !.todo = stored \ loop.skip,
                                 !.count = IF connectOnly THEN OutboundCount ELSE 0]
    /\ UNCHANGED <<connectOnly, conn, outbound, inbound, stored, banned, waiting, dialing,
                   accepting, seen, network>>

(* Without -connect one of them is enough for this tick.                   *)
LoopStored(h) ==
    /\ loop.stage = "stored" /\ dialing["loop"] = None /\ h \in loop.todo
    /\ connectOnly => loop.count < MaxOutbound
    /\ IF MayRetry(h)
       THEN /\ ConnectPeer("loop", h)
            /\ loop' = IF connectOnly THEN [loop EXCEPT !.todo = @ \ {h}, !.count = @ + 1]
                       ELSE Idle
       ELSE loop' = [loop EXCEPT !.todo = @ \ {h}] /\ UNCHANGED dialing
    /\ UNCHANGED <<connectOnly, conn, outbound, inbound, stored, banned, waiting, accepting,
                   seen, network>>

LoopEnd ==
    /\ loop.stage = "stored" /\ dialing["loop"] = None
    /\ loop.todo = {} \/ (connectOnly /\ loop.count >= MaxOutbound)
    /\ loop' = Idle
    /\ UNCHANGED <<connectOnly, conn, outbound, inbound, stored, banned, waiting, dialing,
                   accepting, seen, network>>

-----------------------------------------------------------------------------
ReconnectLoop ==
    \/ LoopTick \/ LoopDiscovered \/ LoopEnd
    \/ \E h \in Host : LoopTarget(h) \/ LoopStored(h)

Handler(c) ==
    \/ Register(c) \/ HandshakeFails(c) \/ Disconnected(c)
    \/ \E n \in Score : Misbehave(c, n)
    \/ \E h \in Host : HandleAddr(c, h)
    \/ \E x \in Hash : HandleBlock(c, x)

Next ==
    \/ ReconnectLoop
    \/ \E d \in Dialer : Dialed(d) \/ DialFails(d) \/ \E h \in Host : AddNode(d, h)
    \/ \E c \in Conn : Handler(c) \/ DisconnectNode(c) \/ WriteLoop(c) \/ \E h \in Host : Evict(h, c)
    \/ \E h \in Host : Accept(h) \/ BanExpires(h) \/ BackoffElapses(h)
    \/ Recount

Spec == Init /\ [][Next]_vars

(* Goroutines run, dials and handshakes end (they have timeouts), a closed *)
(* connection ends its read loop, and bans and backoffs expire.            *)
Fairness ==
    /\ WF_vars(ReconnectLoop) /\ WF_vars(Recount)
    /\ \A d \in Dialer : WF_vars(Dialed(d))
    /\ \A c \in Conn : WF_vars(Register(c)) /\ WF_vars(conn[c].closed /\ Disconnected(c))
    /\ \A h \in Host : WF_vars(BanExpires(h)) /\ WF_vars(BackoffElapses(h))

FairSpec == Spec /\ Fairness

-----------------------------------------------------------------------------
(* An entry of m.peers is a connection whose handler is still in its read  *)
(* loop, with the address it is filed under, although a second connection  *)
(* to the same address overwrites the entry and every cleanup deletes by   *)
(* address (handlePeer).                                                   *)
PeersAreLive ==
    /\ \A h \in Host : outbound[h] # None =>
           /\ outbound[h] \in Conn /\ conn[outbound[h]].phase = "open"
           /\ conn[outbound[h]].host = h /\ ~conn[outbound[h]].inbound
    /\ \A c \in inbound : c \in Conn /\ conn[c].phase = "open" /\ conn[c].inbound

(* seenBlocks never holds more than its capacity, and everything it holds  *)
(* can still be evicted, although removed hashes stay in the order and     *)
(* come back (boundedHashSet).                                             *)
SeenBounded ==
    /\ Cardinality(seen.items) <= SeenCap
    /\ seen.items \subseteq Range(seen.order)

(* A -connect target is connected again and again, whatever dials,         *)
(* handshakes, disconnects, bans of its IP by way of an inbound peer and   *)
(* second connections came in between (reconnectLoop).                     *)
TargetsReturn == connectOnly => \A h \in Target : []<>Connected(h)

=============================================================================
