------------------------------ MODULE Scheduler ------------------------------
(***************************************************************************)
(* The block scheduler (internal/p2p/scheduler.go): which blocks of the    *)
(* best header chain are still to be requested, which have been requested  *)
(* from which peer, and which have arrived and wait for their turn.        *)
(*                                                                         *)
(* A block is named by its height on the best header chain.  Each action   *)
(* is one method, which runs under s.mu.  Timeouts, departures and flushes *)
(* append to needed in the random order of a Go map.  Of the statistics of *)
(* a peer, only InFlight has an effect other than on the order in which    *)
(* peers are served.                                                       *)
(***************************************************************************)
EXTENDS Integers, FiniteSets, Sequences, FiniteSetsExt, Functions

CONSTANTS
    Peer,
    MaxHeight,             \* height of the best header chain of the network
    MaxInFlightPerPeer,
    MaxGlobalInFlight,
    MaxStagingSize

ASSUME SchedulerAssumption ==
    /\ MaxHeight \in Nat /\ MaxInFlightPerPeer \in Nat /\ MaxGlobalInFlight \in Nat
    /\ MaxStagingSize \in Nat

Block == 1..MaxHeight

VARIABLES
    needed,         \* queue of [block, height]; the height is 0 after a flush
    inFlight,       \* entries [block, height, peer]
    staging,        \* entries [block, peer, good]; good: the body is intact
    statInFlight,   \* peerStats: the counter InFlight of each peer
    nextConnect     \* nextConnectHeight

schedVars == <<needed, inFlight, staging, statInFlight, nextConnect>>

Blocks(entries) == {e.block : e \in entries}

(* RequestsOf is what the counter of a peer is meant to count.             *)
RequestsOf(p) == {e \in inFlight : e.peer = p}

NoScheduler ==
    /\ needed = <<>> /\ inFlight = {} /\ staging = {}
    /\ statInFlight = [p \in Peer |-> 0]
    /\ nextConnect = 0

(* NewBlockScheduler followed by Populate, and Reset: everything is        *)
(* cleared, then the headers above the tip are queued.                     *)
Populate(tipHeight, bestHeader) ==
    /\ nextConnect' = tipHeight + 1
    /\ needed' = [i \in 1..(bestHeader - tipHeight) |->
                     [block |-> tipHeight + i, height |-> tipHeight + i]]
    /\ inFlight' = {} /\ staging' = {}
    /\ statInFlight' = [p \in Peer |-> 0]

(* How many more blocks p may be asked for; none if staging is full.  Both *)
(* callers of AssignWork pass MaxInFlightPerPeer as the limit.             *)
Room(p) ==
    IF Cardinality(staging) >= MaxStagingSize THEN 0
    ELSE Max({0, Min({MaxInFlightPerPeer, MaxInFlightPerPeer - statInFlight[p],
                      MaxGlobalInFlight - Cardinality(inFlight)})})

(* take, the positions in needed that AssignWork serves: it passes over    *)
(* entries in flight and entries above p's height, until Room(p) is used.  *)
Taken(p, best, take) ==
    /\ \A i \in take : needed[i].block \notin Blocks(inFlight) /\ needed[i].height <= best
    /\ \A i, j \in take : needed[i].block = needed[j].block => i = j
    /\ Cardinality(take) <= Room(p)
    /\ \A i \in DOMAIN needed \ take :
          \/ needed[i].block \in Blocks(inFlight) \/ needed[i].height > best
          \/ Cardinality({j \in take : j < i}) = Room(p)
          \/ \E j \in take : j < i /\ needed[j].block = needed[i].block

(* The entries of a queue at the given positions, in order.                *)
Rank(positions, i) == Cardinality({j \in positions : j <= i})
At(queue, positions) ==
    [n \in 1..Cardinality(positions) |-> queue[CHOOSE i \in positions : Rank(positions, i) = n]]

AssignWork(p, best, take) ==
    /\ Taken(p, best, take)
    /\ needed' = At(needed, DOMAIN needed \ take)
    /\ inFlight' = inFlight \union
           {[block |-> needed[i].block, height |-> needed[i].height, peer |-> p] : i \in take}
    /\ statInFlight' = [statInFlight EXCEPT ![p] = @ + Cardinality(take)]
    /\ UNCHANGED <<staging, nextConnect>>

IsInFlight(b) == b \in Blocks(inFlight)

(* BlockReceived when the block is in flight: it is staged.  The counter   *)
(* of the peer that delivered it goes down, whoever was asked.             *)
BlockReceived(b, p, good) ==
    /\ IsInFlight(b)
    /\ inFlight' = {e \in inFlight : e.block # b}
    /\ staging' = {e \in staging : e.block # b} \union
                      {[block |-> b, peer |-> p, good |-> good]}
    /\ statInFlight' = [statInFlight EXCEPT ![p] = @ - 1]
    /\ UNCHANGED <<needed, nextConnect>>

(* The blocks that DrainReady returns: the staged ones from nextConnect on *)
(* without a gap, as far as there are headers.                             *)
ReadyHeights(bestHeader) ==
    {h \in nextConnect..bestHeader : nextConnect..h \subseteq Blocks(staging)}

(* Entries are put back at the end of needed, in any order.                *)
PutBack(entries) ==
    \E order \in Bijection(1..Cardinality(entries), entries) : needed' = needed \o order

(* DrainReady also flushes staging back to needed when it is more than     *)
(* half full and the next block is missing.                                *)
DrainReady(bestHeader) ==
    LET ready == ReadyHeights(bestHeader)
        next == nextConnect + Cardinality(ready)
        left == {e \in staging : e.block \notin ready}
        flush == next <= bestHeader /\ Cardinality(left) > MaxStagingSize \div 2
    IN  /\ nextConnect' = next
        /\ staging' = IF flush THEN {} ELSE left
        /\ PutBack(IF flush THEN {[block |-> e.block, height |-> 0] : e \in left} ELSE {})
        /\ UNCHANGED <<inFlight, statInFlight>>

RequeueBlock(b) ==
    /\ staging' = {e \in staging : e.block # b}
    /\ needed' = Append(needed, [block |-> b, height |-> 0])
    /\ UNCHANGED <<inFlight, statInFlight, nextConnect>>

Requeued(entries) == {[block |-> e.block, height |-> e.height] : e \in entries}

(* As HandleTimeout, but the late requests stay in flight.                 *)
HandleTimeout_Keeps(overdue) ==
    /\ PutBack(Requeued(overdue))
    /\ statInFlight' = [p \in Peer |->
           statInFlight[p] - Cardinality({e \in overdue : e.peer = p})]
    /\ UNCHANGED <<inFlight, staging, nextConnect>>

(* HandleTimeout: overdue are the requests older than requestTimeout.      *)
HandleTimeout(overdue) ==
    /\ inFlight' = inFlight \ overdue
    /\ PutBack(Requeued(overdue))
    /\ statInFlight' = [p \in Peer |->
           statInFlight[p] - Cardinality({e \in overdue : e.peer = p})]
    /\ UNCHANGED <<staging, nextConnect>>

(* As RemovePeer, but what the peer was asked for is forgotten.            *)
RemovePeer_Forgets(p) ==
    /\ inFlight' = inFlight \ RequestsOf(p)
    /\ statInFlight' = [statInFlight EXCEPT ![p] = 0]
    /\ UNCHANGED <<needed, staging, nextConnect>>

RemovePeer(p) ==
    /\ inFlight' = inFlight \ RequestsOf(p)
    /\ PutBack(Requeued(RequestsOf(p)))
    /\ statInFlight' = [statInFlight EXCEPT ![p] = 0]
    /\ UNCHANGED <<staging, nextConnect>>

UpdateNextConnectHeight(h) == nextConnect' = Max({nextConnect, h + 1})

ExpectedHashes == Blocks(Range(needed)) \union Blocks(inFlight) \union Blocks(staging)

(* As IsComplete, but staged blocks are not waited for.                    *)
IsComplete_Unstaged == needed = <<>> /\ inFlight = {}

IsComplete == needed = <<>> /\ inFlight = {} /\ staging = {}

=============================================================================
