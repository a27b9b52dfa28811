-------------------------------- MODULE Sync --------------------------------
(***************************************************************************)
(* Block synchronisation: the sync state machine of the P2P manager        *)
(* (internal/p2p/manager.go) together with the block scheduler it drives.  *)
(*                                                                         *)
(* The best header chain of the network is 1..MaxHeight.  The node starts  *)
(* with the blocks up to ForkHeight of it, and with a tip at StartTip; if  *)
(* StartTip > ForkHeight, the blocks in between are on a branch of its own.*)
(* Of the chain manager, only this is kept: conn, the height up to which   *)
(* the header chain is stored, and the orphan pool.                        *)
(*                                                                         *)
(* Three kinds of goroutine interleave: the sync loop (tpc), the message   *)
(* loop of each peer (handler), and the loop that drains ibdBlockQueue.    *)
(* All peers speak protocol version 2.  The network is at rest: no block is*)
(* mined, so none is pushed unasked.  Time is left out: a timeout may run  *)
(* out when nothing that would prevent it is under way, or, as one of the  *)
(* MaxFaults faults, when something is, but late.                          *)
(***************************************************************************)
EXTENDS Scheduler

CONSTANTS
    NoPeer,
    StartTip, ForkHeight,
    Has,               \* Has[p]: the height of p's chain
    Claims,            \* what the peers may have said of it: a set of functions
    FreshFrom,         \* IsTipStale: a tip below this height is stale
    HeadersPerMsg,     \* protocol.MaxHeadersPerMsg
    ForkRecoveryGap, Margin, FarAhead,
    MaxStallsBeforeRotate,
    FastBatchSize, FastMaxInFlight,
    Late, MayLeave,    \* peers not connected at first; peers that may disconnect
    Faulty, Lossy,     \* peers that may send broken blocks, whose messages may be lost
    MayBeLate,         \* whether a timeout may run out before a late answer
    MaxFaults          \* broken blocks, losses and such timeouts, together

ASSUME SyncAssumption ==
    /\ NoPeer \notin Peer /\ Late \subseteq Peer
    /\ StartTip \in Nat /\ ForkHeight \in 0..MaxHeight
    /\ Has \in [Peer -> 0..MaxHeight]
    /\ HeadersPerMsg \in Nat /\ FastBatchSize \in Nat

VARIABLES
    syncState, finishedIBD,
    headerSyncPeer, lastHeaderHeight, headerSyncStalls, headerSyncCaughtUp,
    fastSyncPeer, fastSyncNext, fastSyncInFlight, fastSyncFallback,
    hasScheduler,      \* m.blockScheduler # nil
    blockSyncLastHeight,
    tpc, ready, todo,  \* the sync loop: where it is, blocks and peers to serve
    handler,           \* handler[p]: the block p's message loop is handling
    ibdQueue,
    seen,              \* seenBlocks
    peers, leaving,    \* m.peers; peers whose message loop is ending
    expected,          \* peers that will still connect
    bestHeight,        \* BestHeight() of each peer
    conn, pool,        \* the chain manager
    headers,           \* the header index: the header chain is known up to here
    blocksDue, headersDue, invDue,   \* what each peer is about to send
    faults

headerVars == <<headerSyncPeer, lastHeaderHeight, headerSyncStalls, headerSyncCaughtUp>>
fastVars == <<fastSyncPeer, fastSyncNext, fastSyncInFlight, fastSyncFallback>>
tickVars == <<tpc, ready, todo>>
chainVars == <<conn, pool>>
netVars == <<blocksDue, headersDue, invDue>>
peerVars == <<peers, leaving, expected, bestHeight>>
vars == <<schedVars, syncState, finishedIBD, headerVars, fastVars, hasScheduler,
          blockSyncLastHeight, tickVars, handler, ibdQueue, seen, peerVars, chainVars,
          headers, netVars, faults>>

Idle == [route |-> "idle", block |-> 0, good |-> TRUE]

Init ==
    /\ NoScheduler /\ hasScheduler = FALSE
    /\ syncState = "INITIAL" /\ finishedIBD = FALSE
    /\ headerSyncPeer = NoPeer /\ lastHeaderHeight = 0
    /\ headerSyncStalls = 0 /\ headerSyncCaughtUp = FALSE
    /\ fastSyncPeer = NoPeer /\ fastSyncNext = 0 /\ fastSyncInFlight = 0
    /\ fastSyncFallback = FALSE /\ blockSyncLastHeight = 0
    /\ tpc = "idle" /\ ready = <<>> /\ todo = {}
    /\ handler = [p \in Peer |-> Idle] /\ ibdQueue = <<>> /\ seen = {}
    /\ peers = Peer \ Late /\ leaving = {} /\ expected = Late /\ bestHeight \in Claims
    /\ conn = ForkHeight /\ pool = {} /\ headers = ForkHeight
    /\ blocksDue = [p \in Peer |-> <<>>] /\ headersDue = [p \in Peer |-> -1] /\ invDue = {}
    /\ faults = 0

-----------------------------------------------------------------------------
(* The chain manager and the header index, as the manager sees them.       *)

TipHeight == Max({conn, StartTip})
IsTipStale == TipHeight < FreshFrom
BestHeaderHeight == Max({headers, StartTip})

(* The last block of the header chain on the active chain, where peers     *)
(* continue after a getblocks, and after a getheaders.                     *)
MainHeight == IF conn > StartTip THEN conn ELSE ForkHeight
LocatorHeight == IF headers > StartTip THEN headers ELSE ForkHeight

(* As Outcome, but a block with a missing parent counts as invalid.        *)
Outcome_OrphanInvalid(b, good) ==
    IF b <= conn THEN "already in chain"
    ELSE IF ~good \/ b > conn + 1 THEN "invalid"
    ELSE IF b <= TipHeight THEN "side chain" ELSE "ok"

(* ProcessBlock: what it returns, and what it does.  A block of the header *)
(* chain no higher than a tip on another branch is a side chain block.     *)
Outcome(b, good) ==
    IF b <= conn THEN "already in chain"
    ELSE IF b > conn + 1 THEN "orphan"
    ELSE IF ~good THEN "invalid"
    ELSE IF b <= TipHeight THEN "side chain" ELSE "ok"

Connected(b) ==
    Max({m \in b..MaxHeight :
            \A c \in (b + 1)..m : [block |-> c, good |-> TRUE] \in pool})

ProcessBlock(b, good) ==
    LET r == Outcome(b, good)
    IN  /\ conn' = IF r \in {"ok", "side chain"} THEN Connected(b) ELSE conn
        /\ pool' = IF r \in {"ok", "side chain"}
                   THEN {e \in pool : e.block > conn' + 1}
                   ELSE IF r = "orphan" /\ b \notin Blocks(pool)
                   THEN pool \union {[block |-> b, good |-> good]}
                   ELSE pool

(* NotifyBlockAccepted: the header is added if its parent is there.        *)
NotifyBlockAccepted(b) == headers' = IF b = headers + 1 THEN b ELSE headers

-----------------------------------------------------------------------------
(* Messages.  A request and its answer are one item: what p is about to    *)
(* send.  A peer answers for the blocks it has, in the order of the        *)
(* request; what it already is about to send, it sends once.               *)

Ascending(from, to) == [i \in 1..(to - from + 1) |-> from + i - 1]

Getdata(p, bs) ==
    LET sent == {i \in DOMAIN bs : p \in peers /\ bs[i] <= Has[p]
                                     /\ bs[i] \notin Range(blocksDue[p])}
    IN  blocksDue' = [blocksDue EXCEPT ![p] = @ \o At(bs, sent)]

(* requestBlocks: getblocks, which is answered with an inv.                *)
RequestBlocks(ps) == invDue' = invDue \union (ps \intersect peers)

(* requestHeaders: getheaders with the locator of the best header.         *)
RequestHeaders(p) == headersDue' = [headersDue EXCEPT ![p] = LocatorHeight]

(* p is about to send b, or its message loop is handling it.               *)
Coming(p, b) == b \in Range(blocksDue[p]) \/ handler[p].block = b

Fault == faults < MaxFaults /\ faults' = faults + 1

(* A timeout runs out: in time if nothing is under way, or early.          *)
Timeout(inTime) ==
    \/ inTime /\ UNCHANGED faults
    \/ ~inTime /\ MayBeLate /\ Fault

(* addMisbehavior with a score of 100 closes the connection and bans.      *)
Misbehaved(p) == leaving' = leaving \union ({p} \intersect peers)

-----------------------------------------------------------------------------
(* The sync loop outside of BLOCK_SYNC.  Each tick is one step.            *)

Highest(ps) == {p \in ps : \A q \in ps : bestHeight[p] >= bestHeight[q]}
BestPeerHeight == Max({0} \union {bestHeight[p] : p \in peers})

(* As HeaderSyncPeers, but any peer ahead of the node will do.             *)
HeaderSyncPeers_Any == {p \in peers : bestHeight[p] > TipHeight}

(* selectHeaderSyncPeer; equal heights are ordered by the map.             *)
HeaderSyncPeers == Highest({p \in peers : bestHeight[p] > TipHeight})

(* selectFastSyncPeer leaves out peers that claim to be far ahead.         *)
FastSyncPeers ==
    Highest({p \in peers : bestHeight[p] <= BestHeaderHeight + FarAhead /\ bestHeight[p] > 0})

StartHeaderSync(p) ==
    /\ headerSyncPeer' = p /\ lastHeaderHeight' = BestHeaderHeight
    /\ headerSyncStalls' = 0 /\ headerSyncCaughtUp' = FALSE
    /\ RequestHeaders(p)

(* handleSyncInitial.                                                      *)
InitialTick ==
    /\ tpc = "idle" /\ syncState = "INITIAL" /\ peers # {}
    /\ LET ibd == ~finishedIBD /\ (IsTipStale \/ BestPeerHeight > TipHeight + Margin)
       IN  \/ /\ ~ibd
              /\ finishedIBD' = TRUE /\ syncState' = "SYNCED"
              /\ UNCHANGED <<headerVars, netVars>>
           \/ /\ ibd /\ BestPeerHeight <= TipHeight
              /\ RequestBlocks(peers)
              /\ UNCHANGED <<finishedIBD, syncState, headerVars, blocksDue, headersDue>>
           \/ /\ ibd /\ BestPeerHeight > TipHeight
              /\ \E p \in HeaderSyncPeers : StartHeaderSync(p)
              /\ syncState' = "HEADER_SYNC"
              /\ UNCHANGED <<finishedIBD, blocksDue, invDue>>
    /\ UNCHANGED <<schedVars, fastVars, hasScheduler, blockSyncLastHeight, tickVars, handler,
                   ibdQueue, seen, peerVars, chainVars, headers, faults>>

(* handleHeaderSyncTick without a connected sync peer.                     *)
HeaderPeerTick ==
    /\ tpc = "idle" /\ syncState = "HEADER_SYNC" /\ headerSyncPeer \notin peers
    /\ \E p \in HeaderSyncPeers : StartHeaderSync(p)
    /\ UNCHANGED <<schedVars, syncState, finishedIBD, fastVars, hasScheduler,
                   blockSyncLastHeight, tickVars, handler, ibdQueue, seen, peerVars,
                   chainVars, headers, blocksDue, invDue, faults>>

HeadersDone ==
    \/ BestHeaderHeight >= BestPeerHeight
    \/ BestHeaderHeight >= bestHeight[headerSyncPeer]
    \/ headerSyncCaughtUp /\ BestHeaderHeight > 0

(* New headers, but not all of them yet.                                   *)
HeaderProgressTick ==
    /\ tpc = "idle" /\ syncState = "HEADER_SYNC" /\ headerSyncPeer \in peers
    /\ ~HeadersDone /\ BestHeaderHeight > lastHeaderHeight
    /\ lastHeaderHeight' = BestHeaderHeight /\ headerSyncStalls' = 0
    /\ UNCHANGED <<schedVars, syncState, finishedIBD, headerSyncPeer, headerSyncCaughtUp,
                   fastVars, hasScheduler, blockSyncLastHeight, tickVars, handler, ibdQueue,
                   seen, peerVars, chainVars, headers, netVars, faults>>

(* A stall: no new header for headerSyncStallTimeout.  It is late if the   *)
(* tick would otherwise go on to the blocks.                               *)
HeaderStallTick ==
    /\ tpc = "idle" /\ syncState = "HEADER_SYNC" /\ headerSyncPeer \in peers
    /\ BestHeaderHeight <= lastHeaderHeight
    /\ Timeout(headersDue[headerSyncPeer] = -1 /\ ~HeadersDone)
    /\ headerSyncStalls' = headerSyncStalls + 1
    /\ IF headerSyncStalls' >= MaxStallsBeforeRotate
       THEN headerSyncPeer' = NoPeer /\ UNCHANGED headersDue
       ELSE RequestHeaders(headerSyncPeer) /\ UNCHANGED headerSyncPeer
    /\ UNCHANGED <<schedVars, syncState, finishedIBD, lastHeaderHeight, headerSyncCaughtUp,
                   fastVars, hasScheduler, blockSyncLastHeight, tickVars, handler, ibdQueue,
                   seen, peerVars, chainVars, headers, blocksDue, invDue>>

(* As NewScheduler, but m.blockScheduler is not set.                       *)
NewScheduler_Unused ==
    /\ Populate(TipHeight, BestHeaderHeight) /\ UNCHANGED hasScheduler
    /\ blockSyncLastHeight' = TipHeight

(* A scheduler is made and filled when there is none, or instead of the    *)
(* one there is.                                                           *)
NewScheduler ==
    /\ Populate(TipHeight, BestHeaderHeight) /\ hasScheduler' = TRUE
    /\ blockSyncLastHeight' = TipHeight

(* The tick that sees all headers arrived, and chooses how to go on.       *)
HeadersDoneTick ==
    /\ tpc = "idle" /\ syncState = "HEADER_SYNC" /\ headerSyncPeer \in peers
    /\ HeadersDone
    /\ IF BestHeaderHeight > lastHeaderHeight
       THEN lastHeaderHeight' = BestHeaderHeight /\ headerSyncStalls' = 0
       ELSE UNCHANGED <<lastHeaderHeight, headerSyncStalls>>
    /\ syncState' = "BLOCK_SYNC"
    /\ \/ /\ fastSyncFallback \/ FastSyncPeers = {}
          /\ NewScheduler
          /\ fastSyncFallback' = TRUE
          /\ UNCHANGED <<fastSyncPeer, fastSyncNext, fastSyncInFlight>>
       \/ /\ ~fastSyncFallback
          /\ fastSyncPeer' \in FastSyncPeers
          /\ fastSyncNext' = TipHeight + 1 /\ fastSyncInFlight' = 0
          /\ blockSyncLastHeight' = TipHeight
          /\ UNCHANGED <<fastSyncFallback, hasScheduler, schedVars>>
    /\ UNCHANGED <<finishedIBD, headerSyncPeer, headerSyncCaughtUp, tickVars, handler,
                   ibdQueue, seen, peerVars, chainVars, headers, netVars, faults>>

(* handleSyncedTick: start again when far behind, ask around when stale.   *)
SyncedTick ==
    /\ tpc = "idle" /\ syncState = "SYNCED"
    /\ IF \/ IsTipStale /\ BestPeerHeight > TipHeight + Margin
          \/ BestPeerHeight >= TipHeight + ForkRecoveryGap
       THEN /\ finishedIBD' = FALSE /\ syncState' = "INITIAL"
            /\ fastSyncPeer' = NoPeer /\ fastSyncFallback' = FALSE /\ fastSyncInFlight' = 0
            /\ hasScheduler' = FALSE
            /\ needed' = <<>> /\ inFlight' = {} /\ staging' = {}
            /\ statInFlight' = [p \in Peer |-> 0] /\ nextConnect' = 0
            /\ UNCHANGED invDue
       ELSE /\ IsTipStale /\ RequestBlocks(peers)
            /\ UNCHANGED <<finishedIBD, syncState, fastSyncPeer, fastSyncFallback,
                           fastSyncInFlight, hasScheduler, schedVars>>
    /\ UNCHANGED <<headerVars, fastSyncNext, blockSyncLastHeight, tickVars, handler, ibdQueue,
                   seen, peerVars, chainVars, headers, blocksDue, headersDue, faults>>

-----------------------------------------------------------------------------
(* BLOCK_SYNC, fast sync: handleFastSyncTick.                              *)

FastTick == tpc = "idle" /\ syncState = "BLOCK_SYNC" /\ fastSyncPeer # NoPeer

FastDoneTick ==
    /\ FastTick /\ TipHeight >= BestHeaderHeight
    /\ fastSyncPeer' = NoPeer /\ syncState' = "SYNCED"
    /\ UNCHANGED <<schedVars, finishedIBD, headerVars, fastSyncNext, fastSyncInFlight,
                   fastSyncFallback, hasScheduler, blockSyncLastHeight, tickVars, handler,
                   ibdQueue, seen, peerVars, chainVars, headers, netVars, faults>>

(* The peer is gone, or nothing has come for fastSyncStallTimeout.         *)
FastFallbackTick ==
    /\ FastTick /\ TipHeight < BestHeaderHeight
    /\ \/ fastSyncPeer \notin peers /\ UNCHANGED faults
       \/ fastSyncPeer \in peers /\ fastSyncInFlight > 0
          /\ Timeout(\A b \in Block : ~Coming(fastSyncPeer, b))
    /\ fastSyncPeer' = NoPeer /\ fastSyncFallback' = TRUE
    /\ NewScheduler
    /\ UNCHANGED <<syncState, finishedIBD, headerVars, fastSyncNext, fastSyncInFlight, tickVars,
                   handler, ibdQueue, seen, peerVars, chainVars, headers, netVars>>

(* One batch; the loop in the code is this step repeated.  The height that *)
(* the tick also records is overwritten before the scheduler reads it.     *)
FastRequestTick ==
    LET n == Min({FastBatchSize, BestHeaderHeight - fastSyncNext + 1})
    IN  /\ FastTick /\ TipHeight < BestHeaderHeight /\ fastSyncPeer \in peers
        /\ fastSyncInFlight < FastMaxInFlight /\ fastSyncNext <= BestHeaderHeight
        /\ Getdata(fastSyncPeer, Ascending(fastSyncNext, fastSyncNext + n - 1))
        /\ fastSyncInFlight' = fastSyncInFlight + n /\ fastSyncNext' = fastSyncNext + n
        /\ UNCHANGED <<schedVars, syncState, finishedIBD, headerVars, fastSyncPeer,
                       fastSyncFallback, hasScheduler, blockSyncLastHeight, tickVars, handler,
                       ibdQueue, seen, peerVars, chainVars, headers, headersDue, invDue,
                       faults>>

(* handleLegacyBlockSync: neither fast sync nor a scheduler.               *)
LegacyTick ==
    /\ tpc = "idle" /\ syncState = "BLOCK_SYNC" /\ fastSyncPeer = NoPeer /\ ~hasScheduler
    /\ IF BestPeerHeight <= TipHeight
       THEN syncState' = "SYNCED" /\ UNCHANGED invDue
       ELSE (\E p \in Highest(peers) : RequestBlocks({p})) /\ UNCHANGED syncState
    /\ UNCHANGED <<schedVars, finishedIBD, headerVars, fastVars, hasScheduler,
                   blockSyncLastHeight, tickVars, handler, ibdQueue, seen, peerVars,
                   chainVars, headers, blocksDue, headersDue, faults>>

-----------------------------------------------------------------------------
(* BLOCK_SYNC with the scheduler: handleBlockSyncTick, one step for each   *)
(* call that takes a lock.                                                 *)

TimeoutTick ==
    /\ tpc = "idle" /\ syncState = "BLOCK_SYNC" /\ fastSyncPeer = NoPeer /\ hasScheduler
    /\ \E overdue \in SUBSET inFlight :
          /\ HandleTimeout(overdue)
          /\ Timeout(\A e \in overdue : ~Coming(e.peer, e.block))
    /\ tpc' = "drain"
    /\ UNCHANGED <<syncState, finishedIBD, headerVars, fastVars, hasScheduler,
                   blockSyncLastHeight, ready, todo, handler, ibdQueue, seen, peerVars,
                   chainVars, headers, netVars>>

DrainTick ==
    LET n == Cardinality(ReadyHeights(headers))
        Staged(h) == CHOOSE e \in staging : e.block = h
    IN  /\ tpc = "drain"
        /\ DrainReady(headers)
        /\ ready' = [i \in 1..n |-> Staged(nextConnect + i - 1)]
        /\ tpc' = "process"
        /\ UNCHANGED <<syncState, finishedIBD, headerVars, fastVars, hasScheduler,
                       blockSyncLastHeight, todo, handler, ibdQueue, seen, peerVars,
                       chainVars, headers, netVars, faults>>

(* One drained block goes to the chain; if that fails, back to needed.     *)
ProcessReady ==
    LET e == Head(ready)
        r == Outcome(e.block, e.good)
    IN  /\ tpc = "process" /\ ready # <<>>
        /\ ready' = Tail(ready)
        /\ ProcessBlock(e.block, e.good)
        /\ \/ /\ r \in {"side chain", "already in chain"}
              /\ UNCHANGED <<schedVars, seen, leaving, headers>>
           \/ /\ r = "ok"
              /\ NotifyBlockAccepted(e.block)
              /\ UpdateNextConnectHeight(e.block)
              /\ UNCHANGED <<needed, inFlight, staging, statInFlight, seen, leaving>>
           \/ /\ r \in {"orphan", "invalid"}
              /\ RequeueBlock(e.block)
              /\ seen' = seen \ {e.block}
              /\ IF r = "invalid" THEN Misbehaved(e.peer) ELSE UNCHANGED leaving
              /\ UNCHANGED headers
        /\ UNCHANGED <<syncState, finishedIBD, headerVars, fastVars, hasScheduler,
                       blockSyncLastHeight, tpc, todo, handler, ibdQueue, peers, expected,
                       bestHeight, netVars, faults>>

(* The progress check: note a new height, or find none and go on.          *)
ProgressTick ==
    /\ tpc = "process" /\ ready = <<>>
    /\ blockSyncLastHeight' = Max({blockSyncLastHeight, TipHeight})
    /\ tpc' = "assign" /\ todo' = peers
    /\ UNCHANGED <<schedVars, syncState, finishedIBD, headerVars, fastVars, hasScheduler, ready,
                   handler, ibdQueue, seen, peerVars, chainVars, headers, netVars, faults>>

(* No progress for blockSyncStallTimeout: the scheduler starts afresh.     *)
(* Progress is under way if the block that DrainReady waits for is, unless *)
(* the scheduler is already past the block after the tip.                  *)
StallTick ==
    /\ tpc = "process" /\ ready = <<>> /\ TipHeight <= blockSyncLastHeight
    /\ Timeout(\/ nextConnect > TipHeight + 1
               \/ /\ nextConnect \notin Blocks(staging)
                  /\ \A p \in Peer : ~Coming(p, nextConnect))
    /\ Populate(TipHeight, BestHeaderHeight)
    /\ seen' = seen \ ((TipHeight + 1)..BestHeaderHeight)
    /\ tpc' = "assign" /\ todo' = peers
    /\ UNCHANGED <<syncState, finishedIBD, headerVars, fastVars, hasScheduler,
                   blockSyncLastHeight, ready, handler, ibdQueue, peerVars, chainVars,
                   headers, netVars>>

Assign(p) ==
    \E take \in SUBSET DOMAIN needed :
        LET picked == At(needed, take)
        IN  /\ AssignWork(p, bestHeight[p], take)
            /\ Getdata(p, [i \in DOMAIN picked |-> picked[i].block])

AssignTick ==
    /\ tpc = "assign"
    /\ \E p \in todo : Assign(p) /\ todo' = todo \ {p}
    /\ UNCHANGED <<syncState, finishedIBD, headerVars, fastVars, hasScheduler,
                   blockSyncLastHeight, tpc, ready, handler, ibdQueue, seen, peerVars,
                   chainVars, headers, headersDue, invDue, faults>>

CompleteTick ==
    /\ tpc = "assign" /\ todo = {}
    /\ syncState' = IF IsComplete THEN "SYNCED" ELSE syncState
    /\ tpc' = "idle"
    /\ UNCHANGED <<schedVars, finishedIBD, headerVars, fastVars, hasScheduler,
                   blockSyncLastHeight, ready, todo, handler, ibdQueue, seen, peerVars,
                   chainVars, headers, netVars, faults>>

-----------------------------------------------------------------------------
(* The message loop of a peer: handleBlock.  Receive is the part up to the *)
(* choice of a path; the chain or the scheduler is called in a later step, *)
(* when the state that the choice rests on may have changed.               *)

IsSyncing == syncState \in {"HEADER_SYNC", "BLOCK_SYNC"}

Route(p) ==
    IF syncState = "BLOCK_SYNC" /\ fastSyncPeer # NoPeer
    THEN IF p = fastSyncPeer THEN "fast" ELSE "idle"
    ELSE IF syncState = "BLOCK_SYNC" /\ hasScheduler THEN "sched"
    ELSE IF syncState = "HEADER_SYNC" THEN "idle"
    ELSE IF IsSyncing /\ ~hasScheduler THEN "queue"
    ELSE "direct"

(* A block that was seen before is dropped unless it is in flight.         *)
Dropped(b) == b \in seen /\ ~(hasScheduler /\ IsInFlight(b))

(* The entry in seenBlocks is made by the lookup, and taken back for a     *)
(* block that was there and is not dropped.                                *)
Receive(p, good) ==
    LET b == Head(blocksDue[p])
        drop == Dropped(b)
        route == IF drop THEN "idle" ELSE Route(p)
    IN  /\ p \in peers \ leaving /\ handler[p] = Idle /\ blocksDue[p] # <<>>
        /\ blocksDue' = [blocksDue EXCEPT ![p] = Tail(@)]
        /\ IF good THEN UNCHANGED faults ELSE p \in Faulty /\ Fault
        /\ seen' = IF drop THEN seen ELSE IF b \in seen THEN seen \ {b} ELSE seen \union {b}
        /\ handler' = IF route \in {"idle", "queue"} THEN handler
                      ELSE [handler EXCEPT ![p] = [route |-> route, block |-> b, good |-> good]]
        /\ IF route = "queue"
           THEN /\ ibdQueue' = Append(ibdQueue, [block |-> b, good |-> good, peer |-> p])
                /\ IF bestHeight[p] > 0 THEN RequestBlocks({p}) ELSE UNCHANGED invDue
           ELSE UNCHANGED <<ibdQueue, invDue>>
        /\ UNCHANGED <<schedVars, syncState, finishedIBD, headerVars, fastVars, hasScheduler,
                       blockSyncLastHeight, tickVars, peerVars, chainVars, headers,
                       headersDue>>

(* Fast sync: straight to the chain.  Anything but a block that is there   *)
(* or on a side chain ends fast sync.                                      *)
FastBlock(p) ==
    LET b == handler[p].block
        r == Outcome(b, handler[p].good)
    IN  /\ handler[p].route = "fast"
        /\ ProcessBlock(b, handler[p].good)
        /\ handler' = [handler EXCEPT ![p] = Idle]
        /\ \/ /\ r \in {"ok", "side chain", "already in chain"}
              /\ fastSyncInFlight' = fastSyncInFlight - 1
              /\ UNCHANGED <<schedVars, fastSyncPeer, fastSyncFallback, hasScheduler,
                             blockSyncLastHeight, seen, leaving>>
           \/ /\ r \in {"orphan", "invalid"}
              /\ IF r = "invalid" THEN Misbehaved(p) ELSE UNCHANGED leaving
              /\ fastSyncPeer' = NoPeer /\ fastSyncFallback' = TRUE
              /\ NewScheduler
              /\ seen' = seen \ ExpectedHashes'
              /\ UNCHANGED fastSyncInFlight
        /\ UNCHANGED <<syncState, finishedIBD, headerVars, fastSyncNext, tickVars, ibdQueue,
                       peers, expected, bestHeight, headers, netVars, faults>>

(* BlockReceived.  If it returns false, the block goes the direct way.     *)
SchedBlock(p) ==
    LET b == handler[p].block
    IN  /\ handler[p].route = "sched"
        /\ IF hasScheduler /\ IsInFlight(b)
           THEN /\ BlockReceived(b, p, handler[p].good)
                /\ handler' = [handler EXCEPT ![p].route = "assign"]
           ELSE /\ handler' = [handler EXCEPT ![p].route = "direct"]
                /\ UNCHANGED schedVars
        /\ UNCHANGED <<syncState, finishedIBD, headerVars, fastVars, hasScheduler,
                       blockSyncLastHeight, tickVars, ibdQueue, seen, peerVars, chainVars,
                       headers, netVars, faults>>

(* The peer that delivered is asked for more at once.                      *)
AssignBlock(p) ==
    /\ handler[p].route = "assign"
    /\ Assign(p)
    /\ handler' = [handler EXCEPT ![p] = Idle]
    /\ UNCHANGED <<syncState, finishedIBD, headerVars, fastVars, hasScheduler,
                   blockSyncLastHeight, tickVars, ibdQueue, seen, peerVars, chainVars,
                   headers, headersDue, invDue, faults>>

(* After an accepted block: the peer is known to have it.                  *)
Accepted(p, b) ==
    /\ NotifyBlockAccepted(b)
    /\ bestHeight' = [bestHeight EXCEPT ![p] = Max({@, b})]

(* The end of handleBlock: ProcessBlock, and what follows from its result. *)
DirectBlock(p) ==
    LET b == handler[p].block
        r == Outcome(b, handler[p].good)
    IN  /\ handler[p].route = "direct"
        /\ ProcessBlock(b, handler[p].good)
        /\ handler' = [handler EXCEPT ![p] = Idle]
        /\ seen' = IF r = "ok" THEN seen \union {b}
                   ELSE IF r = "side chain" THEN seen ELSE seen \ {b}
        /\ \/ /\ r \in {"side chain", "already in chain"}
              /\ UNCHANGED <<bestHeight, headers, blocksDue, invDue, leaving>>
           \/ /\ r = "orphan"
              /\ Getdata(p, <<b - 1>>) /\ RequestBlocks({p})
              /\ UNCHANGED <<bestHeight, headers, leaving>>
           \/ /\ r = "invalid"
              /\ Misbehaved(p)
              /\ UNCHANGED <<bestHeight, headers, blocksDue, invDue>>
           \/ /\ r = "ok"
              /\ Accepted(p, b)
              /\ IF bestHeight'[p] > b THEN RequestBlocks({p}) ELSE UNCHANGED invDue
              /\ UNCHANGED <<blocksDue, leaving>>
        /\ UNCHANGED <<schedVars, syncState, finishedIBD, headerVars, fastVars, hasScheduler,
                       blockSyncLastHeight, tickVars, ibdQueue, peers, expected, headersDue,
                       faults>>

(* processIBDBlock: the queue of the legacy path.                          *)
ProcessIBDBlock ==
    LET e == Head(ibdQueue)
        r == Outcome(e.block, e.good)
    IN  /\ ibdQueue # <<>>
        /\ ibdQueue' = Tail(ibdQueue)
        /\ ProcessBlock(e.block, e.good)
        /\ seen' = IF r \in {"already in chain", "invalid"} THEN seen \ {e.block} ELSE seen
        /\ IF r = "orphan" THEN Getdata(e.peer, <<e.block - 1>>) /\ RequestBlocks({e.peer})
           ELSE UNCHANGED <<blocksDue, invDue>>
        /\ IF r = "ok" THEN Accepted(e.peer, e.block) ELSE UNCHANGED <<bestHeight, headers>>
        /\ IF r = "invalid" THEN Misbehaved(e.peer) ELSE UNCHANGED leaving
        /\ UNCHANGED <<schedVars, syncState, finishedIBD, headerVars, fastVars, hasScheduler,
                       blockSyncLastHeight, tickVars, handler, peers, expected, headersDue,
                       faults>>

(* handleHeaders: p answers a getheaders with the headers after loc.  A    *)
(* full batch is followed by the next request.                             *)
HandleHeaders(p) ==
    LET loc == headersDue[p]
        top == Min({Has[p], loc + HeadersPerMsg})
        batch == (loc + 1)..top
        added == top > headers
        tip == TipHeight
        full == Cardinality(batch) = HeadersPerMsg
    IN  /\ p \in peers \ leaving /\ handler[p] = Idle /\ loc >= 0
        /\ headers' = Max({headers, top})
        /\ headersDue' = [headersDue EXCEPT ![p] = IF added /\ full THEN LocatorHeight' ELSE -1]
        /\ headerSyncCaughtUp' =
               (headerSyncCaughtUp \/ (added /\ ~full /\ p = headerSyncPeer))
        /\ IF added /\ syncState = "SYNCED" /\ tip + 1 \in batch
           THEN Getdata(p, <<tip + 1>>)
           ELSE UNCHANGED blocksDue
        /\ UNCHANGED <<schedVars, syncState, finishedIBD, headerSyncPeer, lastHeaderHeight,
                       headerSyncStalls, fastVars, hasScheduler, blockSyncLastHeight,
                       tickVars, handler, ibdQueue, seen, peerVars, chainVars, invDue,
                       faults>>

(* handleInv: inventory is ignored while the node is syncing.              *)
HandleInv(p) ==
    /\ p \in (peers \intersect invDue) \ leaving /\ handler[p] = Idle
    /\ invDue' = invDue \ {p}
    /\ IF IsSyncing THEN UNCHANGED blocksDue
       ELSE Getdata(p, Ascending(MainHeight + 1, Has[p]))
    /\ UNCHANGED <<schedVars, syncState, finishedIBD, headerVars, fastVars, hasScheduler,
                   blockSyncLastHeight, tickVars, handler, ibdQueue, seen, peerVars,
                   chainVars, headers, headersDue, faults>>

-----------------------------------------------------------------------------
(* A connection: after the handshake, the peer is on the map.  A peer that *)
(* comes back after it left counts as another peer.                        *)
Connect(p) ==
    /\ p \in expected
    /\ expected' = expected \ {p} /\ peers' = peers \union {p}
    /\ UNCHANGED <<schedVars, syncState, finishedIBD, headerVars, fastVars, hasScheduler,
                   blockSyncLastHeight, tickVars, handler, ibdQueue, seen, leaving,
                   bestHeight, chainVars, headers, netVars, faults>>

(* The end of a connection, handlePeer's deferred function: the peer is    *)
(* taken off the map first, and cleaned up after in a second step.         *)

Disconnect(p) ==
    /\ p \in peers \intersect (leaving \union MayLeave) /\ handler[p] = Idle
    /\ peers' = peers \ {p} /\ leaving' = leaving \union {p}
    /\ blocksDue' = [blocksDue EXCEPT ![p] = <<>>]
    /\ headersDue' = [headersDue EXCEPT ![p] = -1]
    /\ invDue' = invDue \ {p}
    /\ UNCHANGED <<schedVars, syncState, finishedIBD, headerVars, fastVars, hasScheduler,
                   blockSyncLastHeight, tickVars, handler, ibdQueue, seen, expected,
                   bestHeight, chainVars, headers, faults>>

Cleanup(p) ==
    /\ p \in leaving \ peers
    /\ leaving' = leaving \ {p}
    /\ IF hasScheduler THEN RemovePeer(p) ELSE UNCHANGED schedVars
    /\ fastSyncPeer' = IF fastSyncPeer = p THEN NoPeer ELSE fastSyncPeer
    /\ UNCHANGED <<syncState, finishedIBD, headerVars, fastSyncNext, fastSyncInFlight,
                   fastSyncFallback, hasScheduler, blockSyncLastHeight, tickVars, handler,
                   ibdQueue, seen, peers, expected, bestHeight, chainVars, headers, netVars,
                   faults>>

(* A message is lost: a send queue was full, or a peer does not answer.    *)
Lose(p) ==
    /\ p \in Lossy /\ Fault
    /\ \/ /\ \E i \in DOMAIN blocksDue[p] :
                blocksDue' = [blocksDue EXCEPT ![p] = At(@, DOMAIN @ \ {i})]
          /\ UNCHANGED <<headersDue, invDue>>
       \/ /\ headersDue[p] >= 0
          /\ headersDue' = [headersDue EXCEPT ![p] = -1]
          /\ UNCHANGED <<blocksDue, invDue>>
       \/ /\ p \in invDue
          /\ invDue' = invDue \ {p}
          /\ UNCHANGED <<blocksDue, headersDue>>
    /\ UNCHANGED <<schedVars, syncState, finishedIBD, headerVars, fastVars, hasScheduler,
                   blockSyncLastHeight, tickVars, handler, ibdQueue, seen, peerVars,
                   chainVars, headers>>

-----------------------------------------------------------------------------
(* What a tick of the sync loop does by itself, and what it does when a    *)
(* timeout has run out.                                                    *)
Tick ==
    \/ InitialTick \/ HeaderPeerTick \/ HeaderProgressTick \/ HeadersDoneTick
    \/ SyncedTick \/ FastDoneTick \/ FastRequestTick \/ LegacyTick
    \/ TimeoutTick \/ DrainTick \/ ProcessReady \/ ProgressTick \/ AssignTick
    \/ CompleteTick

TimedTick == HeaderStallTick \/ FastFallbackTick \/ StallTick

BlockStep(p) == FastBlock(p) \/ SchedBlock(p) \/ AssignBlock(p) \/ DirectBlock(p)

PeerStep(p) ==
    \/ \E good \in BOOLEAN : Receive(p, good)
    \/ BlockStep(p) \/ HandleHeaders(p) \/ HandleInv(p)
    \/ Connect(p) \/ Disconnect(p) \/ Cleanup(p) \/ Lose(p)

Next == Tick \/ TimedTick \/ ProcessIBDBlock \/ \E p \in Peer : PeerStep(p)

(* The ticker, the message loops and the queue's loop keep running, and    *)
(* answers that are not lost arrive.  A timeout that can run out again and *)
(* again does: hence strong fairness, as ticks of other kinds come between.*)
Fairness ==
    /\ WF_vars(Tick) /\ WF_vars(ProcessIBDBlock)
    /\ SF_vars(HeaderStallTick) /\ SF_vars(FastFallbackTick) /\ SF_vars(StallTick)
    /\ \A p \in Peer :
          /\ WF_vars(\E good \in BOOLEAN : Receive(p, good)) /\ WF_vars(BlockStep(p))
          /\ WF_vars(HandleHeaders(p)) /\ WF_vars(HandleInv(p))
          /\ WF_vars(Connect(p)) /\ WF_vars(p \in leaving /\ Disconnect(p)) /\ WF_vars(Cleanup(p))

Spec == Init /\ [][Next]_vars /\ Fairness

-----------------------------------------------------------------------------
(* Properties.                                                             *)

(* The blocks that the scheduler, or the tick that drained it, still has.  *)
Tracked == ExpectedHashes \union Blocks(Range(ready))

(* The scheduler never loses a block: if it still has block b, it also has *)
(* every block between the tip and b.  Timeouts, departures, flushes and   *)
(* rejected blocks all put back what they take.                            *)
NoHoles == \A b \in Tracked : (TipHeight + 1)..b \subseteq Tracked

(* No block is asked of two peers at a time or staged twice, and the limit *)
(* maxGlobalInFlight holds, although the sync loop and the message loops   *)
(* assign work in between each other.                                      *)
OneRequest ==
    /\ Cardinality(inFlight) <= MaxGlobalInFlight
    /\ \A e, f \in inFlight : e.block = f.block => e = f
    /\ \A e, f \in staging : e.block = f.block => e = f

(* A block is in one place only: queued once, or asked of one peer, or     *)
(* staged once; so none that has arrived is downloaded again.              *)
OnePlace ==
    /\ OneRequest
    /\ \A i, j \in DOMAIN needed : needed[i].block = needed[j].block => i = j
    /\ Blocks(inFlight) \intersect Blocks(staging) = {}
    /\ Blocks(Range(needed)) \intersect (Blocks(inFlight) \union Blocks(staging)) = {}

(* Only a peer that sent a broken block is banned for it, even when the    *)
(* block was staged and is processed long after, when its parent is        *)
(* missing, or when another peer had been asked for it.                    *)
HonestPeersStay == leaving \subseteq Faulty \union MayLeave

(* Fast sync and the scheduler report SYNCED only when the tip has reached *)
(* the best header that the block phase began with (lastHeaderHeight): a   *)
(* scheduler with nothing left has connected it all.                       *)
SyncedAtHeaders ==
    [][syncState = "BLOCK_SYNC" /\ syncState' = "SYNCED" /\ (hasScheduler \/ fastSyncPeer # NoPeer)
          => TipHeight >= lastHeaderHeight]_vars

(* The node catches up with its tallest peer, although messages are lost   *)
(* and the other peer disconnects.                                         *)
CatchesUp == <>(TipHeight = MaxHeight)

(* BLOCK_SYNC ends: no request, staged block or counter is left behind     *)
(* that keeps the scheduler waiting for ever.                              *)
BlockSyncEnds == syncState = "BLOCK_SYNC" ~> syncState = "SYNCED"

=============================================================================
