---------------------------- MODULE HeaderIndex ----------------------------
(***************************************************************************)
(* The header tree of header-first synchronisation (chain/headers.go) with *)
(* the clock it is validated against and the chain manager whose accepted  *)
(* blocks are entered into it.                                             *)
(*                                                                         *)
(* A header is identified by its hash, a block of HeaderTree.  The nodes   *)
(* of the index point to their parents, so the chain of a node is that of  *)
(* the tree whatever has since been deleted from the map byHash.  Headers  *)
(* of a message are validated against the local clock (handleHeaders),     *)
(* blocks against the network-adjusted one (ProcessBlock).                 *)
(***************************************************************************)
EXTENDS HeaderTree, Retarget, AdjustedClock

CONSTANTS
    HeaderOf,           \* HeaderOf[b]: the time and the bits of the header
    BadPow,             \* headers whose hash misses the target
    Algo, Rule, MinDiff,    \* the network, as in Retarget
    MaxRejected,        \* maxRejectedHeaders
    MaxIndexSize,       \* maxHeaderIndexSize
    MaxForkDepth,       \* maxForkDepth
    PruneEvery,         \* heights between two prunings (100)
    Dense,              \* locator entries before the gaps grow (10)
    MaxHeadersPerMsg,   \* protocol.MaxHeadersPerMsg
    MaxBatch,           \* bound on the headers of an announcement
    Offsets,            \* the time offsets that peers report
    Bodies,             \* the blocks that ProcessBlock may be given
    StartTime, MaxNow   \* the local clock's first and last time

ASSUME HeaderAssumption ==
    /\ BadPow \subseteq Block
    /\ \A b \in Block : HeaderOf[b].time \in Nat
    /\ \A b \in Block \ {Genesis} :
          ChainWork[b] = ChainWork[Parent[b]] + CalcWork(HeaderOf[b].bits)
    /\ Offsets \subseteq Int /\ Bodies \subseteq Block
    /\ MaxRejected \in Nat /\ MaxIndexSize \in Nat /\ MaxForkDepth \in Nat
    /\ PruneEvery \in Nat \ {0} /\ MaxHeadersPerMsg \in Nat \ {0}
    /\ StartTime \in Nat /\ MaxNow \in Nat

VARIABLES
    byHash,             \* the keys of idx.byHash
    bestHeader,
    bestChainByHeight,  \* a function on the heights 0..len-1
    rejected,           \* idx.rejectedOrder; idx.rejected is its range
    batch,              \* what is left of the AddHeaders call that holds idx.mu
    nowUnix,            \* the time handleHeaders read for that call
    stored, tip,        \* the chain manager's blocks and its tip
    notify,             \* accepted blocks whose NotifyBlockAccepted is due
    now                 \* the local clock

indexVars == <<byHash, bestHeader, bestChainByHeight, rejected>>
chainVars == <<stored, tip, notify>>
vars == <<indexVars, batch, nowUnix, chainVars, now, clockVars>>

-----------------------------------------------------------------------------
(* rebuildHeightIndex, for a new best header b.                            *)

(* As Rebuilt, but the shortcut does not look at the parent.               *)
Rebuilt_AnyParent(b) ==
    IF DOMAIN bestChainByHeight = 0..(Height[b] - 1)
    THEN [h \in 0..Height[b] |-> IF h = Height[b] THEN b ELSE bestChainByHeight[h]]
    ELSE AncestorAt[b]

Rebuilt(b) ==
    IF /\ Height[b] > 0
       /\ DOMAIN bestChainByHeight = 0..(Height[b] - 1)
       /\ bestChainByHeight[Height[b] - 1] = Parent[b]
    THEN [h \in 0..Height[b] |-> IF h = Height[b] THEN b ELSE bestChainByHeight[h]]
    ELSE AncestorAt[b]

(* pruneStaleForks, with b as the best header and index as the map.        *)
Pruned(index, b) ==
    IF Height[b] < MaxForkDepth THEN index
    ELSE {x \in index : Height[x] > Height[b] - MaxForkDepth \/ x \in ChainOf(b)}

(* A new node, which may be the new best header.                           *)
Insert(b, prune) ==
    IF ChainWork[b] > ChainWork[bestHeader]
    THEN /\ bestHeader' = b
         /\ bestChainByHeight' = Rebuilt(b)
         /\ byHash' = IF prune /\ Height[b] % PruneEvery = 0
                      THEN Pruned(byHash \cup {b}, b) ELSE byHash \cup {b}
    ELSE /\ byHash' = byHash \cup {b}
         /\ UNCHANGED <<bestHeader, bestChainByHeight>>

(* addRejectedLocked: first in, first out.                                 *)
AddRejected(b) ==
    LET Drop(s) == IF Len(s) >= MaxRejected /\ s # <<>> THEN Tail(s) ELSE s
    IN  rejected' = IF b \in Range(rejected) THEN rejected ELSE Append(Drop(rejected), b)

-----------------------------------------------------------------------------
(* As Ancestors, but the best chain serves every header.                   *)
Ancestors_BestChain(p) ==
    [h \in 0..Height[p] |->
        HeaderOf[IF h \in DOMAIN bestChainByHeight THEN bestChainByHeight[h]
                 ELSE AncestorAt[p][h]]]

(* buildAncestorLookup: the shortcut through the best chain is for a       *)
(* parent that is on it.                                                   *)
Ancestors(p) ==
    LET onBestChain == /\ Height[p] \in DOMAIN bestChainByHeight
                       /\ bestChainByHeight[Height[p]] = p
    IN  [h \in 0..Height[p] |->
            HeaderOf[IF onBestChain /\ h \in DOMAIN bestChainByHeight
                     THEN bestChainByHeight[h] ELSE AncestorAt[p][h]]]

(* The headers of the chain of p, by height.                               *)
ChainHeaders(p) == [h \in 0..Height[p] |-> HeaderOf[AncestorAt[p][h]]]

(* FullValidateHeader for b on top of its parent.                          *)
Valid(b, anc, time) ==
    /\ b \notin BadPow
    /\ FullValidateHeader(HeaderOf[b], Algo, MinDiff, Rule, Height[Parent[b]], anc, time)

(* A full index takes only what becomes its best header.                   *)
AtCapacity(b) ==
    /\ Cardinality(byHash) >= MaxIndexSize
    /\ ChainWork[b] <= ChainWork[bestHeader]

-----------------------------------------------------------------------------
(* NewHeaderIndex: the headers of the active chain, trusted; the clock and *)
(* the rejected headers of an earlier life are gone.                       *)
Fresh(t) ==
    /\ byHash = ChainOf(t) /\ bestHeader = t /\ bestChainByHeight = AncestorAt[t]
    /\ rejected = <<>> /\ batch = <<>> /\ notify = {}
    /\ ClockInit

Init ==
    /\ stored = {Genesis} /\ tip = Genesis
    /\ now = StartTime /\ nowUnix = StartTime
    /\ Fresh(Genesis)

Restart ==
    /\ byHash' = ChainOf(tip) /\ bestHeader' = tip /\ bestChainByHeight' = AncestorAt[tip]
    /\ rejected' = <<>> /\ batch' = <<>> /\ notify' = {}
    /\ offsets' = <<0>> /\ known' = {} /\ median' = 0
    /\ UNCHANGED <<stored, tip, now, nowUnix>>

(* The headers from height first to the block y on the chain of y.         *)
Segment(y, first) == [i \in 1..(Height[y] + 1 - first) |-> AncestorAt[y][first + i - 1]]

(* handleHeaders: a message whose headers form a chain and connect to the  *)
(* index goes to AddHeaders, which holds idx.mu until the message is       *)
(* through.                                                                *)
HandleHeaders(y, first) ==
    /\ batch = <<>>
    /\ Parent[AncestorAt[y][first]] \in byHash
    /\ batch' = Segment(y, first)
    /\ nowUnix' = now
    /\ UNCHANGED <<indexVars, chainVars, now, clockVars>>

(* addHeaderLocked and what AddHeaders makes of its result: a known or     *)
(* rejected header is skipped, any other error ends the batch.             *)
AddHeader ==
    /\ batch # <<>>
    /\ LET b == Head(batch)  p == Parent[b]
           Skip == batch' = Tail(batch) /\ UNCHANGED <<byHash, bestHeader, bestChainByHeight>>
           Fail == batch' = <<>> /\ UNCHANGED <<byHash, bestHeader, bestChainByHeight>>
       IN  \/ /\ b \in byHash \/ b \in Range(rejected)
              /\ Skip /\ UNCHANGED rejected
           \/ /\ b \notin byHash /\ b \notin Range(rejected) /\ p \in Range(rejected)
              /\ AddRejected(b) /\ Skip
           \/ /\ b \notin byHash /\ b \notin Range(rejected) /\ p \notin Range(rejected)
              /\ \/ /\ p \notin byHash \/ AtCapacity(b)
                    /\ Fail /\ UNCHANGED rejected
                 \/ /\ p \in byHash /\ ~AtCapacity(b) /\ ~Valid(b, Ancestors(p), nowUnix)
                    /\ AddRejected(b) /\ Fail
                 \/ /\ p \in byHash /\ ~AtCapacity(b) /\ Valid(b, Ancestors(p), nowUnix)
                    /\ Insert(b, TRUE)
                    /\ batch' = Tail(batch) /\ UNCHANGED rejected
    /\ UNCHANGED <<nowUnix, chainVars, now, clockVars>>

(* ProcessBlock takes a block of its own chain as valid by the adjusted    *)
(* clock.  The caller of ProcessBlock announces the block it passed in     *)
(* (announced), not the orphans that ProcessBlock connected after it.      *)
AcceptBlock(b, announced) ==
    /\ b \notin stored /\ Parent[b] \in stored
    /\ Valid(b, ChainHeaders(Parent[b]), AdjustedNow(now))
    /\ stored' = stored \cup {b}
    /\ tip' = IF ChainWork[b] > ChainWork[tip] THEN b ELSE tip
    /\ notify' = IF announced THEN notify \cup {b} ELSE notify
    /\ UNCHANGED <<indexVars, batch, nowUnix, now, clockVars>>

(* NotifyBlockAccepted: InsertTrustedHeader, whose error is dropped.       *)
NotifyBlockAccepted(b) ==
    /\ batch = <<>> /\ b \in notify
    /\ notify' = notify \ {b}
    /\ IF b \notin byHash /\ Parent[b] \in byHash THEN Insert(b, FALSE)
       ELSE UNCHANGED <<byHash, bestHeader, bestChainByHeight>>
    /\ UNCHANGED <<rejected, batch, nowUnix, stored, tip, now, clockVars>>

Handshake(p, offset) ==
    /\ AddSample(p, offset)
    /\ UNCHANGED <<indexVars, batch, nowUnix, chainVars, now>>

Tick ==
    /\ now < MaxNow /\ now' = now + 1
    /\ UNCHANGED <<indexVars, batch, nowUnix, chainVars, clockVars>>

Next ==
    \/ \E y \in Block \ {Genesis} : \E first \in 1..Height[y] :
          Height[y] - first < MaxBatch /\ HandleHeaders(y, first)
    \/ AddHeader
    \/ \E b \in Bodies, announced \in BOOLEAN : AcceptBlock(b, announced)
    \/ \E b \in notify : NotifyBlockAccepted(b)
    \/ \E p \in Peer, offset \in Offsets : Handshake(p, offset)
    \/ Tick
    \/ Restart

Spec == Init /\ [][Next]_vars

-----------------------------------------------------------------------------
(* HeaderLocator: the heights of the best chain whose hashes it lists; one *)
(* by one at first, then at gaps that double, down to genesis.  The loop   *)
(* ends there; going on would list genesis again.                          *)
LocatorHeights ==
    LET loop[n \in 1..(Height[bestHeader] + 1)] ==
            IF n = 1 THEN [at |-> Height[bestHeader], step |-> 1]
            ELSE LET last == loop[n - 1]
                 IN  [at   |-> Greater(0, last.at - last.step),
                      step |-> IF n - 1 > Dense THEN 2 * last.step ELSE last.step]
    IN  {loop[n].at : n \in DOMAIN loop}

(* As FindMainChainHash, but any block the peer has counts.                *)
FindMainChainHash_AnyBlock(b, y) == TRUE

(* FindMainChainHash of a peer whose active chain ends in y.               *)
FindMainChainHash(b, y) == Height[b] <= Height[y] /\ AncestorAt[y][Height[b]] = b

(* handleGetHeaders of that peer, given our locator: the headers above the *)
(* first hash of the locator that is on its active chain.                  *)
GetHeaders(locator, y) ==
    LET shared == {h \in locator : FindMainChainHash(AncestorAt[bestHeader][h], y)}
        start == CHOOSE h \in shared \cup {0} : \A k \in shared : k <= h
    IN  [i \in 1..Lesser(MaxHeadersPerMsg, Greater(0, Height[y] - start))
            |-> AncestorAt[y][start + i]]

(* HeadersToFetch: what the block scheduler is to download next.           *)
HeadersToFetch(start, limit) ==
    LET count == Lesser(limit, Height[bestHeader] + 1 - start)
    IN  [i \in 1..count |-> bestChainByHeight[start + i - 1]]

-----------------------------------------------------------------------------
TypeOK ==
    /\ byHash \subseteq Block /\ bestHeader \in Block
    /\ bestChainByHeight \in [0..Height[bestHeader] -> Block]
    /\ rejected \in Seq(Block) /\ batch \in Seq(Block \ {Genesis})
    /\ nowUnix \in Nat /\ now \in Nat /\ nowUnix <= now
    /\ stored \subseteq Block /\ tip \in stored /\ notify \subseteq stored \ {Genesis}
    /\ offsets \in Seq(Int) /\ known \subseteq Peer /\ median \in Int

(* The best header has the most work of all that are indexed, through any  *)
(* order of announcements, trusted insertions, forks that overtake each    *)
(* other and prunings; and the height index is its chain, so that the      *)
(* block scheduler is always given a chain of headers without a gap, each  *)
(* the parent of the next.                                                 *)
BestChainIndexed ==
    /\ \A x \in byHash : ChainWork[x] <= ChainWork[bestHeader]
    /\ bestChainByHeight = AncestorAt[bestHeader]
    /\ \A start \in 1..Height[bestHeader] :
          LET list == HeadersToFetch(start, MaxHeadersPerMsg)
          IN  /\ Parent[list[1]] = bestChainByHeight[start - 1]
              /\ \A i \in DOMAIN list \ {1} : Parent[list[i]] = list[i - 1]

(* Every indexed header is valid on its own chain: its proof of work, its  *)
(* bits and its timestamp, judged by its own ancestors and not by the best *)
(* chain of the moment it came in.  No timestamp is further ahead of the   *)
(* local clock than the drift and the largest clock adjustment allow,      *)
(* whatever offsets the peers reported.                                    *)
IndexedAreValid ==
    \A b \in byHash \ {Genesis} :
        Valid(b, ChainHeaders(Parent[b]), now + MaxAllowedOffset)

(* Header synchronisation makes progress with any peer: the peer's answer  *)
(* to our locator continues a header of our best chain, and unless it is   *)
(* cut by the size of the message it holds every header of the peer's      *)
(* chain that our best chain lacks.                                        *)
LocatorFindsFork ==
    LET locator == LocatorHeights IN
    \A y \in Block :
        LET answer == GetHeaders(locator, y)
        IN  /\ answer # <<>> => Parent[answer[1]] \in ChainOf(bestHeader)
            /\ Len(answer) < MaxHeadersPerMsg =>
                  ChainOf(y) \ ChainOf(bestHeader) \subseteq Range(answer)

=============================================================================
