-------------------------------- MODULE Chain --------------------------------
(***************************************************************************)
(* The chain manager (internal/chain/chain.go): block acceptance, the      *)
(* orphan pool, reorganisation, and the two databases it keeps in step.    *)
(*                                                                         *)
(* Every method runs under the mutex c.mu, so no two of them interleave.   *)
(* What does interleave with them is the end of the process: the writes to *)
(* the block index and to the chainstate are separate, so a method is a    *)
(* sequence of steps, one per database write, and a crash (Crash) or a     *)
(* write error (the ...Fails actions) may fall between any two.            *)
(*                                                                         *)
(* The flat files hold nothing that is reachable before an index record    *)
(* points to it, so writing a block or its undo data is part of the step   *)
(* that puts the record.                                                   *)
(*                                                                         *)
(* A definition X_... is a faulty variant of X; none is used by Next.      *)
(***************************************************************************)
EXTENDS BlockTree, Sequences, Functions

CONSTANTS
    MaxReorgDepth,  \* params.MaxReorgDepth, 0 for no limit
    MaxOrphans,     \* MaxOrphanBlocks (100)
    PruneDepth,     \* side-chain entries this far below the tip go (1000)
    CrashAt,        \* the values of pc at which the process may die
    FaultAt,        \* the values of pc at which a database write may fail
    MaxFailures     \* bound on the number of crashes and write errors

VARIABLES
    (* The maps and the tip of type Chain, and its UTXO set.               *)
    tip,            \* tipHash; tipHeight and tipWork are functions of it
    known,          \* the keys of heightByHash
    main,           \* hashByHeight
    utxo,           \* utxoSet
    orphans,        \* the orphan pool in order of arrival
    reorgs,         \* reorgHistory: the depths of recent reorganisations
    (* On disk: the block index database and the chainstate database.      *)
    index,          \* status of a block's record: "absent", "data", "undo"
    undo,           \* the undo data the record points to
    diskTip,        \* the chain tip key of the block index
    coins,          \* the coins of the chainstate
    bestBlock,      \* the best block key of the chainstate
    (* The method in progress.                                             *)
    pc,             \* the next step
    direct,         \* it is about the delivered block, not a pool child
    batch,          \* toProcess: the blocks still to be examined
    queue,          \* parents whose pool children are still to be examined
    pruneAfter,     \* the call ends with pruneSideChainIndex
    blk,            \* the block being connected
    fork,           \* forkParentHeight
    at,             \* the height the loops of reorg have reached
    trial,          \* trialSet
    liveUndo,       \* the undo data of the block connected last
    old,            \* oldChainHashes
    failures        \* number of crashes and write errors so far

memory == <<tip, known, main, utxo, orphans, reorgs>>
disk   == <<index, undo, diskTip, coins, bestBlock>>
work   == <<direct, batch, queue, pruneAfter>>
locals == <<blk, fork, at, trial, liveUndo, old>>
vars   == <<memory, disk, pc, work, locals, failures>>

ReorgSteps  == {"fork", "trialDisconnect", "trialConnect"}
CommitSteps == {"disconnect", "connect", "connectIndex", "reorgTip"}
Steps == {"off", "genesisTip", "genesisUtxo", "idle", "block", "extendUtxo",
          "extendTip"} \cup ReorgSteps \cup CommitSteps

ASSUME ChainAssumption ==
    /\ MaxReorgDepth \in Nat /\ PruneDepth \in Nat /\ MaxOrphans \in Nat \ {0}
    /\ CrashAt \subseteq Steps /\ FaultAt \subseteq Steps /\ MaxFailures \in Nat

-----------------------------------------------------------------------------
PersistConnect_KeepsSpent(b, undoData, set) ==
    /\ coins' = [c \in Coin |-> IF c \in Creates[b] /\ set[c] # Absent THEN set[c] ELSE coins[c]]
    /\ bestBlock' = b

(* persistUtxoChanges: one batch with the block's surviving outputs, the   *)
(* deletion of what it consumed, and the best block.                       *)
PersistConnect(b, undoData, set) ==
    /\ coins' = [c \in Coin |-> IF undoData[c] # Absent THEN Absent
                                ELSE IF c \in Creates[b] /\ set[c] # Absent THEN set[c]
                                ELSE coins[c]]
    /\ bestBlock' = b

(* persistUtxoDisconnect: the opposite batch.                              *)
PersistDisconnect(b, undoData) ==
    /\ coins' = Disconnect(coins, b, undoData)
    /\ bestBlock' = Parent[b]

(* flushUtxoSetToChainstate: the batch puts every coin of the set; it      *)
(* deletes none.                                                           *)
FlushUtxoSet(set, b) ==
    /\ coins' = [c \in Coin |-> IF set[c] # Absent THEN set[c] ELSE coins[c]]
    /\ bestBlock' = b

PutBlockIndex(b, status) == index' = [index EXCEPT ![b] = status]

(* DeleteBlockIndex, whose error the callers ignore.                       *)
DeleteBlockIndex(b) ==
    \/ PutBlockIndex(b, "absent")
    \/ pc \in FaultAt /\ UNCHANGED index

SumOf(depths) == SumFunction(depths)

-----------------------------------------------------------------------------
(* A fresh data directory.                                                 *)
Init ==
    /\ tip = NoBlock /\ known = {} /\ main = [h \in Heights |-> NoBlock]
    /\ utxo = NoCoins /\ orphans = <<>> /\ reorgs = <<>>
    /\ index = [b \in Block |-> "absent"] /\ undo = [b \in Block |-> NoCoins]
    /\ diskTip = NoBlock /\ coins = NoCoins /\ bestBlock = NoBlock
    /\ direct = FALSE /\ batch = {} /\ queue = <<>> /\ pruneAfter = FALSE
    /\ blk = NoBlock /\ fork = 0 /\ at = 0 /\ trial = NoCoins /\ liveUndo = NoCoins
    /\ old = {} /\ pc = "off" /\ failures = 0

(* The locals of reorg and of the extending branch go out of scope.        *)
NoReorg ==
    /\ blk' = NoBlock /\ fork' = 0 /\ at' = 0 /\ trial' = NoCoins
    /\ liveUndo' = NoCoins /\ old' = {}

(* The process dies: memory is gone, the databases keep what was written.  *)
Crash ==
    /\ pc \in CrashAt \ {"off"} /\ failures < MaxFailures
    /\ failures' = failures + 1 /\ pc' = "off"
    /\ tip' = NoBlock /\ known' = {} /\ main' = [h \in Heights |-> NoBlock]
    /\ utxo' = NoCoins /\ orphans' = <<>> /\ reorgs' = <<>>
    /\ direct' = FALSE /\ batch' = {} /\ queue' = <<>> /\ pruneAfter' = FALSE
    /\ NoReorg
    /\ UNCHANGED disk

InitGenesis_Unindexed ==
    /\ pc = "off" /\ diskTip = NoBlock
    /\ pc' = "genesisTip"
    /\ UNCHANGED <<memory, disk, work, locals, failures>>

(* Init on a data directory without a chain tip: initGenesis, write by     *)
(* write.                                                                  *)
InitGenesis ==
    /\ pc = "off" /\ diskTip = NoBlock
    /\ PutBlockIndex(Genesis, "data")
    /\ pc' = "genesisTip"
    /\ UNCHANGED <<memory, undo, diskTip, coins, bestBlock, work, locals, failures>>

GenesisTip ==
    /\ pc = "genesisTip"
    /\ diskTip' = Genesis /\ tip' = Genesis /\ known' = {Genesis}
    /\ main' = [main EXCEPT ![0] = Genesis]
    /\ utxo' = UtxoAt[Genesis]
    /\ pc' = "genesisUtxo"
    /\ UNCHANGED <<orphans, reorgs, index, undo, coins, bestBlock, work, locals, failures>>

GenesisUtxo ==
    /\ pc = "genesisUtxo"
    /\ FlushUtxoSet(utxo, Genesis)
    /\ pc' = "idle"
    /\ UNCHANGED <<memory, index, undo, diskTip, work, locals, failures>>

(* What Init walks from a tip: every block of its chain has a record.      *)
Walkable(b) == \A x \in ChainOf(b) : index[x] # "absent"

(* The tip Init settles on: the chainstate's best block when it is indexed *)
(* and higher than the recorded tip, the recorded tip otherwise.           *)
RecoveredTip ==
    IF /\ bestBlock # NoBlock /\ index[bestBlock] # "absent"
       /\ Height[bestBlock] > Height[diskTip]
    THEN bestBlock ELSE diskTip

RecoveredUtxo_Trusting == IF bestBlock # NoBlock THEN coins ELSE UtxoAt[RecoveredTip]

(* The UTXO set Init settles on: the chainstate when it is at that tip, a  *)
(* replay of the stored blocks otherwise.                                  *)
RecoveredUtxo == IF bestBlock = RecoveredTip THEN coins ELSE UtxoAt[RecoveredTip]

(* The replay connects every block of the chain.                           *)
Replayable(b) ==
    \A x \in ChainOf(b) \ {Genesis} : \A c \in Spends[x] : UtxoAt[Parent[x]][c] # Absent

Recoverable ==
    /\ Walkable(diskTip) /\ Walkable(RecoveredTip)
    /\ bestBlock # RecoveredTip => Replayable(RecoveredTip)

(* Init on an existing data directory.                                     *)
Restart ==
    /\ pc = "off" /\ diskTip # NoBlock /\ Recoverable
    /\ tip' = RecoveredTip /\ diskTip' = RecoveredTip
    /\ known' = {b \in Block : index[b] # "absent"}
    /\ main' = ByHeight(RecoveredTip)
    /\ utxo' = RecoveredUtxo
    /\ IF bestBlock = RecoveredTip THEN UNCHANGED <<coins, bestBlock>>
       ELSE FlushUtxoSet(RecoveredUtxo, RecoveredTip)
    /\ pc' = "idle"
    /\ UNCHANGED <<orphans, reorgs, index, undo, work, locals, failures>>

(* RescanUTXOSet.  The replay of maps that a failed commit left            *)
(* inconsistent is not modelled.                                           *)
RescanUTXOSet ==
    /\ pc = "idle" /\ main = ByHeight(tip) /\ Replayable(tip)
    /\ utxo' = UtxoAt[tip]
    /\ FlushUtxoSet(UtxoAt[tip], tip)
    /\ UNCHANGED <<tip, known, main, orphans, reorgs, index, undo, diskTip, pc, work,
                   locals, failures>>

-----------------------------------------------------------------------------
ParentKnown_Unread(b) == Parent[b] \in known

(* A parent is usable when it is in heightByHash and its record can be     *)
(* read (GetHeader, workForParentChain).                                   *)
ParentKnown(b) == Parent[b] \in known /\ index[Parent[b]] # "absent"

InPool(b) == b \in Range(orphans)

(* processBlock on a block whose parent is known and that passes header    *)
(* and block validation.  Duplicates and malformed blocks change nothing.  *)
ProcessBlock(b) ==
    /\ pc = "idle" /\ b \notin known /\ ~InPool(b)
    /\ ParentKnown(b) /\ b \notin Malformed
    /\ pc' = "block" /\ direct' = TRUE /\ batch' = {b} /\ queue' = <<>>
    /\ pruneAfter' = FALSE
    /\ UNCHANGED <<memory, disk, locals, failures>>

(* evictExpiredOrphans: the oldest n entries have passed OrphanExpiry.     *)
Unexpired(n) == SubSeq(orphans, n + 1, Len(orphans))

WithRoom_OffByOne(pool) == IF Len(pool) > MaxOrphans THEN Tail(pool) ELSE pool

(* evictOldestOrphan, when the pool is full.                               *)
WithRoom(pool) == IF Len(pool) >= MaxOrphans THEN Tail(pool) ELSE pool

(* processBlock on a block whose parent is not in heightByHash.  Header    *)
(* and block validation wait until the parent is known.                    *)
AddOrphan(b) ==
    /\ pc = "idle" /\ b \notin known /\ ~InPool(b) /\ Parent[b] \notin known
    /\ \E n \in 0..Len(orphans) : orphans' = Append(WithRoom(Unexpired(n)), b)
    /\ UNCHANGED <<tip, known, main, utxo, reorgs, disk, pc, work, locals, failures>>

(* EvictExpiredOrphans, the periodic sweep.                                *)
EvictExpiredOrphans ==
    /\ pc = "idle"
    /\ \E n \in 1..Len(orphans) : orphans' = Unexpired(n)
    /\ UNCHANGED <<tip, known, main, utxo, reorgs, disk, pc, work, locals, failures>>

-----------------------------------------------------------------------------
(* The pool entry with k entries of kept up to it.                         *)
Entry(kept, k) == CHOOSE i \in kept : Cardinality({j \in kept : j <= i}) = k

(* The pool without the children of p, still in order of arrival.          *)
Without(p) ==
    LET kept == {i \in DOMAIN orphans : Parent[orphans[i]] # p}
    IN  [k \in 1..Cardinality(kept) |-> orphans[Entry(kept, k)]]

NextParent_Again ==
    /\ pc = "block" /\ batch = {} /\ queue # <<>>
    /\ batch' = {b \in Block : InPool(b) /\ Parent[b] = Head(queue)}
    /\ orphans' = Without(Head(queue))
    /\ direct' = FALSE
    /\ UNCHANGED <<tip, known, main, utxo, reorgs, disk, pc, queue, pruneAfter, locals, failures>>

(* processOrphans takes the pool children of the next parent.  The order   *)
(* in which they are examined is that of their hashes, which is arbitrary. *)
NextParent ==
    /\ pc = "block" /\ batch = {} /\ queue # <<>>
    /\ batch' = {b \in Block : InPool(b) /\ Parent[b] = Head(queue)}
    /\ orphans' = Without(Head(queue))
    /\ queue' = Tail(queue) /\ direct' = FALSE
    /\ UNCHANGED <<tip, known, main, utxo, reorgs, disk, pc, pruneAfter, locals, failures>>

(* pruneSideChainIndex forgets the side-chain blocks far below the tip.    *)
Pruned ==
    LET cutoff == IF Height[tip] > PruneDepth THEN Height[tip] - PruneDepth ELSE 0
    IN  {b \in known : Height[b] >= cutoff \/ main[Height[b]] = b}

(* The call returns and c.mu is released.                                  *)
Return ==
    /\ pc = "block" /\ batch = {} /\ queue = <<>>
    /\ known' = IF pruneAfter THEN Pruned ELSE known
    /\ pc' = "idle" /\ direct' = FALSE /\ pruneAfter' = FALSE
    /\ UNCHANGED <<tip, main, utxo, orphans, reorgs, disk, batch, queue, locals, failures>>

(* A block of the batch that is dropped: a pool child whose parent is gone *)
(* or that fails validation (also because its timestamp is still ahead of  *)
(* the clock), or a child of the tip with bad inputs.                      *)
RejectBlock(b) ==
    /\ pc = "block" /\ b \in batch
    /\ \/ ~direct
       \/ Parent[b] = tip /\ ~TxInputsOk(b, utxo)
    /\ batch' = batch \ {b}
    /\ UNCHANGED <<memory, disk, pc, direct, queue, pruneAfter, locals, failures>>

Candidate(b) == pc = "block" /\ b \in batch /\ ParentKnown(b) /\ b \notin Malformed

ExtendIndex_Unchecked(b) ==
    /\ Candidate(b) /\ Parent[b] = tip
    /\ utxo' = Connect(utxo, b)
    /\ undo' = [undo EXCEPT ![b] = UndoOf(utxo, b)]
    /\ PutBlockIndex(b, "undo")
    /\ blk' = b /\ pc' = "extendUtxo"
    /\ UNCHANGED <<tip, known, main, orphans, reorgs, diskTip, coins, bestBlock, work,
                   fork, at, trial, liveUndo, old, failures>>

(* A child of the tip: validate, store, connect in memory, write the undo  *)
(* data and the index record.                                              *)
ExtendIndex(b) ==
    /\ Candidate(b) /\ Parent[b] = tip /\ TxInputsOk(b, utxo)
    /\ utxo' = Connect(utxo, b)
    /\ undo' = [undo EXCEPT ![b] = UndoOf(utxo, b)]
    /\ PutBlockIndex(b, "undo")
    /\ blk' = b /\ pc' = "extendUtxo"
    /\ UNCHANGED <<tip, known, main, orphans, reorgs, diskTip, coins, bestBlock, work,
                   fork, at, trial, liveUndo, old, failures>>

ExtendUtxo ==
    /\ pc = "extendUtxo"
    /\ PersistConnect(blk, undo[blk], utxo)
    /\ pc' = "extendTip"
    /\ UNCHANGED <<memory, index, undo, diskTip, work, locals, failures>>

(* extendChain, and the block joins the parents whose children are due.    *)
ExtendTip ==
    /\ pc = "extendTip"
    /\ diskTip' = blk /\ tip' = blk
    /\ known' = known \cup {blk} /\ main' = [main EXCEPT ![Height[blk]] = blk]
    /\ batch' = batch \ {blk} /\ queue' = Append(queue, blk)
    /\ pruneAfter' = (pruneAfter \/ direct)
    /\ pc' = "block" /\ NoReorg
    /\ UNCHANGED <<utxo, orphans, reorgs, index, undo, coins, bestBlock, direct, failures>>

(* A block that is neither on the tip nor heavier than it is only stored.  *)
SideChain(b) ==
    /\ Candidate(b) /\ Parent[b] # tip /\ ChainWork[b] <= ChainWork[tip]
    /\ PutBlockIndex(b, "data") /\ known' = known \cup {b}
    /\ batch' = batch \ {b} /\ queue' = Append(queue, b)
    /\ UNCHANGED <<tip, main, utxo, orphans, reorgs, undo, diskTip, coins, bestBlock, pc,
                   direct, pruneAfter, locals, failures>>

ReorgIndex_OnTie(b) ==
    /\ Candidate(b) /\ Parent[b] # tip /\ ChainWork[b] >= ChainWork[tip]
    /\ PutBlockIndex(b, "data")
    /\ known' = IF direct THEN known ELSE known \cup {b}
    /\ blk' = b /\ pc' = "fork"
    /\ UNCHANGED <<tip, main, utxo, orphans, reorgs, undo, diskTip, coins, bestBlock, work,
                   fork, at, trial, liveUndo, old, failures>>

(* A heavier block is stored, and only a pool child enters heightByHash,   *)
(* before reorg is called.                                                 *)
ReorgIndex(b) ==
    /\ Candidate(b) /\ Parent[b] # tip /\ ChainWork[b] > ChainWork[tip]
    /\ PutBlockIndex(b, "data")
    /\ known' = IF direct THEN known ELSE known \cup {b}
    /\ blk' = b /\ pc' = "fork"
    /\ UNCHANGED <<tip, main, utxo, orphans, reorgs, undo, diskTip, coins, bestBlock, work,
                   fork, at, trial, liveUndo, old, failures>>

-----------------------------------------------------------------------------
(* reorg, phase 0: the path back to the highest block of b's chain that is *)
(* on the active chain, and the two depth limits.                          *)
OnMain(b) == b \in known /\ main[Height[b]] = b

IsFork(b, h) ==
    /\ h \in 0..(Height[b] - 1) /\ OnMain(AncestorAt[b][h])
    /\ \A k \in (h + 1)..(Height[b] - 1) : ~OnMain(AncestorAt[b][k])

(* reorgDepth is a uint32.  After a failed commit the fork can lie above   *)
(* the tip, and the difference wraps to a number beyond every limit.       *)
Wrapped == 1000000

Depth(h) == IF h <= Height[tip] THEN Height[tip] - h ELSE Wrapped

(* Where the loops over the old chain start: not at all if it is empty.    *)
TopOf(h) == IF h < Height[tip] THEN Height[tip] ELSE h

(* The entries of reorgHistory that are younger than 24 hours once the     *)
(* oldest n have aged out.                                                 *)
Recent(n) == SubSeq(reorgs, n + 1, Len(reorgs))

AbortReorg_KeepsBlock(keep) ==
    /\ DeleteBlockIndex(blk)
    /\ known' = keep
    /\ batch' = batch \ {blk} /\ pc' = "block" /\ NoReorg
    /\ UNCHANGED <<tip, orphans, reorgs, undo, diskTip, direct, queue, pruneAfter>>

(* reorg returns an error other than ErrReorgTooDeep: the new tip's record *)
(* is deleted, and a pool child leaves heightByHash again.                 *)
AbortReorg(keep) ==
    /\ DeleteBlockIndex(blk)
    /\ known' = IF direct THEN keep ELSE keep \ {blk}
    /\ batch' = batch \ {blk} /\ pc' = "block" /\ NoReorg
    /\ UNCHANGED <<tip, orphans, reorgs, undo, diskTip, direct, queue, pruneAfter>>

(* ErrReorgTooDeep: the block stays as a side chain.  The children of a    *)
(* delivered block are examined next; those of a pool child are not.       *)
ReorgTooDeep(h) ==
    /\ pc = "fork" /\ IsFork(blk, h) /\ MaxReorgDepth > 0
    /\ \/ Depth(h) > MaxReorgDepth /\ UNCHANGED reorgs
       \/ /\ Depth(h) <= MaxReorgDepth
          /\ \E n \in 0..Len(reorgs) :
                /\ Depth(h) + SumOf(Recent(n)) > 3 * MaxReorgDepth
                /\ reorgs' = Recent(n)
    /\ known' = known \cup {blk}
    /\ batch' = batch \ {blk} /\ queue' = IF direct THEN Append(queue, blk) ELSE queue
    /\ pc' = "block" /\ NoReorg
    /\ UNCHANGED <<tip, main, utxo, orphans, disk, direct, pruneAfter, failures>>

StartTrial_NoLimit(h) ==
    /\ pc = "fork" /\ IsFork(blk, h)
    /\ \E n \in 0..Len(reorgs) :
          /\ Depth(h) + SumOf(Recent(n)) <= 3 * MaxReorgDepth
          /\ reorgs' = Recent(n)
    /\ fork' = h /\ at' = TopOf(h) /\ trial' = utxo
    /\ pc' = IF Height[tip] > h THEN "trialDisconnect" ELSE "trialConnect"
    /\ UNCHANGED <<tip, known, main, utxo, orphans, disk, work, blk, liveUndo, old, failures>>

StartTrial_NoWindow(h) ==
    /\ pc = "fork" /\ IsFork(blk, h)
    /\ MaxReorgDepth > 0 => Depth(h) <= MaxReorgDepth
    /\ fork' = h /\ at' = TopOf(h) /\ trial' = utxo
    /\ pc' = IF Height[tip] > h THEN "trialDisconnect" ELSE "trialConnect"
    /\ UNCHANGED <<tip, known, main, utxo, orphans, reorgs, disk, work, blk, liveUndo, old,
                   failures>>

(* The limits hold: phase 1 starts on a clone of the UTXO set.             *)
StartTrial(h) ==
    /\ pc = "fork" /\ IsFork(blk, h)
    /\ IF MaxReorgDepth = 0 THEN UNCHANGED reorgs
       ELSE /\ Depth(h) <= MaxReorgDepth
            /\ \E n \in 0..Len(reorgs) :
                  /\ Depth(h) + SumOf(Recent(n)) <= 3 * MaxReorgDepth
                  /\ reorgs' = Recent(n)
    /\ fork' = h /\ at' = TopOf(h) /\ trial' = utxo
    /\ pc' = IF Height[tip] > h THEN "trialDisconnect" ELSE "trialConnect"
    /\ UNCHANGED <<tip, known, main, utxo, orphans, disk, work, blk, liveUndo, old, failures>>

(* Phase 1: disconnect the old chain from the clone, top down ...          *)
Undoable(b) == b # NoBlock /\ index[b] = "undo"

TrialDisconnect ==
    /\ pc = "trialDisconnect" /\ Undoable(main[at])
    /\ trial' = Disconnect(trial, main[at], undo[main[at]])
    /\ at' = at - 1
    /\ pc' = IF at - 1 > fork THEN "trialDisconnect" ELSE "trialConnect"
    /\ UNCHANGED <<memory, disk, work, blk, fork, liveUndo, old, failures>>

(* ... and connect the new one, each block validated against the clone.    *)
TrialConnect ==
    /\ pc = "trialConnect"
    /\ LET b == AncestorAt[blk][at + 1]
       IN  /\ TxInputsOk(b, trial)
           /\ trial' = Connect(trial, b)
           /\ IF b # blk THEN at' = at + 1 /\ pc' = pc
              ELSE /\ at' = TopOf(fork)
                   /\ pc' = IF Height[tip] > fork THEN "disconnect" ELSE "connect"
    /\ UNCHANGED <<memory, disk, work, blk, fork, liveUndo, old, failures>>

(* The clone is discarded: a block cannot be disconnected or is invalid.   *)
TrialFails ==
    /\ \/ pc = "trialDisconnect" /\ ~Undoable(main[at])
       \/ pc = "trialConnect" /\ ~TxInputsOk(AncestorAt[blk][at + 1], trial)
    /\ AbortReorg(known) /\ UNCHANGED <<main, utxo, coins, bestBlock, failures>>

DisconnectTip_Forgets ==
    /\ pc = "disconnect"
    /\ utxo' = Disconnect(utxo, main[at], undo[main[at]])
    /\ PersistDisconnect(main[at], undo[main[at]])
    /\ at' = at - 1
    /\ pc' = IF at - 1 > fork THEN "disconnect" ELSE "connect"
    /\ UNCHANGED <<tip, known, main, orphans, reorgs, index, undo, diskTip, work,
                   blk, fork, trial, liveUndo, old, failures>>

(* Phase 2: the same on the live set, with one chainstate batch per block. *)
DisconnectTip ==
    /\ pc = "disconnect"
    /\ utxo' = Disconnect(utxo, main[at], undo[main[at]])
    /\ PersistDisconnect(main[at], undo[main[at]])
    /\ old' = old \cup {main[at]} /\ at' = at - 1
    /\ pc' = IF at - 1 > fork THEN "disconnect" ELSE "connect"
    /\ UNCHANGED <<tip, known, main, orphans, reorgs, index, undo, diskTip, work,
                   blk, fork, trial, liveUndo, failures>>

ConnectNext ==
    /\ pc = "connect"
    /\ LET b == AncestorAt[blk][at + 1]
       IN  /\ utxo' = Connect(utxo, b)
           /\ liveUndo' = UndoOf(utxo, b)
           /\ PersistConnect(b, UndoOf(utxo, b), Connect(utxo, b))
    /\ at' = at + 1 /\ pc' = "connectIndex"
    /\ UNCHANGED <<tip, known, main, orphans, reorgs, index, undo, diskTip, work,
                   blk, fork, trial, old, failures>>

ConnectIndex_NoRecord ==
    /\ pc = "connectIndex"
    /\ LET b == AncestorAt[blk][at]
       IN  /\ undo' = [undo EXCEPT ![b] = liveUndo]
           /\ known' = known \cup {b}
           /\ main' = [main EXCEPT ![at] = b]
    /\ pc' = IF at < Height[blk] THEN "connect" ELSE "reorgTip"
    /\ UNCHANGED <<tip, utxo, orphans, reorgs, index, diskTip, coins, bestBlock, work, locals,
                   failures>>

ConnectIndex ==
    /\ pc = "connectIndex"
    /\ LET b == AncestorAt[blk][at]
       IN  /\ undo' = [undo EXCEPT ![b] = liveUndo]
           /\ PutBlockIndex(b, "undo")
           /\ known' = known \cup {b}
           /\ main' = [main EXCEPT ![at] = b]
    /\ pc' = IF at < Height[blk] THEN "connect" ELSE "reorgTip"
    /\ UNCHANGED <<tip, utxo, orphans, reorgs, diskTip, coins, bestBlock, work, locals, failures>>

(* The old chain leaves the maps, where the new one has not replaced it.   *)
WithoutOld == [h \in Heights |-> IF main[h] \in old THEN NoBlock ELSE main[h]]

(* After a reorganisation only the children of the new tip are examined.   *)
ReorgTip ==
    /\ pc = "reorgTip"
    /\ known' = known \ old /\ main' = WithoutOld
    /\ diskTip' = blk /\ tip' = blk
    /\ reorgs' = Append(reorgs, Depth(fork))
    /\ batch' = {} /\ queue' = <<blk>> /\ pruneAfter' = (pruneAfter \/ direct)
    /\ pc' = "block" /\ NoReorg
    /\ UNCHANGED <<utxo, orphans, index, undo, coins, bestBlock, direct, failures>>

-----------------------------------------------------------------------------
(* A database write fails.                                                 *)
WriteFails == pc \in FaultAt /\ failures < MaxFailures /\ failures' = failures + 1

(* While a block is stored an error leaves nothing behind: the in-memory   *)
(* connect is undone and the block is dropped.  A heavier pool child whose *)
(* record is not written is dropped because reorg cannot load it.          *)
StoreFails(b) ==
    /\ WriteFails /\ Candidate(b)
    /\ batch' = batch \ {b}
    /\ UNCHANGED <<memory, disk, pc, direct, queue, pruneAfter, locals>>

(* processOrphans ignores the error of PutBlockIndex on a side chain.      *)
SideIndexLost(b) ==
    /\ WriteFails /\ Candidate(b) /\ ~direct
    /\ Parent[b] # tip /\ ChainWork[b] <= ChainWork[tip]
    /\ known' = known \cup {b}
    /\ batch' = batch \ {b} /\ queue' = Append(queue, b)
    /\ UNCHANGED <<tip, main, utxo, orphans, reorgs, disk, pc, direct, pruneAfter, locals>>

(* Nor does it look at the error on a heavier block: reorg goes on with    *)
(* the record that the block has from an earlier time.                     *)
ReorgIndexLost(b) ==
    /\ WriteFails /\ Candidate(b) /\ ~direct /\ index[b] # "absent"
    /\ Parent[b] # tip /\ ChainWork[b] > ChainWork[tip]
    /\ known' = known \cup {b} /\ blk' = b /\ pc' = "fork"
    /\ UNCHANGED <<tip, main, utxo, orphans, reorgs, disk, work, fork, at, trial, liveUndo, old>>

ExtendFails_NoRollback ==
    /\ WriteFails /\ pc \in {"extendUtxo", "extendTip"}
    /\ batch' = batch \ {blk} /\ pc' = "block" /\ NoReorg
    /\ UNCHANGED <<tip, known, main, utxo, orphans, reorgs, disk, direct, queue, pruneAfter>>

(* A chainstate error is rolled back in memory; an error of PutChainTip in *)
(* extendChain is not.                                                     *)
ExtendFails ==
    /\ WriteFails /\ pc \in {"extendUtxo", "extendTip"}
    /\ utxo' = IF pc = "extendUtxo" THEN Disconnect(utxo, blk, undo[blk]) ELSE utxo
    /\ batch' = batch \ {blk} /\ pc' = "block" /\ NoReorg
    /\ UNCHANGED <<tip, known, main, orphans, reorgs, disk, direct, queue, pruneAfter>>

(* An error in phase 2 abandons the commit where it is.                    *)
CommitFails ==
    /\ WriteFails /\ pc \in CommitSteps
    /\ utxo' = CASE pc = "disconnect" -> Disconnect(utxo, main[at], undo[main[at]])
                 [] pc = "connect"    -> Connect(utxo, AncestorAt[blk][at + 1])
                 [] OTHER             -> utxo
    /\ main' = IF pc = "reorgTip" THEN WithoutOld ELSE main
    /\ AbortReorg(IF pc = "reorgTip" THEN known \ old ELSE known)
    /\ UNCHANGED <<coins, bestBlock>>

-----------------------------------------------------------------------------
(* The steps of a method in progress; c.mu is held.                        *)
Step ==
    \/ InitGenesis \/ GenesisTip \/ GenesisUtxo \/ Restart
    \/ NextParent \/ Return
    \/ \E b \in Block : RejectBlock(b) \/ ExtendIndex(b) \/ SideChain(b) \/ ReorgIndex(b)
    \/ ExtendUtxo \/ ExtendTip
    \/ \E h \in Heights : ReorgTooDeep(h) \/ StartTrial(h)
    \/ TrialDisconnect \/ TrialConnect \/ TrialFails
    \/ DisconnectTip \/ ConnectNext \/ ConnectIndex \/ ReorgTip

(* Calls made by the peers, the miner, the RPC server and the timers.      *)
Call ==
    \/ \E b \in Block \ {Genesis} : ProcessBlock(b) \/ AddOrphan(b)
    \/ EvictExpiredOrphans \/ RescanUTXOSet

Fault ==
    \/ \E b \in Block : StoreFails(b) \/ SideIndexLost(b) \/ ReorgIndexLost(b)
    \/ ExtendFails \/ CommitFails

Next == Step \/ Call \/ Fault \/ Crash

Spec == Init /\ [][Next]_vars

(* A method that has begun runs on: it waits for nothing but the disk.     *)
(* Nothing starts the process.                                             *)
FairSpec == Spec /\ WF_vars(pc # "off" /\ Step)

-----------------------------------------------------------------------------
(* The values the variables take.                                          *)
CoreTypeOK ==
    /\ tip \in Block \cup {NoBlock} /\ known \subseteq Block
    /\ main \in [Heights -> Block \cup {NoBlock}] /\ utxo \in UtxoSets
    /\ reorgs \in Seq(Nat)
    /\ index \in [Block -> {"absent", "data", "undo"}] /\ undo \in [Block -> UtxoSets]
    /\ diskTip \in Block \cup {NoBlock} /\ bestBlock \in Block \cup {NoBlock}
    /\ coins \in UtxoSets /\ pc \in Steps
    /\ direct \in BOOLEAN /\ batch \subseteq Block /\ queue \in Seq(Block)
    /\ pruneAfter \in BOOLEAN /\ blk \in Block \cup {NoBlock} /\ fork \in Nat /\ at \in Nat
    /\ trial \in UtxoSets /\ liveUndo \in UtxoSets /\ old \subseteq Block /\ failures \in Nat

(* Types, and the pool: within its bound and without a duplicate, through  *)
(* every eviction and every child taken out.                               *)
TypeOK ==
    /\ CoreTypeOK
    /\ orphans \in Seq(Block) /\ Len(orphans) <= MaxOrphans /\ IsInjective(orphans)

(* Whenever c.mu is free, the in-memory UTXO set is the replay of the      *)
(* active chain: however many blocks were connected, disconnected, tried   *)
(* and abandoned on the way (ConnectBlock, DisconnectBlock, reorg).        *)
UtxoMatchesTip == pc = "idle" => utxo = UtxoAt[tip]

(* The chainstate database is always the replay of some chain, the one of  *)
(* its best-block key: each batch moves both (persistUtxoChanges: "a crash *)
(* at any point leaves the chainstate either fully at the old tip or fully *)
(* at the new tip").                                                       *)
ChainstateIsReplay == bestBlock # NoBlock => coins = UtxoAt[bestBlock]

(* Whenever c.mu is free, both databases name the active tip.              *)
DiskMatchesTip == pc = "idle" => diskTip = tip /\ bestBlock = tip

(* Whenever c.mu is free, hashByHeight lists exactly the chain of the tip, *)
(* with nothing left above it by a longer chain that lost, and             *)
(* heightByHash contains that chain.                                       *)
MapsDescribeTip == pc = "idle" => main = ByHeight(tip) /\ ChainOf(tip) \subseteq known

(* Every block of the active chain but genesis can be disconnected: its    *)
(* record has undo data, and that data is what its connection consumed.    *)
(* Without it every later reorg over the block fails.                      *)
CanDisconnect ==
    pc = "idle" => \A b \in ChainOf(tip) \ {Genesis} :
                      index[b] = "undo" /\ undo[b] = UndoOf(UtxoAt[Parent[b]], b)

(* The active chain is valid from genesis: no block of it is malformed and *)
(* each one's inputs were unspent on its own chain, also when it was first *)
(* stored unvalidated on a side chain.  In between, phase 2 of reorg never *)
(* meets a consensus failure: what the trial accepted on the clone is      *)
(* valid on the live set ("failures here are I/O errors, not consensus     *)
(* failures").                                                             *)
ActiveChainValid ==
    /\ pc = "idle" => ValidChain(tip)
    /\ pc = "connect" => TxInputsOk(AncestorAt[blk][at + 1], utxo)

(* With no depth limit and until the first failure, no block the node      *)
(* knows of is heavier than its tip: nothing that entered heightByHash is   *)
(* left behind unexamined.  (A write error in the extending branch returns  *)
(* with the block known and the tip unchanged.)                            *)
MostWork ==
    pc = "idle" /\ failures = 0 /\ MaxReorgDepth = 0 => \A b \in known : ChainWork[b] <= ChainWork[tip]

(* Up to the second failure, the block index has no record without its     *)
(* parent's, so the walk of reorg back from any record ends at genesis:    *)
(* the record that a failed reorg deletes has no descendants.  (Two failed *)
(* commits of one process leave the maps between three tips; a record can  *)
(* then be deleted whose child was stored in the meantime.)                *)
IndexHasNoHoles ==
    failures <= 1 =>
        \A b \in Block \ {Genesis} : index[b] # "absent" => index[Parent[b]] # "absent"

(* After a crash at any step, Init finds what it walks and replays.        *)
RestartSucceeds == pc = "off" /\ diskTip # NoBlock => Recoverable

(* After the first crash, at whatever step, also in the middle of a        *)
(* commit, the UTXO set Init settles on is the replay of the tip it        *)
(* settles on.                                                             *)
RecoveryReplays ==
    pc = "off" /\ diskTip # NoBlock /\ failures <= 1 => RecoveredUtxo = UtxoAt[RecoveredTip]

(* The recorded tip moves only to chains with more work.                   *)
TipWorkGrows ==
    [][diskTip' # diskTip /\ diskTip # NoBlock => ChainWork[diskTip'] > ChainWork[diskTip]]_vars

(* Blocks buried under MaxReorgDepth others stay on the recorded chain,    *)
(* whatever arrives and at whatever step the process dies or a write       *)
(* fails, up to the second failure.                                        *)
BuriedBlocksStay ==
    [][MaxReorgDepth > 0 /\ diskTip # NoBlock /\ failures' <= 1 =>
          \A h \in 0..(Height[diskTip] - MaxReorgDepth) :
             h <= Height[diskTip'] /\ AncestorAt[diskTip'][h] = AncestorAt[diskTip][h]]_vars

(* The depths of the reorganisations in one window never exceed the        *)
(* cumulative limit.                                                       *)
CumulativeDepthBounded == MaxReorgDepth > 0 => SumOf(reorgs) <= 3 * MaxReorgDepth

(* Every call returns: the queue of processOrphans runs dry.               *)
CallsReturn == (pc = "block") ~> (pc \in {"idle", "off"})

=============================================================================
