-------------------------------- MODULE Store --------------------------------
(***************************************************************************)
(* Durability: the writes of ProcessBlock for a chain that only grows, in  *)
(* IBD mode (unsynced, with a checkpoint every FlushInterval blocks) and   *)
(* out of it, against power losses.  Chain takes every write as durable;   *)
(* this module asks which ones are.                                        *)
(*                                                                         *)
(* A LevelDB is a sequence of versions: the first is on the disk, the last *)
(* is what a reader sees, and those in between are in a log that a power   *)
(* loss may cut anywhere.  A synced write makes all of them durable.  A    *)
(* block index version is the records and the chain tip, a chainstate      *)
(* version is its best block, with whose batch the coins are written.      *)
(*                                                                         *)
(* A definition X_... is a faulty variant of X; none is used by Next.      *)
(***************************************************************************)
EXTENDS BlockFiles

CONSTANTS
    FlushInterval,      \* ibdFlushInterval (500)
    MaxLosses,          \* bound on the number of power losses
    MaxErrors           \* bound on the number of failed writes

VARIABLES
    index, chainstate,  \* the versions of the two databases
    tip,                \* tipHeight; the chain is 0..tip
    ibdMode, sinceSync, \* ibdBlocksSinceSync
    pc,                 \* the next write of the running call
    rec,                \* the record it has filled so far
    losses, errors,
    session,            \* the blocks stored since the start
    synced,             \* the blocks accepted with synced writes
    flushed             \* the tip at the last checkpoint

databases == <<index, chainstate>>
ghosts    == <<session, synced, flushed>>
vars == <<files, databases, tip, ibdMode, sinceSync, pc, rec, losses, errors, ghosts>>

NoRec == [file |-> -1, pos |-> -1, undo |-> -1]

ASSUME StoreAssumption ==
    /\ Size \in Seq(Nat \ {0}) /\ Block = 1..Len(Size) /\ FlushInterval \in Nat \ {0}
    /\ MaxLosses \in Nat /\ MaxErrors \in Nat

Latest(db) == db[Len(db)]

Put(db, version, sync) == IF sync THEN <<version>> ELSE Append(db, version)

Known(b) == b = 0 \/ Latest(index).recs[b] # NoRec

WithRecord(b, r) == [Latest(index) EXCEPT !.recs[b] = r]
WithTip(b) == [Latest(index) EXCEPT !.tip = b]

(* GetBlock and readUndo through a record.                                 *)
Readable(b, r) == r # NoRec /\ ReadBlock(b, r.file, r.pos)
Undoable(b, r) == r # NoRec /\ r.undo # -1 /\ ReadUndo(b, r.file, r.undo)

(* A data directory in which initGenesis has run; the genesis block is     *)
(* left out of the files.                                                  *)
Init ==
    /\ blk = [f \in File |-> <<>>] /\ blkSynced = [f \in File |-> 0]
    /\ rev = [f \in File |-> <<>>] /\ revSynced = [f \in File |-> 0]
    /\ curFile = 0 /\ curSize = 0
    /\ index = <<[recs |-> [b \in Block |-> NoRec], tip |-> 0]>> /\ chainstate = <<0>>
    /\ tip = 0 /\ ibdMode = FALSE /\ sinceSync = 0
    /\ pc = "idle" /\ rec = NoRec /\ losses = 0 /\ errors = 0
    /\ session = {} /\ synced = {} /\ flushed = 0

-----------------------------------------------------------------------------
(* SetIBDMode(true).                                                       *)
EnterIBD ==
    /\ pc = "idle" /\ ~ibdMode /\ ibdMode' = TRUE
    /\ UNCHANGED <<files, databases, tip, sinceSync, pc, rec, losses, errors, ghosts>>

(* SetIBDMode(false): a checkpoint first.                                  *)
LeaveIBD ==
    /\ pc = "idle" /\ ibdMode /\ ibdMode' = FALSE /\ pc' = "syncFiles"
    /\ UNCHANGED <<files, databases, tip, sinceSync, rec, losses, errors, ghosts>>

(* ProcessBlock on the child of the tip, once validated: the block goes to *)
(* the blk file.  A block with a record is a duplicate.                    *)
StoreBlock ==
    /\ pc = "idle" /\ tip + 1 \in Block /\ ~Known(tip + 1)
    /\ WriteBlock(tip + 1, ~ibdMode)
    /\ rec' = [file |-> TargetFile(tip + 1), pos |-> TargetPos(tip + 1), undo |-> -1]
    /\ pc' = "undo"
    /\ UNCHANGED <<databases, tip, ibdMode, sinceSync, losses, errors, ghosts>>

StoreUndo ==
    /\ pc = "undo"
    /\ WriteUndo(tip + 1, rec.file, ~ibdMode)
    /\ rec' = [rec EXCEPT !.undo = Len(rev[rec.file])]
    /\ pc' = "index"
    /\ UNCHANGED <<databases, tip, ibdMode, sinceSync, losses, errors, ghosts>>

(* PutBlockIndex or PutBlockIndexBatch.                                    *)
StoreIndex ==
    /\ pc = "index"
    /\ index' = Put(index, WithRecord(tip + 1, rec), ~ibdMode)
    /\ session' = session \cup {tip + 1}
    /\ pc' = "utxo"
    /\ UNCHANGED <<files, chainstate, tip, ibdMode, sinceSync, rec, losses, errors, synced,
                   flushed>>

(* persistUtxoChanges or persistUtxoChangesNoSync.                         *)
StoreUtxo ==
    /\ pc = "utxo"
    /\ chainstate' = Put(chainstate, tip + 1, ~ibdMode)
    /\ pc' = "tip"
    /\ UNCHANGED <<files, index, tip, ibdMode, sinceSync, rec, losses, errors, ghosts>>

(* extendChain, or extendChainNoSync and a checkpoint when one is due.     *)
StoreTip ==
    /\ pc = "tip"
    /\ index' = Put(index, WithTip(tip + 1), ~ibdMode)
    /\ tip' = tip + 1 /\ rec' = NoRec
    /\ sinceSync' = IF ibdMode THEN sinceSync + 1 ELSE sinceSync
    /\ synced' = IF ibdMode THEN synced ELSE synced \cup {tip + 1}
    /\ pc' = IF ibdMode /\ sinceSync + 1 >= FlushInterval THEN "syncFiles" ELSE "idle"
    /\ UNCHANGED <<files, chainstate, ibdMode, losses, errors, session, flushed>>

(* ibdSyncFlush, one database or set of files after the other.             *)
FlushFiles ==
    /\ pc = "syncFiles" /\ SyncAll /\ pc' = "syncIndex"
    /\ UNCHANGED <<databases, tip, ibdMode, sinceSync, rec, losses, errors, ghosts>>

FlushIndex_NoOp ==
    /\ pc = "syncIndex" /\ pc' = "syncUtxo"
    /\ UNCHANGED <<files, databases, tip, ibdMode, sinceSync, rec, losses, errors, ghosts>>

(* FlushIndex: CompactRange writes the log's contents to synced tables.    *)
FlushIndex ==
    /\ pc = "syncIndex" /\ index' = <<Latest(index)>> /\ pc' = "syncUtxo"
    /\ UNCHANGED <<files, chainstate, tip, ibdMode, sinceSync, rec, losses, errors, ghosts>>

FlushUtxo ==
    /\ pc = "syncUtxo"
    /\ chainstate' = Put(chainstate, tip, TRUE)
    /\ sinceSync' = 0 /\ flushed' = tip /\ pc' = "idle"
    /\ UNCHANGED <<files, index, tip, ibdMode, rec, losses, errors, session, synced>>

(* A write to the flat files fails and the call returns: nothing points to *)
(* what it has written.                                                    *)
WriteFails ==
    /\ errors < MaxErrors /\ errors' = errors + 1
    /\ \/ /\ pc = "idle" /\ tip + 1 \in Block /\ ~Known(tip + 1)
          /\ WriteBlockFails(tip + 1, ~ibdMode)
       \/ pc = "undo" /\ WriteUndoFails(rec.file, ~ibdMode)
    /\ pc' = "idle" /\ rec' = NoRec
    /\ UNCHANGED <<databases, tip, ibdMode, sinceSync, losses, ghosts>>

-----------------------------------------------------------------------------
(* A record may outlive its place in the chain: the power fails after      *)
(* PutBlockIndex and before PutChainTip.  The block is then a duplicate    *)
(* for ever, and its child comes by way of reorg, always synced.           *)
ReorgStore ==
    /\ pc = "idle" /\ tip + 2 \in Block /\ Known(tip + 1) /\ ~Known(tip + 2)
    /\ WriteBlock(tip + 2, TRUE)
    /\ index' = Put(index, WithRecord(tip + 2, [file |-> TargetFile(tip + 2),
                                                pos |-> TargetPos(tip + 2), undo |-> -1]), TRUE)
    /\ session' = session \cup {tip + 2}
    /\ pc' = "trial"
    /\ UNCHANGED <<chainstate, tip, ibdMode, sinceSync, rec, losses, errors, synced, flushed>>

(* Phase 1 loads the blocks of the branch; a block that cannot be read     *)
(* ends it, and the new record goes.                                       *)
ReorgTrial ==
    /\ pc = "trial"
    /\ IF \A b \in {tip + 1, tip + 2} : Readable(b, Latest(index).recs[b])
       THEN pc' = "connect" /\ UNCHANGED index
       ELSE pc' = "idle" /\ index' = Put(index, WithRecord(tip + 2, NoRec), TRUE)
    /\ UNCHANGED <<files, chainstate, tip, ibdMode, sinceSync, rec, losses, errors, ghosts>>

(* Phase 2: batch, undo data and record of the next block, in one step;    *)
(* Chain takes the power away between them.                                *)
ReorgConnect ==
    LET b == Latest(chainstate) + 1
        r == Latest(index).recs[b]
    IN  /\ pc = "connect" /\ b <= tip + 2
        /\ chainstate' = Put(chainstate, b, TRUE)
        /\ WriteUndo(b, r.file, TRUE)
        /\ index' = Put(index, WithRecord(b, [r EXCEPT !.undo = Len(rev[r.file])]), TRUE)
        /\ UNCHANGED <<tip, ibdMode, sinceSync, pc, rec, losses, errors, ghosts>>

ReorgTip ==
    /\ pc = "connect" /\ Latest(chainstate) = tip + 2
    /\ index' = Put(index, WithTip(tip + 2), TRUE)
    /\ tip' = tip + 2 /\ synced' = synced \cup {tip + 2} /\ pc' = "idle"
    /\ UNCHANGED <<files, chainstate, ibdMode, sinceSync, rec, losses, errors, session, flushed>>

-----------------------------------------------------------------------------
(* The power fails; each log is cut somewhere, and TailLost cuts the       *)
(* files.                                                                  *)
PowerLoss ==
    /\ pc # "off" /\ losses < MaxLosses /\ losses' = losses + 1
    /\ \E i \in DOMAIN index : index' = <<index[i]>>
    /\ \E i \in DOMAIN chainstate : chainstate' = <<chainstate[i]>>
    /\ pc' = "off" /\ tip' = 0 /\ ibdMode' = FALSE /\ sinceSync' = 0 /\ rec' = NoRec
    /\ session' = {}
    /\ UNCHANGED <<files, errors, synced, flushed>>

LoseTail ==
    /\ pc = "off" /\ \E f \in File : TailLost(f)
    /\ UNCHANGED <<databases, tip, ibdMode, sinceSync, pc, rec, losses, errors, ghosts>>

(* The tip Chain.Init settles on: the best block of the chainstate when it *)
(* has a record and is higher than the recorded tip.                       *)
RecoveredTip ==
    LET best == Latest(chainstate)
    IN  IF Known(best) /\ best > Latest(index).tip THEN best ELSE Latest(index).tip

(* It replays the blocks unless the chainstate is at that tip, and fails   *)
(* when one cannot be read.                                                *)
Recoverable ==
    \/ Latest(chainstate) = RecoveredTip
    \/ \A b \in 1..RecoveredTip : Readable(b, Latest(index).recs[b])

Start ==
    /\ pc = "off" /\ Recoverable
    /\ NewBlockFileManager
    /\ index' = <<WithTip(RecoveredTip)>> /\ chainstate' = <<RecoveredTip>>
    /\ tip' = RecoveredTip /\ pc' = "idle"
    /\ UNCHANGED <<ibdMode, sinceSync, rec, losses, errors, ghosts>>

Next ==
    \/ EnterIBD \/ LeaveIBD
    \/ StoreBlock \/ StoreUndo \/ StoreIndex \/ StoreUtxo \/ StoreTip
    \/ FlushFiles \/ FlushIndex \/ FlushUtxo \/ WriteFails
    \/ ReorgStore \/ ReorgTrial \/ ReorgConnect \/ ReorgTip
    \/ PowerLoss \/ LoseTail \/ Start

Spec == Init /\ [][Next]_vars

-----------------------------------------------------------------------------
OnDisk == index[1]

(* What a start after a power loss would find: the record, the block and   *)
(* its undo data are all on the disk.                                      *)
Durable(b) ==
    LET r == OnDisk.recs[b]
    IN  /\ Readable(b, r) /\ r.pos + Size[b] <= blkSynced[r.file]
        /\ Undoable(b, r) /\ r.undo < revSynced[r.file]

(* A block that ProcessBlock accepted outside IBD mode survives every      *)
(* later power loss, whatever unsynced writes came before or after it: its *)
(* record, its bytes, its undo data and the tip (WriteBlock, WriteUndo,    *)
(* PutBlockIndex, persistUtxoChanges, extendChain).                        *)
AcceptedIsDurable ==
    \A b \in synced : Durable(b) /\ (b <= OnDisk.tip \/ b <= chainstate[1])

(* A checkpoint of IBD mode (ibdSyncFlush) holds: neither database ever    *)
(* falls back below the tip it was taken at, and every block up to it      *)
(* keeps its record.                                                       *)
CheckpointKept ==
    /\ OnDisk.tip >= flushed /\ chainstate[1] >= flushed
    /\ \A b \in 1..flushed : OnDisk.recs[b] # NoRec

(* What has been stored since the start can be read back at the position   *)
(* its record gives, through rotations, failed writes and the torn tails   *)
(* an earlier power loss left behind.                                      *)
StoredIsReadable ==
    \A b \in session :
        LET r == Latest(index).recs[b]
        IN  r # NoRec => /\ Readable(b, r)
                         /\ r.undo # -1 => Undoable(b, r)

=============================================================================
