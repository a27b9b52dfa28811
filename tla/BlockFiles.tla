----------------------------- MODULE BlockFiles -----------------------------
(***************************************************************************)
(* The flat files of the block store (internal/store/blockfile.go):        *)
(* blk files with the blocks and rev files with their undo data.  A file   *)
(* is a sequence of units of which the first synced[f] are on the disk;    *)
(* the rest is in the page cache and a power loss may take any suffix of   *)
(* it.  A block takes Size[b] units, undo data takes one.                  *)
(*                                                                         *)
(* Directory entries survive, and truncating after a failed write works:   *)
(* WriteBlock ignores the error of Truncate.                               *)
(*                                                                         *)
(* A definition X_... is a faulty variant of X; none is used by Next.      *)
(***************************************************************************)
EXTENDS Integers, Sequences

CONSTANTS
    Block,              \* the blocks, by height, without the genesis block
    Size,               \* Size[b]: 8 bytes of framing and the block
    MaxBlockFileSize,   \* maxBlockFileSize (128 MiB)
    MaxFile             \* bound on the number of files

VARIABLES
    blk, blkSynced,     \* blk[f]: the units of blk file f
    rev, revSynced,
    curFile, curSize    \* of BlockFileManager

files == <<blk, blkSynced, rev, revSynced, curFile, curSize>>

File == 0..MaxFile

ASSUME FilesAssumption ==
    /\ Size \in [Block -> Nat \ {0}] /\ MaxBlockFileSize \in Nat \ {0} /\ MaxFile \in Nat

Frame(b) == [i \in 1..Size[b] |-> <<b, i>>]

Rotated(b) == curSize > 0 /\ curSize + Size[b] > MaxBlockFileSize

(* The position a block gets: a new file when it would grow too large.     *)
TargetFile(b) == IF Rotated(b) THEN curFile + 1 ELSE curFile

TargetPos(b) == IF Rotated(b) THEN 0 ELSE curSize

WriteBlock_Unsynced(b, sync) ==
    LET f == TargetFile(b)
    IN  /\ f \in File
        /\ blk' = [blk EXCEPT ![f] = @ \o Frame(b)]
        /\ curFile' = f /\ curSize' = TargetPos(b) + Size[b]
        /\ UNCHANGED <<blkSynced, rev, revSynced>>

(* WriteBlock and WriteBlockNoSync: the record goes to the end of the      *)
(* file, and the position returned is curSize.                             *)
WriteBlock(b, sync) ==
    LET f == TargetFile(b)
    IN  /\ f \in File
        /\ blk' = [blk EXCEPT ![f] = @ \o Frame(b)]
        /\ blkSynced' = IF sync THEN [blkSynced EXCEPT ![f] = Len(blk'[f])] ELSE blkSynced
        /\ curFile' = f /\ curSize' = TargetPos(b) + Size[b]
        /\ UNCHANGED <<rev, revSynced>>

(* A short write is cut off again, and synced in the synced variant; a     *)
(* rotation stays.                                                         *)
WriteBlockFails(b, sync) ==
    LET f == TargetFile(b)
    IN  /\ f \in File
        /\ blkSynced' = IF sync THEN [blkSynced EXCEPT ![f] = Len(blk[f])] ELSE blkSynced
        /\ curFile' = f /\ curSize' = TargetPos(b)
        /\ UNCHANGED <<blk, rev, revSynced>>

(* WriteUndo and WriteUndoNoSync, to the rev file of the block's blk file. *)
WriteUndo(b, f, sync) ==
    /\ rev' = [rev EXCEPT ![f] = Append(@, b)]
    /\ revSynced' = IF sync THEN [revSynced EXCEPT ![f] = Len(rev'[f])] ELSE revSynced
    /\ UNCHANGED <<blk, blkSynced, curFile, curSize>>

WriteUndoFails(f, sync) ==
    /\ revSynced' = IF sync THEN [revSynced EXCEPT ![f] = Len(rev[f])] ELSE revSynced
    /\ UNCHANGED <<blk, blkSynced, rev, curFile, curSize>>

(* SyncAll: the current blk file and the current rev file, no others.      *)
SyncAll ==
    /\ blkSynced' = [blkSynced EXCEPT ![curFile] = Len(blk[curFile])]
    /\ revSynced' = [revSynced EXCEPT ![curFile] = Len(rev[curFile])]
    /\ UNCHANGED <<blk, rev, curFile, curSize>>

(* ReadBlock at a position returns b: framing, size and hash all match.    *)
ReadBlock(b, f, pos) ==
    /\ pos + Size[b] <= Len(blk[f])
    /\ SubSeq(blk[f], pos + 1, pos + Size[b]) = Frame(b)

(* ReadUndo at a position returns the undo data of b.  Its checksum covers *)
(* the data and not the block they belong to.                              *)
ReadUndo(b, f, pos) == pos < Len(rev[f]) /\ rev[f][pos + 1] = b

-----------------------------------------------------------------------------
(* After a power loss a suffix of file f that was not synced is gone.      *)
TailLost(f) ==
    \E n \in blkSynced[f]..Len(blk[f]), m \in revSynced[f]..Len(rev[f]) :
        /\ n + m < Len(blk[f]) + Len(rev[f])
        /\ blk' = [blk EXCEPT ![f] = SubSeq(@, 1, n)]
        /\ rev' = [rev EXCEPT ![f] = SubSeq(@, 1, m)]
        /\ UNCHANGED <<blkSynced, revSynced, curFile, curSize>>

NewBlockFileManager_AtZero ==
    /\ curSize' = 0
    /\ blkSynced' = [f \in File |-> Len(blk[f])] /\ revSynced' = [f \in File |-> Len(rev[f])]
    /\ UNCHANGED <<blk, rev, curFile>>

(* NewBlockFileManager: append to the highest file that exists, at its     *)
(* end.  What a power loss has left is on the disk.                        *)
NewBlockFileManager ==
    /\ curSize' = Len(blk[curFile])
    /\ blkSynced' = [f \in File |-> Len(blk[f])] /\ revSynced' = [f \in File |-> Len(rev[f])]
    /\ UNCHANGED <<blk, rev, curFile>>

=============================================================================
