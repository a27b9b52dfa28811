------------------------------- MODULE ChainInv -------------------------------
(***************************************************************************)
(* The inductive invariant of Chain for a process that neither dies nor    *)
(* meets a write error while it commits a reorganisation.  Under that      *)
(* assumption every other crash and rolled-back write error is harmless.   *)
(***************************************************************************)
EXTENDS Chain

CommitsComplete ==
    /\ CrashAt \cap CommitSteps = {}
    /\ FaultAt \subseteq {"block", "extendUtxo"}

(* The step is not one that leaves a reorganisation half committed, or the *)
(* chainstate ahead of a tip that could not be recorded.                   *)
Harmless ==
    /\ Crash => pc \notin CommitSteps
    /\ ExtendFails => pc = "extendUtxo"
    /\ ~CommitFails

(* Where the UTXO set and the chainstate stand on the active chain.        *)
AtTip     == {"idle", "block"} \cup ReorgSteps
Extending == {"extendUtxo", "extendTip"}
Trial     == {"trialDisconnect", "trialConnect"}
Rising    == {"connect", "connectIndex", "reorgTip"}

(* Undo data is what connecting the block to its own chain consumed.       *)
UndoIsRight ==
    \A b \in Block \ {Genesis} :
        index[b] = "undo" => undo[b] = UndoOf(UtxoAt[Parent[b]], b)

(* The databases of a stopped process: the chainstate is at the recorded   *)
(* tip or one indexed block ahead of it, or still empty.                   *)
StoppedInv ==
    /\ tip = NoBlock /\ main = [h \in Heights |-> NoBlock]
    /\ bestBlock # NoBlock =>
          /\ diskTip # NoBlock
          /\ \/ bestBlock = diskTip
             \/ /\ bestBlock # Genesis /\ Parent[bestBlock] = diskTip
                /\ index[bestBlock] # "absent"

(* The recorded and the in-memory tip agree.                               *)
RunningInv ==
    /\ tip # NoBlock /\ diskTip = tip
    /\ pc # "genesisUtxo" => bestBlock # NoBlock
    /\ ChainOf(tip) \subseteq known
    /\ pc \notin Rising => main = ByHeight(tip)

ExtendingInv ==
    /\ blk # NoBlock /\ blk # Genesis /\ Parent[blk] = tip /\ index[blk] = "undo"
    /\ utxo = UtxoAt[blk]
    /\ bestBlock = IF pc = "extendUtxo" THEN tip ELSE blk

(* reorg has been called for a block with more work than the tip.          *)
HeavierInv == blk # NoBlock /\ blk # Genesis /\ ChainWork[blk] > ChainWork[tip]

(* The new branch leaves the active chain at height fork.                  *)
ForkInv ==
    /\ fork < Height[blk] /\ fork <= Height[tip]
    /\ AncestorAt[blk][fork] = AncestorAt[tip][fork]
    /\ \A h \in (fork + 1)..Height[blk] :
          h <= Height[tip] => AncestorAt[blk][h] # AncestorAt[tip][h]

(* The blocks of the active chain above height h have undo data.           *)
UndoableAbove(h) == \A k \in (h + 1)..Height[tip] : index[AncestorAt[tip][k]] = "undo"

TrialInv ==
    /\ pc = "trialDisconnect" => fork < at /\ at <= Height[tip] /\ UndoableAbove(at)
    /\ pc = "trialConnect" => fork <= at /\ at < Height[blk] /\ UndoableAbove(fork)

FallingInv ==
    /\ fork < at /\ at <= Height[tip] /\ UndoableAbove(fork)
    /\ bestBlock = AncestorAt[tip][at] /\ utxo = UtxoAt[AncestorAt[tip][at]]
    /\ old = {AncestorAt[tip][k] : k \in (at + 1)..Height[tip]}

(* The maps are those of the new branch up to height h.                    *)
MapsUpTo(h) ==
    /\ \A k \in (fork + 1)..h : AncestorAt[blk][k] \in known
    /\ main = [k \in Heights |->
                 IF k > fork /\ k <= h THEN AncestorAt[blk][k]
                 ELSE IF k <= Height[tip] THEN AncestorAt[tip][k] ELSE NoBlock]

RisingInv ==
    /\ fork <= at /\ at <= Height[blk] /\ UndoableAbove(fork)
    /\ bestBlock = AncestorAt[blk][at] /\ utxo = UtxoAt[AncestorAt[blk][at]]
    /\ old = {AncestorAt[tip][k] : k \in (fork + 1)..Height[tip]}
    /\ pc = "connect" => at < Height[blk] /\ MapsUpTo(at)
    /\ pc = "connectIndex" =>
          /\ fork < at /\ MapsUpTo(at - 1)
          /\ liveUndo = UndoOf(UtxoAt[AncestorAt[blk][at - 1]], AncestorAt[blk][at])
    /\ pc = "reorgTip" => at = Height[blk] /\ MapsUpTo(at)

IInv ==
    /\ CoreTypeOK
    /\ UndoIsRight
    /\ coins = IF bestBlock = NoBlock THEN NoCoins ELSE UtxoAt[bestBlock]
    /\ pc \in {"off", "genesisTip"} => StoppedInv
    /\ pc = "genesisTip" => diskTip = NoBlock
    /\ pc = "genesisUtxo" => tip = Genesis /\ bestBlock = NoBlock /\ utxo = UtxoAt[Genesis]
    /\ pc \notin {"off", "genesisTip"} => RunningInv
    /\ pc \in AtTip => bestBlock = tip /\ utxo = UtxoAt[tip]
    /\ pc \in Extending => ExtendingInv
    /\ pc \in ReorgSteps \cup CommitSteps => HeavierInv
    /\ pc \in Trial \cup CommitSteps => ForkInv
    /\ pc \in Trial => TrialInv
    /\ pc \notin CommitSteps => old = {}
    /\ pc = "disconnect" => FallingInv
    /\ pc \in Rising => RisingInv

-----------------------------------------------------------------------------
(* Until the first failure and without a depth limit: what is known is no  *)
(* heavier than the tip, but for the branch that reorg is working on; and  *)
(* a delivered block is not known before it is accepted.                   *)
Pending(b) ==
    \/ pc \in ReorgSteps /\ b = blk
    \/ pc \in CommitSteps /\ b \in ChainOf(blk)

HeaviestInv ==
    /\ pc \in {"off", "genesisTip"} => diskTip = NoBlock /\ batch = {}
    /\ pc \notin {"off", "genesisTip"} =>
          \A b \in known : ChainWork[b] <= ChainWork[tip] \/ Pending(b)
    /\ direct /\ pc \notin CommitSteps => batch \cap known = {}
    /\ direct /\ pc \in ReorgSteps => blk \notin known

(* The first failure: until then the invariants hold whatever may fail,    *)
(* and a crash at any step leaves a chainstate of one chain.               *)
FirstFailureInv ==
    /\ failures \in Nat
    /\ failures = 0 => IInv /\ (MaxReorgDepth = 0 => HeaviestInv)
    /\ failures = 1 /\ pc = "off" => ChainstateIsReplay

-----------------------------------------------------------------------------
(* Validity.  A record is only put for a well-formed block on a well-formed *)
(* chain; what the trial has connected to the clone is valid.              *)
WellFormed(b) == ChainOf(b) \cap Malformed = {}

ValidInv ==
    /\ \A b \in Block : index[b] # "absent" => WellFormed(b)
    /\ diskTip # NoBlock => ValidChain(diskTip)
    /\ bestBlock # NoBlock /\ pc \notin CommitSteps => ValidChain(bestBlock)
    /\ pc \in Extending \cup CommitSteps => ValidChain(blk)
    /\ pc \in ReorgSteps => WellFormed(blk)
    /\ pc = "trialDisconnect" => trial = UtxoAt[AncestorAt[tip][at]]
    /\ pc = "trialConnect" =>
          trial = UtxoAt[AncestorAt[blk][at]] /\ ValidChain(AncestorAt[blk][at])
    /\ pc \in Trial \cup CommitSteps /\ MaxReorgDepth > 0 => Height[tip] - fork <= MaxReorgDepth

-----------------------------------------------------------------------------
(* The work list of a call.  The blocks to be examined are children of one *)
(* parent that has left the queue, and neither they nor the children of    *)
(* any queued parent are on the active chain.                              *)
WorkInv ==
    /\ pc \in {"off", "genesisTip", "genesisUtxo", "idle"} => batch = {} /\ queue = <<>>
    /\ pc \in Extending \cup ReorgSteps \cup CommitSteps => blk \in batch
    /\ \A x, y \in batch : Parent[x] = Parent[y]
    /\ \A x \in batch : x \notin Range(queue) /\ Parent[x] \notin Range(queue)
    /\ IsInjective(queue)
    /\ Range(orphans) \cap (batch \cup Range(queue)) = {}
    /\ tip # NoBlock => /\ batch \cap ChainOf(tip) = {}
                        /\ \A x \in ChainOf(tip) \ {Genesis} : Parent[x] \notin Range(queue)

(* The chain of b is on disk, with the undo data of every block.           *)
Recorded(b) ==
    index[Genesis] # "absent" /\ \A x \in ChainOf(b) \ {Genesis} : index[x] = "undo"

RecordInv ==
    /\ pc = "genesisTip" => index[Genesis] # "absent"
    /\ diskTip # NoBlock => Recorded(diskTip)
    /\ bestBlock # NoBlock /\ pc \notin CommitSteps => Recorded(bestBlock)
    /\ pc \in {"connect", "reorgTip"} => Recorded(AncestorAt[blk][at])
    /\ pc = "connectIndex" => Recorded(AncestorAt[blk][at - 1])

(* The whole invariant.                                                    *)
SafeInv == IInv /\ ValidInv /\ WorkInv /\ RecordInv

=============================================================================
