---------------------------- MODULE LedgerProofs -----------------------------
(***************************************************************************)
(* Chain implements Ledger, for every block tree: with commits that run to *)
(* their end, the databases go through the states of one ledger, whose     *)
(* chains are valid and leave each other within the depth limit.           *)
(*                                                                         *)
(* Then the orphan pool and the work list of a call, and what they         *)
(* protect: the records of the active chain keep their undo data, so it    *)
(* can always be disconnected, and a stopped node can always be started    *)
(* again.                                                                  *)
(***************************************************************************)
EXTENDS ChainLedger, ChainProofs, FiniteSetTheorems

(* First-order steps; a leaf that needs arithmetic or functions cites SMT. *)
USE Zenon

-----------------------------------------------------------------------------
(* Valid chains.                                                           *)

(* The genesis block is valid.                                             *)
LEMMA GenesisValid == ValidChain(Genesis) /\ WellFormed(Genesis)
<1>1. ChainOf(Genesis) \subseteq {Genesis}
  <2>1. Height[Genesis] = 0 /\ AncestorAt[Genesis][0] = Genesis
    BY TreeFacts
  <2> QED BY SMT, <2>1 DEF ChainOf
<1> QED BY <1>1, ValidityAssumption DEF ValidChain, WellFormed

(* An ancestor's chain is part of the chain.                               *)
LEMMA ChainPrefix ==
    ASSUME NEW b \in Block, NEW h \in 0..Height[b]
    PROVE  ChainOf(AncestorAt[b][h]) \subseteq ChainOf(b)
<1>1. Height[AncestorAt[b][h]] = h /\ \A k \in 0..h : AncestorAt[AncestorAt[b][h]][k] = AncestorAt[b][k]
  BY AncestorFacts, PrefixFacts
<1>2. \A k \in 0..h : k \in 0..Height[b]
  BY SMT, OwnHeight
<1> QED BY <1>1, <1>2 DEF ChainOf

(* An ancestor of a valid block is valid.                                  *)
LEMMA ValidPrefix ==
    ASSUME NEW b \in Block, NEW h \in 0..Height[b]
    PROVE  /\ ValidChain(b) => ValidChain(AncestorAt[b][h])
           /\ WellFormed(b) => WellFormed(AncestorAt[b][h])
<1>1. ChainOf(AncestorAt[b][h]) \subseteq ChainOf(b)
  BY ChainPrefix
<1> QED BY <1>1 DEF ValidChain, WellFormed

(* A well-formed block that spends what its parent's chain left unspent    *)
(* extends a valid chain to a valid one.                                   *)
LEMMA ValidChild ==
    ASSUME NEW b \in Block \ {Genesis}, b \notin Malformed
    PROVE  /\ WellFormed(Parent[b]) => WellFormed(b)
           /\ ValidChain(Parent[b]) /\ TxInputsOk(b, UtxoAt[Parent[b]]) => ValidChain(b)
<1>1. ChainOf(b) = ChainOf(Parent[b]) \cup {b}
  BY ChildChain
<1> QED BY <1>1 DEF ValidChain, WellFormed

-----------------------------------------------------------------------------
(* The invariant of validity.                                              *)

(* Between two steps of processBlock, and while the lock is free, it says  *)
(* that records are well-formed and the active chain is valid.             *)
LEMMA ValidSettled ==
    ASSUME IInv', pc' \in {"idle", "block"}, ValidChain(tip'),
           \A b \in Block : index'[b] # "absent" => WellFormed(b)
    PROVE  ValidInv'
<1>1. pc' \in AtTip /\ pc' \notin {"off", "genesisTip"}
  BY DEF AtTip
<1>2. diskTip' = tip' /\ bestBlock' = tip'
  BY <1>1 DEF IInv, RunningInv
<1> QED BY <1>2 DEF ValidInv, Extending, Trial, ReorgSteps, CommitSteps, ValidChain, WellFormed

(* While the UTXO set is at the tip, the tip's chain is valid.             *)
LEMMA ValidTip ==
    ASSUME IInv, ValidInv, pc \notin {"off", "genesisTip"}
    PROVE  /\ tip \in Block /\ ValidChain(tip)
           /\ \A b \in Block : index[b] # "absent" => WellFormed(b)
<1>1. tip # NoBlock /\ diskTip = tip /\ CoreTypeOK
  BY DEF IInv, RunningInv
<1> QED BY <1>1 DEF ValidInv, CoreTypeOK

(* A candidate's chain is well-formed.                                     *)
LEMMA CandidateWellFormed ==
    ASSUME IInv, ValidInv, NEW b \in Block, Candidate(b)
    PROVE  b # Genesis /\ WellFormed(b)
<1>1. Parent[b] \in Block /\ index[Parent[b]] # "absent" /\ b \notin Malformed
  BY DEF Candidate, ParentKnown, IInv, CoreTypeOK
<1>2. b # Genesis
  BY <1>1, TreeFacts
<1>3. WellFormed(Parent[b])
  BY <1>1 DEF ValidInv
<1> QED BY <1>1, <1>2, <1>3, ValidChild

(* A valid chain is well-formed.                                           *)
LEMMA ValidIsWellFormed ==
    ASSUME NEW b, ValidChain(b)
    PROVE  WellFormed(b)
  BY ValidityAssumption DEF ValidChain, WellFormed

(* The steps that leave the active chain alone: no record is put but that  *)
(* of a candidate.                                                         *)
LEMMA ValidQuiet ==
    ASSUME IInv, IInv', ValidInv, pc \notin {"off", "genesisTip"}, pc' \in {"idle", "block"},
           tip' = tip, \A b \in Block : index'[b] # "absent" => index[b] # "absent" \/ Candidate(b)
    PROVE  ValidInv'
<1>1. \A b \in Block : index'[b] # "absent" => WellFormed(b)
  BY ValidTip, CandidateWellFormed
<1>2. ValidChain(tip')
  BY ValidTip
<1> QED BY <1>1, <1>2, ValidSettled

(* Start-up, and the end of the process.                                   *)
LEMMA ValidStartStop ==
    ASSUME IInv, IInv', Harmless, ValidInv,
           InitGenesis \/ GenesisTip \/ GenesisUtxo \/ Restart \/ Crash
    PROVE  ValidInv'
<1> CoreTypeOK
  BY DEF IInv
<1>1. CASE InitGenesis
  <2>1. pc = "off" /\ diskTip = NoBlock /\ pc' = "genesisTip" /\ UNCHANGED <<diskTip, bestBlock>>
    BY <1>1 DEF InitGenesis
  <2>2. bestBlock = NoBlock
    BY <2>1 DEF IInv, StoppedInv
  <2>3. \A b \in Block : index'[b] # "absent" => WellFormed(b)
    BY <1>1, GenesisValid DEF InitGenesis, PutBlockIndex, CoreTypeOK, ValidInv
  <2> QED BY <2>1, <2>2, <2>3 DEF ValidInv, Extending, Trial, ReorgSteps, CommitSteps
<1>2. CASE GenesisTip
  <2>1. pc = "genesisTip" /\ pc' = "genesisUtxo" /\ diskTip' = Genesis /\ UNCHANGED <<index, bestBlock>>
    BY <1>2 DEF GenesisTip
  <2>2. bestBlock = NoBlock
    BY <2>1 DEF IInv, StoppedInv
  <2> QED BY <2>1, <2>2, GenesisValid DEF ValidInv, Extending, Trial, ReorgSteps, CommitSteps
<1>3. CASE GenesisUtxo
  BY <1>3, ValidQuiet DEF GenesisUtxo, memory
<1>4. CASE Restart
  <2>1. ValidChain(RecoveredTip)
    BY <1>4 DEF Restart, RecoveredTip, ValidInv, CommitSteps
  <2>2. tip' = RecoveredTip /\ pc' = "idle" /\ index' = index
    BY <1>4 DEF Restart
  <2> QED BY <2>1, <2>2, ValidSettled DEF ValidInv
<1>5. CASE Crash
  <2>1. pc \notin CommitSteps /\ pc' = "off" /\ UNCHANGED <<index, diskTip, bestBlock>>
    BY <1>5 DEF Crash, Harmless, disk
  <2> QED BY <2>1 DEF ValidInv, Extending, Trial, ReorgSteps, CommitSteps
<1> QED BY <1>1, <1>2, <1>3, <1>4, <1>5

(* Storing, dropping, forgetting and connecting to the tip.                *)
LEMMA ValidExtend ==
    ASSUME IInv, IInv', ValidInv, NEW b \in Block,
           \/ ProcessBlock(b) \/ AddOrphan(b) \/ EvictExpiredOrphans \/ RescanUTXOSet
           \/ NextParent \/ Return \/ RejectBlock(b) \/ StoreFails(b) \/ SideChain(b)
           \/ SideIndexLost(b) \/ ExtendIndex(b) \/ ExtendUtxo \/ ExtendTip \/ ExtendFails
    PROVE  ValidInv'
<1> CoreTypeOK
  BY DEF IInv
<1>1. CASE \/ ProcessBlock(b) \/ AddOrphan(b) \/ EvictExpiredOrphans \/ RescanUTXOSet
           \/ NextParent \/ Return \/ RejectBlock(b) \/ StoreFails(b) \/ SideIndexLost(b)
           \/ ExtendFails
  <2>1. pc \notin {"off", "genesisTip"} /\ pc' \in {"idle", "block"} /\ tip' = tip /\ index' = index
    BY <1>1 DEF ProcessBlock, AddOrphan, EvictExpiredOrphans, RescanUTXOSet, NextParent, Return,
                RejectBlock, StoreFails, SideIndexLost, ExtendFails, Candidate, memory, disk
  <2> QED BY <2>1, ValidQuiet
<1>2. CASE SideChain(b)
  <2>1. pc = "block" /\ pc' = "block" /\ tip' = tip /\ Candidate(b)
    BY <1>2 DEF SideChain, Candidate
  <2>2. \A x \in Block : index'[x] # "absent" => index[x] # "absent" \/ Candidate(x)
    BY <1>2, <2>1 DEF SideChain, PutBlockIndex, CoreTypeOK
  <2> QED BY <2>1, <2>2, ValidQuiet
<1>3. CASE ExtendIndex(b)
  <2>1. /\ pc = "block" /\ Candidate(b) /\ Parent[b] = tip /\ TxInputsOk(b, utxo) /\ blk' = b
        /\ b \notin Malformed /\ pc' = "extendUtxo" /\ UNCHANGED <<diskTip, bestBlock>>
    BY <1>3 DEF ExtendIndex, Candidate
  <2>2. pc \in AtTip /\ pc \notin {"off", "genesisTip"}
    BY <2>1 DEF AtTip
  <2>3. utxo = UtxoAt[tip] /\ diskTip = tip /\ bestBlock = tip
    BY <2>2, TipFacts
  <2>4. b \in Block \ {Genesis} /\ WellFormed(b) /\ ValidChain(tip)
    BY <2>1, <2>2, CandidateWellFormed, ValidTip
  <2>5. ValidChain(b)
    BY <2>1, <2>3, <2>4, ValidChild
  <2>6. \A x \in Block : index'[x] # "absent" => WellFormed(x)
    BY <1>3, <2>4 DEF ExtendIndex, PutBlockIndex, CoreTypeOK, ValidInv
  <2> QED BY <2>1, <2>3, <2>4, <2>5, <2>6
          DEF ValidInv, Extending, Trial, ReorgSteps, CommitSteps
<1>4. CASE ExtendUtxo
  <2>1. /\ pc = "extendUtxo" /\ pc' = "extendTip" /\ UNCHANGED <<index, diskTip, blk>>
    BY <1>4 DEF ExtendUtxo, locals
  <2>2. ValidChain(blk) /\ bestBlock' = blk
    BY <1>4, <2>1 DEF ValidInv, Extending, ExtendUtxo, PersistConnect
  <2> QED BY <2>1, <2>2 DEF ValidInv, Extending, Trial, ReorgSteps, CommitSteps
<1>5. CASE ExtendTip
  <2>1. pc = "extendTip" /\ pc' = "block" /\ tip' = blk /\ index' = index
    BY <1>5 DEF ExtendTip
  <2>2. ValidChain(blk)
    BY <2>1 DEF ValidInv, Extending
  <2> QED BY <2>1, <2>2, ValidSettled DEF ValidInv
<1> QED BY <1>1, <1>2, <1>3, <1>4, <1>5

(* Phases 0 and 1 of reorg: what the clone holds and what it has proved    *)
(* valid.                                                                  *)
LEMMA ValidTrialStart ==
    ASSUME IInv, IInv', ValidInv,
           \/ \E b \in Block : ReorgIndex(b) \/ ReorgIndexLost(b)
           \/ \E h \in Heights : StartTrial(h)
    PROVE  ValidInv'
<1> CoreTypeOK
  BY DEF IInv
<1>1. ASSUME NEW b \in Block, ReorgIndex(b) \/ ReorgIndexLost(b)
      PROVE  ValidInv'
  <2>1. /\ pc = "block" /\ Candidate(b) /\ blk' = b /\ pc' = "fork" /\ UNCHANGED <<diskTip, bestBlock>>
    BY <1>1 DEF ReorgIndex, ReorgIndexLost, Candidate, disk
  <2>2. WellFormed(b)
    BY <2>1, CandidateWellFormed
  <2>3. \A x \in Block : index'[x] # "absent" => WellFormed(x)
    BY <1>1, <2>2 DEF ReorgIndex, ReorgIndexLost, PutBlockIndex, CoreTypeOK, ValidInv, disk
  <2> QED BY <2>1, <2>2, <2>3 DEF ValidInv, Extending, Trial, ReorgSteps, CommitSteps
<1>2. ASSUME NEW h \in Heights, StartTrial(h)
      PROVE  ValidInv'
  <2>1. pc \in AtTip /\ pc \in ReorgSteps \cup CommitSteps /\ pc \notin {"off", "genesisTip"} /\ pc = "fork"
    BY <1>2 DEF StartTrial, AtTip, ReorgSteps
  <2>2. utxo = UtxoAt[tip] /\ tip \in Block /\ Height[tip] \in Nat /\ ValidChain(tip) /\ WellFormed(blk)
    BY <2>1, TipFacts, ReorgTypes, ValidTip DEF ValidInv, ReorgSteps
  <2>3. /\ UNCHANGED <<tip, index, diskTip, bestBlock, blk>> /\ fork' = h /\ at' = TopOf(h)
        /\ trial' = UtxoAt[tip]
        /\ pc' = IF Height[tip] > h THEN "trialDisconnect" ELSE "trialConnect"
    BY <1>2, <2>2 DEF StartTrial, disk
  <2>4. pc' \in Trial \cup CommitSteps /\ pc' \in ReorgSteps /\ pc' \notin CommitSteps
        /\ pc' \notin Extending
    BY <2>3 DEF Trial, ReorgSteps, CommitSteps, Extending
  <2>5. h <= Height[tip] /\ AncestorAt[blk][h] = AncestorAt[tip][h] /\ h \in Nat
    <3>1. ForkInv'
      BY <2>4 DEF IInv
    <3> QED BY <2>3, <3>1, TreeFacts DEF ForkInv
  <2>6. AncestorAt[tip][Height[tip]] = tip
    BY <2>2, OwnHeight
  <2>7. MaxReorgDepth > 0 => Height[tip] - h <= MaxReorgDepth
    <3>1. MaxReorgDepth > 0 => MaxReorgDepth # 0
      BY SMT
    <3>2. MaxReorgDepth # 0 => Depth(h) <= MaxReorgDepth
      BY <1>2 DEF StartTrial
    <3> QED BY <2>5, <3>1, <3>2 DEF Depth
  <2>8. /\ pc' = "trialDisconnect" => at' = Height[tip]
        /\ pc' = "trialConnect" => at' = h /\ h = Height[tip]
    BY SMT, <2>2, <2>3, <2>5 DEF TopOf
  <2>9. /\ pc' = "trialDisconnect" => trial' = UtxoAt[AncestorAt[tip][at']]
        /\ pc' = "trialConnect" => /\ trial' = UtxoAt[AncestorAt[blk][at']]
                                   /\ ValidChain(AncestorAt[blk][at'])
    BY <2>2, <2>3, <2>5, <2>6, <2>8
  <2>10. /\ \A b \in Block : index'[b] # "absent" => WellFormed(b)
         /\ diskTip' # NoBlock => ValidChain(diskTip')
         /\ bestBlock' # NoBlock => ValidChain(bestBlock')
    BY <2>1, <2>3 DEF ValidInv, CommitSteps
  <2> QED BY <2>2, <2>3, <2>4, <2>7, <2>9, <2>10 DEF ValidInv
<1> QED BY <1>1, <1>2

(* The clone steps down the active chain, and up the new branch over       *)
(* blocks that it validates.                                               *)
LEMMA ValidTrial ==
    ASSUME IInv, IInv', ValidInv, TrialDisconnect \/ TrialConnect
    PROVE  ValidInv'
<1> CoreTypeOK
  BY DEF IInv
<1>1. /\ pc \in Trial /\ pc \in Trial \cup CommitSteps /\ pc \in ReorgSteps \cup CommitSteps
      /\ pc \in ReorgSteps /\ pc \notin CommitSteps /\ pc \notin {"off", "genesisTip"} /\ pc \in AtTip
  BY DEF TrialDisconnect, TrialConnect, Trial, ReorgSteps, CommitSteps, AtTip
<1>2. /\ tip \in Block /\ Height[tip] \in Nat /\ blk \in Block /\ Height[blk] \in Nat
      /\ fork \in Nat /\ at \in Nat /\ UndoIsRight
  BY <1>1, ReorgTypes
<1>3. /\ ValidChain(tip) /\ WellFormed(blk) /\ main = ByHeight(tip)
      /\ MaxReorgDepth > 0 => Height[tip] - fork <= MaxReorgDepth
  BY <1>1, ValidTip, TipFacts DEF ValidInv
<1>4. UNCHANGED <<tip, index, diskTip, bestBlock, blk, fork>>
  BY DEF TrialDisconnect, TrialConnect, memory, disk
<1>5. fork <= Height[tip] /\ AncestorAt[blk][fork] = AncestorAt[tip][fork]
  BY <1>1, ForkFacts
<1>6. /\ \A b \in Block : index'[b] # "absent" => WellFormed(b)
      /\ diskTip' # NoBlock => ValidChain(diskTip')
      /\ bestBlock' # NoBlock => ValidChain(bestBlock')
  BY <1>1, <1>4 DEF ValidInv
<1>7. CASE TrialDisconnect
  <2>1. /\ pc = "trialDisconnect" /\ Undoable(main[at]) /\ at' = at - 1
        /\ trial' = Disconnect(trial, main[at], undo[main[at]])
        /\ pc' = IF at - 1 > fork THEN "trialDisconnect" ELSE "trialConnect"
    BY <1>7 DEF TrialDisconnect
  <2>2. fork < at /\ at <= Height[tip] /\ trial = UtxoAt[AncestorAt[tip][at]]
    BY <1>1, <2>1 DEF IInv, TrialInv, ValidInv
  <2> DEFINE x == AncestorAt[tip][at]
             y == AncestorAt[tip][at - 1]
  <2>3. at \in 0..Height[tip] /\ at \in 1..Height[tip] /\ fork \in 0..Height[tip]
    BY SMT, <1>2, <1>5, <2>2
  <2>4. x \in Block \ {Genesis} /\ Parent[x] = y /\ main[at] = x /\ index[x] = "undo"
    <3>1. at \in Heights /\ main[at] = x
      BY <1>2, <1>3, <2>2, <2>3, AncestorFacts DEF ByHeight
    <3> QED BY <1>2, <2>1, <2>3, <3>1, AncestorParent DEF Undoable
  <2>5. trial' = UtxoAt[y]
    BY <1>2, <2>1, <2>2, <2>4, DisconnectReplay DEF UndoIsRight
  <2>6. pc' = "trialConnect" => at - 1 = fork
    BY SMT, <1>2, <2>1, <2>2
  <2>7. ValidChain(AncestorAt[tip][fork])
    BY <1>2, <1>3, <2>3, ValidPrefix
  <2>8. /\ pc' = "trialDisconnect" => trial' = UtxoAt[AncestorAt[tip][at']]
        /\ pc' = "trialConnect" => /\ trial' = UtxoAt[AncestorAt[blk][at']]
                                   /\ ValidChain(AncestorAt[blk][at'])
    BY <1>5, <2>1, <2>5, <2>6, <2>7
  <2>9. pc' \notin CommitSteps /\ pc' \notin Extending
    BY <2>1 DEF CommitSteps, Extending
  <2> QED BY <1>3, <1>4, <1>6, <2>8, <2>9 DEF ValidInv
<1>8. CASE TrialConnect
  <2> DEFINE x == AncestorAt[blk][at + 1]
  <2>1. pc = "trialConnect" /\ TxInputsOk(x, trial) /\ trial' = Connect(trial, x)
    BY <1>8 DEF TrialConnect
  <2>2. /\ fork <= at /\ at < Height[blk] /\ trial = UtxoAt[AncestorAt[blk][at]]
        /\ ValidChain(AncestorAt[blk][at])
    BY <1>1, <2>1 DEF IInv, TrialInv, ValidInv
  <2>3. at + 1 \in 1..Height[blk] /\ at + 1 \in 0..Height[blk] /\ (at + 1) - 1 = at
    BY SMT, <1>2, <2>2
  <2>4. x \in Block \ {Genesis} /\ Parent[x] = AncestorAt[blk][at] /\ WellFormed(x) /\ x \in ChainOf(blk)
    <3>1. x \in Block \ {Genesis} /\ Parent[x] = AncestorAt[blk][(at + 1) - 1]
      BY <1>2, <2>3, AncestorParent
    <3>2. WellFormed(x)
      BY <1>2, <1>3, <2>3, ValidPrefix
    <3> QED BY <2>3, <3>1, <3>2 DEF ChainOf
  <2>5. trial' = UtxoAt[x]
    BY <2>1, <2>2, <2>4, ConnectReplay
  <2>6. ValidChain(x)
    <3>1. x \notin Malformed
      BY <1>3, <2>4 DEF WellFormed
    <3> QED BY <2>1, <2>2, <2>4, <3>1, ValidChild
  <2> HIDE DEF x
  <2>7. CASE x # blk
    <3>1. at' = at + 1 /\ pc' = "trialConnect"
      BY <1>8, <2>1, <2>7 DEF TrialConnect, x
    <3> QED BY <1>3, <1>4, <1>6, <2>5, <2>6, <3>1
            DEF ValidInv, x, Extending, Trial, ReorgSteps, CommitSteps
  <2>8. CASE x = blk
    <3>1. pc' \in {"disconnect", "connect"}
      BY <1>8, <2>8 DEF TrialConnect, x
    <3>2. pc' \in CommitSteps /\ pc' \notin ReorgSteps
      BY <3>1 DEF CommitSteps, ReorgSteps
    <3> QED BY <1>3, <1>4, <1>6, <2>6, <2>8, <3>1, <3>2 DEF ValidInv
  <2> QED BY <2>7, <2>8
<1> QED BY <1>7, <1>8

(* Phase 2, and a reorganisation that is refused.                          *)
LEMMA ValidCommit ==
    ASSUME IInv, IInv', ValidInv,
           \/ TrialFails \/ \E h \in Heights : ReorgTooDeep(h)
           \/ DisconnectTip \/ ConnectNext \/ ConnectIndex \/ ReorgTip
    PROVE  ValidInv'
<1> CoreTypeOK
  BY DEF IInv
<1>1. CASE TrialFails \/ \E h \in Heights : ReorgTooDeep(h)
  <2>1. pc \notin {"off", "genesisTip"} /\ pc \in ReorgSteps \cup CommitSteps /\ pc' = "block" /\ tip' = tip
    BY <1>1 DEF TrialFails, ReorgTooDeep, AbortReorg, ReorgSteps
  <2>2. blk \in Block
    BY <2>1, ReorgTypes
  <2>3. \A x \in Block : index'[x] # "absent" => index[x] # "absent"
    BY <1>1, <2>2 DEF TrialFails, ReorgTooDeep, AbortReorg, DeleteBlockIndex, PutBlockIndex, disk, CoreTypeOK
  <2> QED BY <2>1, <2>3, ValidQuiet
<1>2. CASE DisconnectTip \/ ConnectNext \/ ConnectIndex
  <2>1. /\ pc \in CommitSteps /\ pc' \in CommitSteps /\ UNCHANGED <<tip, diskTip, blk, fork>>
        /\ pc' \notin {"trialDisconnect", "trialConnect"} /\ pc' \notin ReorgSteps
    BY <1>2 DEF DisconnectTip, ConnectNext, ConnectIndex, CommitSteps, ReorgSteps, locals
  <2>2. ValidChain(blk) /\ (MaxReorgDepth > 0 => Height[tip] - fork <= MaxReorgDepth)
        /\ (diskTip # NoBlock => ValidChain(diskTip))
    BY <2>1 DEF ValidInv
  <2>3. \A b \in Block : index'[b] # "absent" => WellFormed(b)
    <3>1. CASE DisconnectTip \/ ConnectNext
      BY <3>1 DEF ValidInv, DisconnectTip, ConnectNext
    <3>2. CASE ConnectIndex
      <4>1. blk \in Block /\ Height[blk] \in Nat /\ at \in Nat /\ at <= Height[blk]
        BY <2>1, <3>2, ReorgTypes DEF ConnectIndex, IInv, Rising, RisingInv
      <4>2. at \in 0..Height[blk]
        BY SMT, <4>1
      <4>3. WellFormed(AncestorAt[blk][at])
        BY <2>2, <4>1, <4>2, ValidIsWellFormed, ValidPrefix
      <4> QED BY <3>2, <4>3 DEF ConnectIndex, PutBlockIndex, ValidInv, CoreTypeOK
    <3> QED BY <1>2, <3>1, <3>2
  <2> QED BY <2>1, <2>2, <2>3 DEF ValidInv
<1>3. CASE ReorgTip
  <2>1. pc \in CommitSteps /\ pc' = "block" /\ tip' = blk /\ index' = index
    BY <1>3 DEF ReorgTip, CommitSteps
  <2>2. ValidChain(blk)
    BY <2>1 DEF ValidInv
  <2> QED BY <2>1, <2>2, ValidSettled DEF ValidInv
<1> QED BY <1>1, <1>2, <1>3

(* Every step keeps the invariant of validity.                             *)
LEMMA NextValid ==
    ASSUME IInv, IInv', Harmless, ValidInv, Next
    PROVE  ValidInv'
<1>1. ~CommitFails /\ Genesis \in Block
  BY TreeFacts DEF Harmless
<1>2. CASE Step
  BY <1>1, <1>2, ValidStartStop, ValidExtend, ValidTrialStart, ValidTrial, ValidCommit DEF Step
<1>3. CASE Call \/ Fault
  BY <1>1, <1>3, ValidExtend, ValidTrialStart DEF Call, Fault
<1> QED BY <1>2, <1>3, ValidStartStop DEF Next

(* A step of nobody keeps it.                                              *)
LEMMA StutterValid ==
    ASSUME ValidInv, UNCHANGED vars
    PROVE  ValidInv'
<1>1. UNCHANGED <<tip, index, diskTip, bestBlock, pc, blk, fork, at, trial>>
  BY DEF vars, memory, disk, locals
<1> QED BY <1>1 DEF ValidInv

(* The invariants of the chain manager and of validity together.           *)
LEMMA ValidInvariance ==
    ASSUME CommitsComplete
    PROVE  Spec => [](IInv /\ ValidInv)
<1>1. Init => IInv /\ ValidInv
  <2>1. Init => ValidInv
    BY DEF Init, ValidInv, Extending, Trial, ReorgSteps, CommitSteps
  <2> QED BY <2>1, InitIInv
<1>2. IInv /\ ValidInv /\ [Next]_vars => (IInv /\ ValidInv)'
  BY CompleteIsHarmless, NextIInv, StutterIInv, NextValid, StutterValid
<1> QED BY <1>1, <1>2, PTL DEF Spec

(* The active chain is valid from genesis, and phase 2 of reorg connects   *)
(* only blocks that are valid on the live set, for every tree of blocks    *)
(* and every order of delivery.                                            *)
THEOREM ActiveChainIsValid ==
    ASSUME CommitsComplete
    PROVE  Spec => []ActiveChainValid
<1>1. IInv /\ ValidInv => ActiveChainValid
  <2> SUFFICES ASSUME IInv, ValidInv
               PROVE  ActiveChainValid
    OBVIOUS
  <2>1. pc = "idle" => ValidChain(tip)
    BY ValidTip
  <2>2. ASSUME pc = "connect"
        PROVE  TxInputsOk(AncestorAt[blk][at + 1], utxo)
    <3>1. pc \in CommitSteps /\ pc \in Rising
      BY <2>2 DEF CommitSteps, Rising
    <3>2. blk \in Block /\ Height[blk] \in Nat /\ at \in Nat /\ ValidChain(blk)
      BY <3>1, ReorgTypes DEF ValidInv
    <3>3. at < Height[blk] /\ utxo = UtxoAt[AncestorAt[blk][at]]
      BY <2>2, <3>1 DEF IInv, RisingInv
    <3>4. at + 1 \in 1..Height[blk] /\ at + 1 \in 0..Height[blk] /\ (at + 1) - 1 = at
      BY SMT, <3>2, <3>3
    <3> DEFINE x == AncestorAt[blk][at + 1]
    <3>5. x \in ChainOf(blk) \ {Genesis} /\ Parent[x] = AncestorAt[blk][(at + 1) - 1]
      BY <3>2, <3>4, AncestorParent DEF ChainOf
    <3>6. TxInputsOk(x, UtxoAt[Parent[x]])
      BY <3>2, <3>5 DEF ValidChain
    <3> QED BY <3>3, <3>4, <3>5, <3>6
  <2> QED BY <2>1, <2>2 DEF ActiveChainValid
<1> QED BY <1>1, ValidInvariance, PTL

-----------------------------------------------------------------------------
(* The ledger.                                                             *)

(* What the databases amount to at each step: the active tip, or the block *)
(* that extends it from the moment its coins are on disk.                  *)
LedgerFacts ==
    /\ LedgerUtxo = IF LedgerTip = NoBlock THEN NoCoins ELSE UtxoAt[LedgerTip]
    /\ pc \in AtTip \cup CommitSteps \cup {"genesisUtxo", "extendUtxo"} => LedgerTip = tip
    /\ pc = "extendTip" => LedgerTip = blk
    /\ diskTip = NoBlock => LedgerTip = NoBlock
    /\ pc = "off" /\ diskTip # NoBlock => LedgerTip = RecoveredTip

(* The invariant implies this.                                             *)
LEMMA LedgerAt == IInv => LedgerFacts
<1> SUFFICES ASSUME IInv
             PROVE  LedgerFacts
  OBVIOUS
<1>1. LedgerUtxo = IF LedgerTip = NoBlock THEN NoCoins ELSE UtxoAt[LedgerTip]
  BY DEF LedgerUtxo, IInv
<1>2. ASSUME pc \in AtTip \cup CommitSteps \cup {"genesisUtxo", "extendUtxo"}
      PROVE  LedgerTip = tip
  <2>1. diskTip = tip
    BY <1>2 DEF IInv, RunningInv, AtTip, ReorgSteps, CommitSteps
  <2>2. pc \in CommitSteps \/ bestBlock = NoBlock \/ bestBlock = diskTip
    BY <1>2, <2>1 DEF IInv, Extending, ExtendingInv
  <2> QED BY <2>1, <2>2 DEF LedgerTip, RecoveredTip
<1>3. ASSUME pc = "extendTip"
      PROVE  LedgerTip = blk
  <2>1. RunningInv /\ ExtendingInv /\ CoreTypeOK
    BY <1>3 DEF IInv, Extending
  <2>2. /\ bestBlock = blk /\ blk \in Block \ {Genesis} /\ blk # NoBlock /\ Parent[blk] = diskTip
        /\ index[blk] # "absent" /\ diskTip # NoBlock
    BY <1>3, <2>1 DEF RunningInv, ExtendingInv, CoreTypeOK
  <2>3. Height[blk] > Height[diskTip]
    BY SMT, <2>2, ParentFacts
  <2> QED BY <1>3, <2>2, <2>3 DEF LedgerTip, RecoveredTip, CommitSteps
<1>4. diskTip = NoBlock => LedgerTip = NoBlock
  BY DEF LedgerTip
<1>5. pc = "off" /\ diskTip # NoBlock => LedgerTip = RecoveredTip
  BY DEF LedgerTip, CommitSteps
<1> QED BY <1>1, <1>2, <1>3, <1>4, <1>5 DEF LedgerFacts

(* A step that does not move the ledger's tip does not move its coins.     *)
LEMMA LedgerStutter ==
    ASSUME IInv, IInv', LedgerTip' = LedgerTip
    PROVE  UNCHANGED <<LedgerTip, LedgerUtxo>>
<1>1. LedgerFacts
  BY LedgerAt
<1>2. LedgerFacts'
  BY LedgerAt, PTL
<1> QED BY <1>1, <1>2 DEF LedgerFacts

(* A step to a valid heavier chain within the depth limit adopts it.       *)
LEMMA LedgerAdopts ==
    ASSUME IInv', LedgerTip # NoBlock, LedgerTip' \in Block,
           ChainWork[LedgerTip'] > ChainWork[LedgerTip], ValidChain(LedgerTip'),
           MaxReorgDepth > 0 =>
              \E h \in 0..Height[LedgerTip] :
                 /\ Height[LedgerTip] - h <= MaxReorgDepth
                 /\ h <= Height[LedgerTip] /\ h <= Height[LedgerTip']
                 /\ AncestorAt[LedgerTip][h] = AncestorAt[LedgerTip'][h]
    PROVE  L!Next
<1>1. LedgerFacts'
  BY LedgerAt, PTL
<1>2. LedgerUtxo' = UtxoAt[LedgerTip']
  BY <1>1, TreeFacts DEF LedgerFacts
<1>3. L!ValidChain(LedgerTip')
  BY DEF L!ValidChain, L!ChainOf, L!TxInputsOk, L!Absent, ValidChain, ChainOf, TxInputsOk, Absent
<1>4. L!Adopt(LedgerTip')
  BY <1>2, <1>3 DEF L!Adopt, L!AgreeAt
<1> QED BY <1>4 DEF L!Next

(* A step that connects a child to the tip, from the moment its coins are  *)
(* on disk, and the step that ends a reorganisation, adopt a chain.        *)
LEMMA LedgerMoves ==
    ASSUME IInv, IInv', ValidInv, ExtendUtxo \/ ReorgTip
    PROVE  L!Next
<1> CoreTypeOK
  BY DEF IInv
<1>1. LedgerFacts
  BY LedgerAt
<1>2. LedgerFacts'
  BY LedgerAt, PTL
<1>3. CASE ExtendUtxo
  <2>1. pc = "extendUtxo" /\ pc' = "extendTip" /\ blk' = blk /\ pc \in Extending
    BY <1>3 DEF ExtendUtxo, locals, Extending
  <2>2. LedgerTip = tip /\ LedgerTip' = blk
    BY <1>1, <1>2, <2>1 DEF LedgerFacts
  <2>3. /\ tip \in Block /\ tip # NoBlock /\ blk \in Block \ {Genesis} /\ Parent[blk] = tip
        /\ ValidChain(blk)
    BY <2>1 DEF IInv, RunningInv, ExtendingInv, CoreTypeOK, ValidInv
  <2>4. ChainWork[blk] > ChainWork[tip] /\ Height[tip] \in Nat /\ Height[blk] = Height[tip] + 1
        /\ \A k \in 0..Height[tip] : AncestorAt[blk][k] = AncestorAt[tip][k]
    BY <2>3, ParentFacts
  <2>5. /\ Height[tip] \in 0..Height[tip] /\ Height[tip] - Height[tip] <= MaxReorgDepth
        /\ Height[tip] <= Height[tip] /\ Height[tip] <= Height[blk]
    BY SMT, <2>4, ChainAssumption
  <2> QED BY <2>2, <2>3, <2>4, <2>5, LedgerAdopts
<1>4. CASE ReorgTip
  <2>1. pc \in CommitSteps /\ pc' = "block" /\ tip' = blk
    BY <1>4 DEF ReorgTip, CommitSteps
  <2>2. LedgerTip = tip /\ LedgerTip' = blk
    BY <1>1, <1>2, <2>1 DEF LedgerFacts, AtTip
  <2>3. /\ tip \in Block /\ tip # NoBlock /\ blk \in Block /\ ChainWork[blk] > ChainWork[tip]
        /\ Height[tip] \in Nat /\ Height[blk] \in Nat /\ fork \in Nat
    BY <2>1, ReorgTypes, TreeFacts DEF HeavierInv
  <2>4. ValidChain(blk) /\ (MaxReorgDepth > 0 => Height[tip] - fork <= MaxReorgDepth)
    BY <2>1 DEF ValidInv
  <2>5. fork <= Height[tip] /\ fork < Height[blk] /\ AncestorAt[blk][fork] = AncestorAt[tip][fork]
    BY <2>1, ForkFacts
  <2>6. fork \in 0..Height[tip] /\ fork <= Height[blk]
    BY SMT, <2>3, <2>5
  <2> QED BY <2>2, <2>3, <2>4, <2>5, <2>6, LedgerAdopts
<1> QED BY <1>3, <1>4

(* Every step of the chain manager is a step of the ledger or leaves it.   *)
LEMMA LedgerStep ==
    ASSUME IInv, IInv', ValidInv, Harmless, Next
    PROVE  L!Next \/ UNCHANGED <<LedgerTip, LedgerUtxo>>
<1> DEFINE AtMemory == AtTip \cup CommitSteps \cup {"genesisUtxo", "extendUtxo"}
<1>1. LedgerFacts
  BY LedgerAt
<1>2. LedgerFacts'
  BY LedgerAt, PTL
<1>3. CASE InitGenesis
  BY <1>1, <1>2, <1>3, LedgerStutter DEF LedgerFacts, InitGenesis
<1>4. CASE GenesisTip
  <2>1. LedgerTip = NoBlock /\ LedgerTip' = Genesis
    BY <1>1, <1>2, <1>4 DEF LedgerFacts, GenesisTip, IInv
  <2>2. LedgerUtxo' = UtxoAt[Genesis]
    BY <1>2, <2>1, TreeFacts DEF LedgerFacts
  <2> QED BY <2>1, <2>2 DEF L!Next, L!CreateGenesis
<1>5. CASE Restart
  <2>1. LedgerTip = RecoveredTip
    BY <1>1, <1>5 DEF LedgerFacts, Restart
  <2>2. tip' = RecoveredTip /\ pc' \in AtTip
    BY <1>5 DEF Restart, AtTip
  <2> QED BY <1>2, <2>1, <2>2, LedgerStutter DEF LedgerFacts
<1>6. CASE Crash
  <2>1. pc \notin CommitSteps /\ pc' \notin CommitSteps /\ UNCHANGED <<diskTip, bestBlock, index>>
    BY <1>6 DEF Crash, Harmless, disk, CommitSteps
  <2>2. LedgerTip' = LedgerTip
    BY <2>1 DEF LedgerTip, RecoveredTip
  <2> QED BY <2>2, LedgerStutter
<1>7. CASE ExtendUtxo \/ ReorgTip
  BY <1>7, LedgerMoves
<1>8. CASE ExtendTip
  <2>1. LedgerTip = blk
    BY <1>1, <1>8 DEF LedgerFacts, ExtendTip
  <2>2. tip' = blk /\ pc' \in AtTip
    BY <1>8 DEF ExtendTip, AtTip
  <2> QED BY <1>2, <2>1, <2>2, LedgerStutter DEF LedgerFacts
<1>9. ASSUME tip' = tip, pc \in AtMemory, pc' \in AtMemory
      PROVE  UNCHANGED <<LedgerTip, LedgerUtxo>>
  BY <1>1, <1>2, <1>9, LedgerStutter DEF LedgerFacts
<1>10. ASSUME NEW b \in Block,
              \/ GenesisUtxo \/ ProcessBlock(b) \/ AddOrphan(b) \/ EvictExpiredOrphans
              \/ RescanUTXOSet \/ NextParent \/ Return \/ RejectBlock(b) \/ StoreFails(b)
              \/ SideChain(b) \/ SideIndexLost(b) \/ ExtendIndex(b) \/ ExtendFails
       PROVE  tip' = tip /\ pc \in AtMemory /\ pc' \in AtMemory
  BY <1>10 DEF GenesisUtxo, ProcessBlock, AddOrphan, EvictExpiredOrphans, RescanUTXOSet,
               NextParent, Return, RejectBlock, StoreFails, SideChain, SideIndexLost,
               ExtendIndex, ExtendFails, Harmless, Candidate, memory, AtTip
<1>11. ASSUME \/ \E b \in Block : ReorgIndex(b) \/ ReorgIndexLost(b)
              \/ \E h \in Heights : ReorgTooDeep(h) \/ StartTrial(h)
              \/ TrialDisconnect \/ TrialConnect \/ TrialFails
              \/ DisconnectTip \/ ConnectNext \/ ConnectIndex
       PROVE  tip' = tip /\ pc \in AtMemory /\ pc' \in AtMemory
  BY <1>11 DEF ReorgIndex, ReorgIndexLost, ReorgTooDeep, StartTrial, TrialDisconnect,
               TrialConnect, TrialFails, AbortReorg, DisconnectTip, ConnectNext, ConnectIndex,
               Candidate, memory, AtTip, ReorgSteps, CommitSteps
<1>12. ~CommitFails /\ Genesis \in Block
  BY TreeFacts DEF Harmless
<1> HIDE DEF AtMemory
<1>13. CASE Step
  BY <1>3, <1>4, <1>5, <1>7, <1>8, <1>9, <1>10, <1>11, <1>12, <1>13 DEF Step
<1>14. CASE Call \/ Fault
  BY <1>9, <1>10, <1>11, <1>12, <1>14 DEF Call, Fault
<1> QED BY <1>6, <1>13, <1>14 DEF Next

(* The databases, read as Init reads them, are one ledger: tip and coins   *)
(* change together, from one valid chain to a heavier one within the depth *)
(* limit, whatever crash or rolled-back write error interrupts a call      *)
(* outside the commit phase of reorg.                                      *)
THEOREM LedgerImplemented ==
    ASSUME CommitsComplete
    PROVE  Spec => ImplementsLedger
<1>1. Init => L!Init
  BY DEF Init, L!Init, LedgerTip, LedgerUtxo, NoCoins, L!NoCoins, Absent, L!Absent
<1>2. IInv /\ ValidInv /\ (IInv /\ ValidInv)' /\ [Next]_vars => [L!Next]_<<LedgerTip, LedgerUtxo>>
  <2> SUFFICES ASSUME IInv, ValidInv, IInv', [Next]_vars
               PROVE  L!Next \/ UNCHANGED <<LedgerTip, LedgerUtxo>>
    OBVIOUS
  <2>1. CASE Next
    BY <2>1, CompleteIsHarmless, LedgerStep
  <2>2. CASE UNCHANGED vars
    <3>1. UNCHANGED <<diskTip, bestBlock, index, pc>>
      BY <2>2 DEF vars, disk
    <3>2. LedgerTip' = LedgerTip
      BY <3>1 DEF LedgerTip, RecoveredTip
    <3> QED BY <3>2, LedgerStutter
  <2> QED BY <2>1, <2>2
<1> QED BY <1>1, <1>2, ValidInvariance, PTL DEF Spec, ImplementsLedger, L!Spec

(* Blocks buried under MaxReorgDepth others stay on the recorded chain     *)
(* through every extension, reorganisation, crash and restart.             *)
THEOREM BuriedStay ==
    ASSUME CommitsComplete
    PROVE  Spec => BuriedBlocksStay
<1>1. ASSUME IInv, ValidInv, [Next]_vars, MaxReorgDepth > 0, diskTip # NoBlock,
             NEW h \in 0..(Height[diskTip] - MaxReorgDepth)
      PROVE  h <= Height[diskTip'] /\ AncestorAt[diskTip'][h] = AncestorAt[diskTip][h]
  <2>1. diskTip \in Block /\ Height[diskTip] \in Nat
    BY <1>1, TreeFacts DEF IInv, CoreTypeOK
  <2>2. h \in Nat /\ h <= Height[diskTip] /\ h \in 0..Height[diskTip]
    BY SMT, <1>1, <2>1, ChainAssumption
  <2>3. CASE diskTip' = diskTip
    BY <2>2, <2>3
  <2>4. CASE diskTip' \in Block \ {Genesis} /\ Parent[diskTip'] = diskTip
    <3>1. Height[diskTip'] = Height[diskTip] + 1 /\ AncestorAt[diskTip'][h] = AncestorAt[diskTip][h]
      BY <2>2, <2>4, ParentFacts
    <3> QED BY SMT, <2>1, <2>2, <3>1
  <2>5. CASE ReorgTip
    <3>1. pc \in CommitSteps /\ diskTip' = blk /\ diskTip = tip
      BY <1>1, <2>5 DEF ReorgTip, CommitSteps, IInv, RunningInv
    <3>2. tip \in Block /\ blk \in Block /\ fork \in Nat /\ Height[blk] \in Nat
      BY <1>1, <3>1, ReorgTypes
    <3>3. fork <= Height[tip] /\ fork < Height[blk] /\ AncestorAt[blk][fork] = AncestorAt[tip][fork]
      BY <1>1, <3>1, ForkFacts
    <3>4. Height[tip] - fork <= MaxReorgDepth
      BY <1>1, <3>1 DEF ValidInv
    <3>5. h \in 0..fork /\ fork <= Height[blk] /\ h <= Height[blk]
      BY SMT, <1>1, <2>1, <2>2, <3>1, <3>2, <3>3, <3>4, ChainAssumption
    <3>6. AncestorAt[blk][h] = AncestorAt[tip][h]
      BY <3>2, <3>3, <3>5, SharedPrefix
    <3> QED BY <3>1, <3>5, <3>6
  <2>6. CASE UNCHANGED vars
    BY <2>3, <2>6 DEF vars, disk
  <2> QED BY <1>1, <2>3, <2>4, <2>5, <2>6, CompleteIsHarmless, TipMoves
<1>2. IInv /\ ValidInv /\ [Next]_vars =>
          [MaxReorgDepth > 0 /\ diskTip # NoBlock /\ failures' <= 1 =>
             \A h \in 0..(Height[diskTip] - MaxReorgDepth) :
                h <= Height[diskTip'] /\ AncestorAt[diskTip'][h] = AncestorAt[diskTip][h]]_vars
  BY <1>1
<1> QED BY <1>2, ValidInvariance, PTL DEF Spec, BuriedBlocksStay

-----------------------------------------------------------------------------
(* Sequences.                                                              *)

(* The entries that Without keeps: for every rank there is one entry that  *)
(* has it.                                                                 *)
LEMMA EntryFacts ==
    ASSUME NEW n \in Nat, NEW kept \in SUBSET (1..n), NEW k \in 1..Cardinality(kept)
    PROVE  /\ Entry(kept, k) \in kept
           /\ Cardinality({j \in kept : j <= Entry(kept, k)}) = k
<1> DEFINE upTo(i) == {j \in kept : j <= i}
           rank(i) == Cardinality(upTo(i))
<1>0. \A j \in kept : j \in Nat /\ 1 <= j /\ j <= n
  BY SMT
<1>1. IsFiniteSet(kept) /\ Cardinality(kept) \in Nat
  <2>1. 1 \in Int /\ n \in Int
    BY SMT
  <2>2. IsFiniteSet(1..n)
    BY <2>1, FS_Interval
  <2> QED BY <2>2, FS_Subset, FS_CardinalityType
<1>2. \A i \in Nat : IsFiniteSet(upTo(i)) /\ rank(i) \in Nat
  BY <1>1, FS_Subset, FS_CardinalityType
<1>3. rank(0) = 0 /\ rank(n) = Cardinality(kept)
  <2>1. \A j \in kept : ~(j <= 0) /\ j <= n
    BY SMT, <1>0
  <2>2. upTo(0) = {} /\ upTo(n) = kept
    BY <2>1
  <2> QED BY <2>2, FS_EmptySet
<1>4. ASSUME NEW i \in Nat
      PROVE  rank(i + 1) = IF i + 1 \in kept THEN rank(i) + 1 ELSE rank(i)
  <2>1. \A j \in kept : j <= i + 1 <=> j <= i \/ j = i + 1
    BY SMT, <1>0
  <2>2. ~(i + 1 <= i)
    BY SMT
  <2>3. IsFiniteSet(upTo(i))
    BY <1>2
  <2>4. Cardinality(upTo(i) \cup {i + 1}) = rank(i) + 1
    BY <2>2, <2>3, FS_AddElement
  <2>5. CASE i + 1 \in kept
    <3>1. upTo(i + 1) = upTo(i) \cup {i + 1}
      BY <2>1, <2>5
    <3> QED BY <2>4, <2>5, <3>1
  <2>6. CASE i + 1 \notin kept
    <3>1. upTo(i + 1) = upTo(i)
      BY <2>1, <2>6
    <3> QED BY <2>6, <3>1
  <2> QED BY <2>5, <2>6
<1> HIDE DEF upTo, rank
<1> DEFINE reached == {i \in Nat : k <= rank(i)}
<1>5. PICK m \in reached : \A i \in reached : m <= i
  <2>1. n \in reached
    BY SMT, <1>3
  <2> QED BY <2>1, Least
<1>6. m \in Nat /\ m # 0 /\ k <= rank(m)
  BY SMT, <1>1, <1>3, <1>5
<1>7. m - 1 \in Nat /\ (m - 1) + 1 = m /\ ~(k <= rank(m - 1))
  BY SMT, <1>5, <1>6
<1>8. rank(m) = IF m \in kept THEN rank(m - 1) + 1 ELSE rank(m - 1)
  BY <1>4, <1>7
<1>9. m \in kept /\ rank(m) = k
  BY SMT, <1>1, <1>2, <1>6, <1>7, <1>8
<1>10. \E i \in kept : Cardinality({j \in kept : j <= i}) = k
  BY <1>9 DEF rank, upTo
<1> QED BY <1>10 DEF Entry

(* Without takes out the children of p and nothing else; what is left is   *)
(* a pool.                                                                 *)
LEMMA WithoutFacts ==
    ASSUME orphans \in Seq(Block), NEW p
    PROVE  /\ Without(p) \in Seq(Block) /\ Len(Without(p)) <= Len(orphans)
           /\ Range(Without(p)) \subseteq {b \in Range(orphans) : Parent[b] # p}
           /\ IsInjective(orphans) => IsInjective(Without(p))
<1> DEFINE kept == {i \in DOMAIN orphans : Parent[orphans[i]] # p}
           n == Len(orphans)
           m == Cardinality(kept)
<1>1. n \in Nat /\ DOMAIN orphans = 1..n /\ \A i \in 1..n : orphans[i] \in Block
  BY SMT
<1>2. kept \in SUBSET (1..n)
  BY <1>1
<1>3. m \in Nat /\ m <= n
  <2>1. 1 \in Int /\ n \in Int /\ (IF 1 > n THEN 0 ELSE n - 1 + 1) = n
    BY SMT, <1>1
  <2>2. IsFiniteSet(1..n) /\ Cardinality(1..n) = n
    BY <2>1, FS_Interval
  <2>3. IsFiniteSet(kept) /\ m <= Cardinality(1..n)
    BY <1>2, <2>2, FS_Subset
  <2> QED BY <2>2, <2>3, FS_CardinalityType
<1>4. \A k \in 1..m : Entry(kept, k) \in kept /\ Cardinality({j \in kept : j <= Entry(kept, k)}) = k
  BY <1>1, <1>2, EntryFacts
<1>5. Without(p) = [k \in 1..m |-> orphans[Entry(kept, k)]]
  BY DEF Without
<1> HIDE DEF kept, n, m
<1>6. \A k \in 1..m : Entry(kept, k) \in DOMAIN orphans /\ Parent[orphans[Entry(kept, k)]] # p
  BY <1>4 DEF kept
<1>7. \A k \in 1..m : orphans[Entry(kept, k)] \in Block
  BY <1>1, <1>6
<1>8. Without(p) \in Seq(Block) /\ Len(Without(p)) = m /\ DOMAIN Without(p) = 1..m
  BY SMT, <1>3, <1>5, <1>7
<1>9. \A k \in 1..m : Without(p)[k] = orphans[Entry(kept, k)]
  BY <1>5
<1>10. Range(Without(p)) \subseteq {b \in Range(orphans) : Parent[b] # p}
  <2>1. \A k \in DOMAIN Without(p) :
            Without(p)[k] \in Range(orphans) /\ Parent[Without(p)[k]] # p
    BY <1>6, <1>8, <1>9 DEF Range
  <2> QED BY <2>1 DEF Range
<1>11. ASSUME IsInjective(orphans)
       PROVE  IsInjective(Without(p))
  <2>1. ASSUME NEW k \in 1..m, NEW l \in 1..m, Without(p)[k] = Without(p)[l]
        PROVE  k = l
    <3>1. Entry(kept, k) = Entry(kept, l)
      BY <1>6, <1>9, <1>11, <2>1 DEF IsInjective
    <3> QED BY <1>4, <3>1
  <2> QED BY <1>8, <2>1 DEF IsInjective
<1>12. Len(Without(p)) <= Len(orphans)
  BY <1>3, <1>8 DEF n
<1> QED BY <1>8, <1>10, <1>11, <1>12

(* The rest of a queue.                                                    *)
LEMMA TailFacts ==
    ASSUME NEW S, NEW q \in Seq(S), q # <<>>
    PROVE  /\ Tail(q) \in Seq(S) /\ Head(q) \in Range(q) /\ Range(Tail(q)) \subseteq Range(q)
           /\ Len(Tail(q)) <= Len(q)
           /\ IsInjective(q) => IsInjective(Tail(q)) /\ Head(q) \notin Range(Tail(q))
<1>1. /\ Len(q) \in Nat /\ 1 \in DOMAIN q /\ Head(q) = q[1] /\ Tail(q) \in Seq(S)
      /\ Len(Tail(q)) <= Len(q)
  BY SMT
<1>2. \A k \in DOMAIN Tail(q) : k + 1 \in DOMAIN q /\ Tail(q)[k] = q[k + 1] /\ k + 1 # 1
  BY SMT
<1>3. \A k, l \in DOMAIN Tail(q) : k + 1 = l + 1 => k = l
  BY SMT
<1>4. IsInjective(q) => IsInjective(Tail(q))
  BY <1>2, <1>3 DEF IsInjective
<1>5. IsInjective(q) => Head(q) \notin Range(Tail(q))
  <2>1. ASSUME IsInjective(q)
        PROVE  \A k \in DOMAIN Tail(q) : Tail(q)[k] # q[1]
    BY <1>1, <1>2, <2>1 DEF IsInjective
  <2> QED BY <1>1, <2>1 DEF Range
<1>6. Head(q) \in Range(q)
  BY <1>1 DEF Range
<1>7. Range(Tail(q)) \subseteq Range(q)
  BY <1>2 DEF Range
<1> QED BY <1>1, <1>4, <1>5, <1>6, <1>7

(* An entry joins the end of a queue.                                      *)
LEMMA AppendFacts ==
    ASSUME NEW S, NEW q \in Seq(S), NEW x \in S
    PROVE  /\ Append(q, x) \in Seq(S) /\ Len(Append(q, x)) = Len(q) + 1
           /\ Range(Append(q, x)) = Range(q) \cup {x}
           /\ IsInjective(q) /\ x \notin Range(q) => IsInjective(Append(q, x))
<1> DEFINE n == Len(q)
           r == Append(q, x)
<1>1. /\ n \in Nat /\ r \in Seq(S) /\ Len(r) = n + 1 /\ r[n + 1] = x /\ n + 1 \in DOMAIN r
  BY SMT
<1>2. \A k \in DOMAIN q : k \in DOMAIN r /\ r[k] = q[k]
  BY SMT
<1>3. \A k \in DOMAIN r : k \in DOMAIN q \/ k = n + 1
  BY SMT
<1> HIDE DEF n, r
<1>4. Range(r) = Range(q) \cup {x}
  BY <1>1, <1>2, <1>3 DEF Range
<1>5. IsInjective(q) /\ x \notin Range(q) => IsInjective(r)
  BY <1>1, <1>2, <1>3 DEF IsInjective, Range
<1> QED BY <1>1, <1>4, <1>5 DEF n, r

(* The entries after the first n.                                          *)
LEMMA SuffixFacts ==
    ASSUME NEW S, NEW q \in Seq(S), NEW n \in 0..Len(q)
    PROVE  /\ SubSeq(q, n + 1, Len(q)) \in Seq(S) /\ Len(SubSeq(q, n + 1, Len(q))) <= Len(q)
           /\ Range(SubSeq(q, n + 1, Len(q))) \subseteq Range(q)
           /\ IsInjective(q) => IsInjective(SubSeq(q, n + 1, Len(q)))
<1> DEFINE r == SubSeq(q, n + 1, Len(q))
<1>1. Len(q) \in Nat /\ n \in Nat /\ r \in Seq(S) /\ Len(r) <= Len(q)
  BY SMT
<1>2. \A k \in DOMAIN r : k + n \in DOMAIN q /\ r[k] = q[k + n]
  BY SMT
<1>3. \A k, l \in DOMAIN r : k + n = l + n => k = l
  BY SMT
<1> HIDE DEF r
<1>4. Range(r) \subseteq Range(q)
  BY <1>2 DEF Range
<1>5. IsInjective(q) => IsInjective(r)
  BY <1>2, <1>3 DEF IsInjective
<1> QED BY <1>1, <1>4, <1>5 DEF r

-----------------------------------------------------------------------------
(* The pool.                                                               *)

(* Arrivals, evictions and children taken out leave a pool within its      *)
(* bound and without a duplicate.                                          *)
LEMMA PoolStep ==
    ASSUME TypeOK, CoreTypeOK', [Next]_vars
    PROVE  TypeOK'
<1> DEFINE PoolOK(pool) == pool \in Seq(Block) /\ Len(pool) <= MaxOrphans /\ IsInjective(pool)
<1> SUFFICES PoolOK(orphans')
  BY DEF TypeOK
<1>1. PoolOK(orphans) /\ Len(orphans) \in Nat
  BY SMT DEF TypeOK
<1>2. MaxOrphans \in Nat /\ MaxOrphans # 0
  BY ChainAssumption
<1>3. ASSUME NEW n \in 0..Len(orphans)
      PROVE  PoolOK(Unexpired(n)) /\ Range(Unexpired(n)) \subseteq Range(orphans)
  <2>1. /\ Unexpired(n) \in Seq(Block) /\ Len(Unexpired(n)) <= Len(orphans)
        /\ Range(Unexpired(n)) \subseteq Range(orphans) /\ IsInjective(Unexpired(n))
    BY <1>1, SuffixFacts DEF Unexpired
  <2>2. Len(Unexpired(n)) \in Nat
    BY SMT, <2>1
  <2>3. Len(Unexpired(n)) <= MaxOrphans
    BY SMT, <1>1, <1>2, <2>1, <2>2
  <2> QED BY <2>1, <2>3
<1>4. ASSUME NEW b \in Block, AddOrphan(b)
      PROVE  PoolOK(orphans')
  <2>1. PICK n \in 0..Len(orphans) : orphans' = Append(WithRoom(Unexpired(n)), b)
    BY <1>4 DEF AddOrphan
  <2> DEFINE pool == Unexpired(n)
             room == WithRoom(pool)
  <2>2. PoolOK(pool) /\ Range(pool) \subseteq Range(orphans) /\ b \notin Range(orphans)
    BY <1>3, <1>4 DEF AddOrphan, InPool
  <2>3. pool # <<>> => Len(Tail(pool)) = Len(pool) - 1
    BY SMT, <2>2
  <2>4. Len(pool) >= MaxOrphans => pool # <<>>
    BY SMT, <1>2, <2>2
  <2>5. room \in Seq(Block) /\ IsInjective(room) /\ Range(room) \subseteq Range(orphans)
    BY <2>2, <2>4, TailFacts DEF WithRoom
  <2>6. Len(room) + 1 <= MaxOrphans
    BY SMT, <1>2, <2>2, <2>3, <2>4 DEF WithRoom
  <2> HIDE DEF room
  <2>7. orphans' = Append(room, b)
    BY <2>1 DEF room
  <2> QED BY <2>2, <2>5, <2>6, <2>7, AppendFacts
<1>5. CASE EvictExpiredOrphans
  <2>1. PICK n \in 1..Len(orphans) : orphans' = Unexpired(n)
    BY <1>5 DEF EvictExpiredOrphans
  <2>2. n \in 0..Len(orphans)
    BY SMT, <1>1
  <2> QED BY <1>3, <2>1, <2>2
<1>6. CASE NextParent
  <2>1. orphans' = Without(Head(queue))
    BY <1>6 DEF NextParent
  <2>2. /\ orphans' \in Seq(Block) /\ Len(orphans') <= Len(orphans) /\ IsInjective(orphans')
    BY <1>1, <2>1, WithoutFacts
  <2>3. Len(orphans') \in Nat
    BY SMT, <2>2
  <2>4. Len(orphans') <= MaxOrphans
    BY SMT, <1>1, <1>2, <2>2, <2>3
  <2> QED BY <2>2, <2>4
<1>7. CASE Crash
  <2>1. orphans' = <<>>
    BY <1>7 DEF Crash
  <2>2. <<>> \in Seq(Block) /\ Len(<<>>) <= MaxOrphans /\ IsInjective(<<>>)
    BY SMT, <1>2 DEF IsInjective
  <2> QED BY <2>1, <2>2
<1>8. CASE UNCHANGED vars
  BY <1>1, <1>8 DEF vars, memory
<1> HIDE DEF PoolOK
<1>9. ASSUME NEW b \in Block, ExtendIndex(b) \/ ReorgIndex(b) \/ ReorgIndexLost(b)
      PROVE  orphans' = orphans
  BY <1>9 DEF ExtendIndex, ReorgIndex, ReorgIndexLost
<1>10. ASSUME NEW b \in Block,
              \/ ProcessBlock(b) \/ RejectBlock(b) \/ StoreFails(b) \/ SideChain(b)
              \/ SideIndexLost(b)
       PROVE  orphans' = orphans
  BY <1>10 DEF ProcessBlock, RejectBlock, StoreFails, SideChain, SideIndexLost, memory
<1>11. ASSUME \/ InitGenesis \/ GenesisTip \/ GenesisUtxo \/ Restart \/ Return \/ RescanUTXOSet
              \/ ExtendUtxo \/ ExtendTip \/ ExtendFails
       PROVE  orphans' = orphans
  BY <1>11 DEF InitGenesis, GenesisTip, GenesisUtxo, Restart, Return, RescanUTXOSet,
               ExtendUtxo, ExtendTip, ExtendFails, memory
<1>12. ASSUME \/ \E h \in Heights : ReorgTooDeep(h) \/ StartTrial(h)
              \/ TrialDisconnect \/ TrialConnect \/ TrialFails \/ CommitFails
              \/ DisconnectTip \/ ConnectNext \/ ConnectIndex \/ ReorgTip
       PROVE  orphans' = orphans
  BY <1>12 DEF ReorgTooDeep, StartTrial, TrialDisconnect, TrialConnect, TrialFails, CommitFails,
               AbortReorg, DisconnectTip, ConnectNext, ConnectIndex, ReorgTip, memory
<1>13. CASE Step
  BY <1>1, <1>6, <1>9, <1>10, <1>11, <1>12, <1>13 DEF Step
<1>14. CASE Call
  BY <1>1, <1>4, <1>5, <1>10, <1>11, <1>14 DEF Call
<1>15. CASE Fault
  BY <1>1, <1>9, <1>10, <1>11, <1>12, <1>15 DEF Fault
<1> QED BY <1>7, <1>8, <1>13, <1>14, <1>15 DEF Next

-----------------------------------------------------------------------------
(* The work list.                                                          *)

(* The chain of a block starts at genesis and ends in the block.           *)
LEMMA ChainEnds ==
    ASSUME NEW t \in Block
    PROVE  AncestorAt[t][0] = Genesis /\ Genesis \in ChainOf(t) /\ t \in ChainOf(t)
<1>1. Height[t] \in Nat /\ 0 \in 0..Height[t] /\ Height[t] \in 0..Height[t]
  BY SMT, OwnHeight
<1>2. AncestorAt[t][0] \in Block /\ Height[AncestorAt[t][0]] = 0
  BY <1>1, AncestorFacts
<1>3. \A b \in Block \ {Genesis} : Height[b] # 0
  BY SMT, ParentFacts
<1>4. AncestorAt[t][0] = Genesis /\ AncestorAt[t][Height[t]] = t
  BY <1>2, <1>3, OwnHeight
<1> QED BY <1>1, <1>4 DEF ChainOf

(* A chain holds the parents of its blocks, and its top has no child in it.*)
LEMMA ChainClosed ==
    ASSUME NEW t \in Block, NEW x \in ChainOf(t) \ {Genesis}
    PROVE  Parent[x] \in ChainOf(t) /\ Parent[x] # t /\ x \in Block
<1>1. PICK h \in 0..Height[t] : x = AncestorAt[t][h]
  BY DEF ChainOf
<1>2. Height[t] \in Nat /\ AncestorAt[t][0] = Genesis
  BY OwnHeight, ChainEnds
<1>3. h # 0
  BY <1>1, <1>2
<1>4. h \in 1..Height[t] /\ h - 1 \in 0..Height[t] /\ h - 1 # Height[t]
  BY SMT, <1>2, <1>3
<1>5. Parent[x] = AncestorAt[t][h - 1]
  BY <1>1, <1>4, AncestorParent
<1>6. Height[Parent[x]] = h - 1
  BY <1>4, <1>5, AncestorFacts
<1> QED BY <1>1, <1>4, <1>5, <1>6, AncestorFacts DEF ChainOf

(* Nothing is left to do.                                                  *)
LEMMA WorkDone ==
    ASSUME batch' = {}, queue' = <<>>, pc' \in {"off", "genesisTip", "genesisUtxo", "idle"}
    PROVE  WorkInv'
<1>1. Range(<<>>) = {} /\ IsInjective(<<>>)
  BY SMT DEF Range, IsInjective
<1>2. Range(queue)' = {} /\ IsInjective(queue)'
  BY <1>1
<1> QED BY <1>2 DEF WorkInv, Extending, ReorgSteps, CommitSteps

(* The list stays as it is, or a block of it is dropped.                   *)
LEMMA WorkKept ==
    ASSUME WorkInv, batch' \subseteq batch, UNCHANGED <<queue, orphans, tip>>,
           pc' \in {"block"} \cup Extending \cup ReorgSteps \cup CommitSteps,
           pc' # "block" => blk' \in batch'
    PROVE  WorkInv'
<1>1. /\ pc' \notin {"off", "genesisTip", "genesisUtxo", "idle"}
      /\ pc' \in Extending \cup ReorgSteps \cup CommitSteps => blk' \in batch'
  BY DEF Extending, ReorgSteps, CommitSteps
<1> QED BY <1>1 DEF WorkInv

(* A block is stored, on the tip or beside it, and joins the parents whose *)
(* children are due.                                                       *)
LEMMA WorkQueued ==
    ASSUME WorkInv, NEW b \in Block, b \in batch, queue \in Seq(Block), tip \in Block,
           batch \subseteq Block, batch' = batch \ {b}, queue' = Append(queue, b),
           pc' = "block", orphans' = orphans,
           tip' = tip \/ (tip' = b /\ Parent[b] = tip)
    PROVE  WorkInv'
<1>1. tip # NoBlock /\ batch \cap ChainOf(tip) = {} /\ b \in Block \ {Genesis}
      /\ \A x \in ChainOf(tip) \ {Genesis} : Parent[x] \notin Range(queue)
  BY TreeFacts, ChainEnds DEF WorkInv
<1>2. /\ b \notin Range(queue) /\ Parent[b] \notin Range(queue)
      /\ \A x \in batch : x \notin Range(queue) /\ Parent[x] = Parent[b] /\ Parent[x] \notin Range(queue)
      /\ Range(orphans) \cap (batch \cup Range(queue)) = {} /\ IsInjective(queue)
  BY DEF WorkInv
<1>3. Range(queue') = Range(queue) \cup {b} /\ IsInjective(queue')
  <2>1. /\ Range(Append(queue, b)) = Range(queue) \cup {b}
        /\ IsInjective(queue) /\ b \notin Range(queue) => IsInjective(Append(queue, b))
    BY SMT, AppendFacts
  <2> QED BY <1>2, <2>1
<1>4. Parent[b] # b
  <2>1. Height[b] # Height[Parent[b]]
    BY SMT, <1>1, ParentFacts
  <2> QED BY <2>1
<1>5. \A x \in ChainOf(tip) \ {Genesis} : Parent[x] \notin Range(queue')
  <2>1. \A x \in ChainOf(tip) \ {Genesis} : Parent[x] \in ChainOf(tip)
    BY ChainClosed
  <2>2. b \notin ChainOf(tip)
    BY <1>1
  <2> QED BY <1>1, <1>3, <2>1, <2>2
<1>6. batch' \cap ChainOf(tip') = {} /\ \A x \in ChainOf(tip') \ {Genesis} : Parent[x] \notin Range(queue')
  <2>1. CASE tip' = tip
    BY <1>1, <1>5, <2>1
  <2>2. CASE tip' = b /\ Parent[b] = tip
    <3>1. ChainOf(b) = ChainOf(tip) \cup {b}
      BY <1>1, <2>2, ChildChain
    <3>2. ChainOf(tip') = ChainOf(tip) \cup {b}
      BY <2>2, <3>1
    <3> QED BY <1>1, <1>2, <1>3, <1>4, <1>5, <3>2
  <2> QED BY <2>1, <2>2
<1>7. \A x, y \in batch' : Parent[x] = Parent[y]
  BY <1>2
<1>8. \A x \in batch' : x \notin Range(queue') /\ Parent[x] \notin Range(queue')
  BY <1>2, <1>3, <1>4
<1>9. Range(orphans') \cap (batch' \cup Range(queue')) = {}
  BY <1>2, <1>3
<1>10. ChainOf(tip)' = ChainOf(tip')
  BY DEF ChainOf
<1> QED BY <1>3, <1>6, <1>7, <1>8, <1>9, <1>10 DEF WorkInv, Extending, ReorgSteps, CommitSteps

(* processOrphans takes the pool children of a parent: none of them is on  *)
(* the active chain or was queued before.                                  *)
LEMMA WorkTaken ==
    ASSUME IInv, TypeOK, WorkInv, NextParent
    PROVE  WorkInv'
<1> DEFINE h == Head(queue)
           rest == Tail(queue)
<1>1. /\ queue \in Seq(Block) /\ queue # <<>> /\ orphans \in Seq(Block) /\ pc = "block"
      /\ IsInjective(queue) /\ Range(orphans) \cap Range(queue) = {}
  BY DEF NextParent, TypeOK, CoreTypeOK, WorkInv
<1>2. /\ h \in Range(queue) /\ Range(rest) \subseteq Range(queue)
      /\ IsInjective(rest) /\ h \notin Range(rest)
  BY <1>1, TailFacts
<1>3. Range(orphans') \subseteq {b \in Range(orphans) : Parent[b] # h}
  BY <1>1, WithoutFacts DEF NextParent
<1>4. /\ batch' = {b \in Block : b \in Range(orphans) /\ Parent[b] = h} /\ queue' = rest
      /\ pc' = "block" /\ tip' = tip
  BY <1>1 DEF NextParent, InPool
<1>5. tip # NoBlock => \A x \in ChainOf(tip) \ {Genesis} : Parent[x] \notin Range(queue)
  BY DEF WorkInv
<1>6. h \in Block
  BY SMT, <1>1
<1>7. Parent[Genesis] = NoBlock /\ NoBlock \notin Block
  BY TreeFacts
<1> HIDE DEF h, rest
<1>8. tip # NoBlock => /\ batch' \cap ChainOf(tip) = {}
                       /\ \A x \in ChainOf(tip) \ {Genesis} : Parent[x] \notin Range(rest)
  <2>1. \A x \in batch' : x # Genesis /\ Parent[x] \in Range(queue)
    BY <1>2, <1>4, <1>6, <1>7
  <2> QED BY <1>2, <1>5, <2>1
<1>9. \A x, y \in batch' : Parent[x] = Parent[y]
  BY <1>4
<1>10. \A x \in batch' : x \notin Range(rest) /\ Parent[x] \notin Range(rest)
  BY <1>1, <1>2, <1>4
<1>11. Range(orphans') \cap (batch' \cup Range(rest)) = {}
  BY <1>1, <1>2, <1>3, <1>4
<1>12. ChainOf(tip)' = ChainOf(tip) /\ Range(queue)' = Range(rest) /\ IsInjective(queue)'
  BY <1>2, <1>4 DEF ChainOf, Range, IsInjective
<1> QED BY <1>4, <1>8, <1>9, <1>10, <1>11, <1>12 DEF WorkInv, Extending, ReorgSteps, CommitSteps

(* A reorganisation drops the rest of the list.                            *)
LEMMA WorkReorgTip ==
    ASSUME IInv, WorkInv, ReorgTip
    PROVE  WorkInv'
<1>1. /\ pc = "reorgTip" /\ batch' = {} /\ queue' = <<blk>> /\ tip' = blk /\ orphans' = orphans
      /\ pc' = "block"
  BY DEF ReorgTip
<1>2. pc \in CommitSteps
  BY <1>1 DEF CommitSteps
<1>3. blk \in Block /\ blk \notin Range(orphans)
  BY <1>2, ReorgTypes DEF WorkInv
<1>4. Range(<<blk>>) = {blk} /\ IsInjective(<<blk>>)
  BY SMT DEF Range, IsInjective
<1>5. \A x \in ChainOf(blk) \ {Genesis} : Parent[x] # blk
  BY <1>3, ChainClosed
<1>6. /\ Range(queue)' = {blk} /\ IsInjective(queue)' /\ ChainOf(tip)' = ChainOf(blk)
      /\ Range(orphans)' = Range(orphans)
  BY <1>1, <1>4 DEF ChainOf, Range, IsInjective
<1> QED BY <1>1, <1>3, <1>5, <1>6 DEF WorkInv, Extending, ReorgSteps, CommitSteps

(* Every step keeps the work list.                                         *)
LEMMA WorkStep ==
    ASSUME IInv, TypeOK, WorkInv, Next
    PROVE  WorkInv'
<1> CoreTypeOK
  BY DEF IInv
<1> DEFINE Quiet == {"off", "genesisTip", "genesisUtxo", "idle"}
<1>1. pc \in Quiet => batch = {} /\ queue = <<>>
  BY DEF WorkInv
<1>2. pc \notin Quiet => tip \in Block /\ ChainOf(tip) \subseteq known
  BY DEF IInv, RunningInv, CoreTypeOK
<1>3. ASSUME NEW b \in Block, ProcessBlock(b)
      PROVE  WorkInv'
  <2>1. /\ pc = "idle" /\ pc' = "block" /\ batch' = {b} /\ queue' = <<>> /\ UNCHANGED <<tip, orphans>>
        /\ b \notin known /\ b \notin Range(orphans)
    BY <1>3 DEF ProcessBlock, InPool, memory
  <2>2. ChainOf(tip) \subseteq known
    BY <2>1 DEF IInv, RunningInv
  <2>3. Range(<<>>) = {} /\ IsInjective(<<>>)
    BY SMT DEF Range, IsInjective
  <2>4. Range(queue)' = {} /\ IsInjective(queue)' /\ ChainOf(tip)' = ChainOf(tip)
        /\ Range(orphans)' = Range(orphans)
    BY <2>1, <2>3 DEF ChainOf, Range, IsInjective
  <2> QED BY <2>1, <2>2, <2>4 DEF WorkInv, Extending, ReorgSteps, CommitSteps
<1>4. ASSUME NEW b \in Block,
             \/ InitGenesis \/ GenesisTip \/ GenesisUtxo \/ Restart \/ Return \/ Crash
             \/ AddOrphan(b) \/ EvictExpiredOrphans \/ RescanUTXOSet
      PROVE  batch' = {} /\ queue' = <<>> /\ pc' \in Quiet
  BY <1>1, <1>4 DEF InitGenesis, GenesisTip, GenesisUtxo, Restart, Return, Crash, AddOrphan,
                    EvictExpiredOrphans, RescanUTXOSet, work
<1>5. ASSUME NEW b \in Block, SideChain(b) \/ SideIndexLost(b)
      PROVE  /\ b \in batch /\ pc = "block" /\ pc' = "block" /\ batch' = batch \ {b}
             /\ queue' = Append(queue, b) /\ UNCHANGED <<orphans, tip>>
  BY <1>5 DEF SideChain, SideIndexLost, Candidate
<1>6. CASE ExtendTip
  <2>1. pc \in Extending /\ ExtendingInv /\ blk \in Block /\ blk \in batch
    BY <1>6 DEF ExtendTip, Extending, IInv, ExtendingInv, WorkInv, CoreTypeOK
  <2>2. Parent[blk] = tip /\ tip \in Block /\ queue \in Seq(Block) /\ batch \subseteq Block
    BY <1>2, <1>6, <2>1 DEF ExtendTip, ExtendingInv, CoreTypeOK
  <2>3. /\ batch' = batch \ {blk} /\ queue' = Append(queue, blk) /\ pc' = "block"
        /\ orphans' = orphans /\ tip' = blk
    BY <1>6 DEF ExtendTip
  <2> QED BY <2>1, <2>2, <2>3, WorkQueued
<1>7. ASSUME NEW b \in Block, RejectBlock(b) \/ StoreFails(b)
      PROVE  WorkInv'
  <2>1. batch' \subseteq batch /\ UNCHANGED <<queue, orphans, tip>> /\ pc' = "block"
    BY <1>7 DEF RejectBlock, StoreFails, Candidate, memory
  <2> QED BY <2>1, WorkKept
<1>8. ASSUME NEW b \in Block, ExtendIndex(b) \/ ReorgIndex(b) \/ ReorgIndexLost(b)
      PROVE  WorkInv'
  <2>1. /\ batch' = batch /\ UNCHANGED <<queue, orphans, tip>> /\ blk' = b /\ b \in batch
        /\ pc' \in {"extendUtxo", "fork"}
    BY <1>8 DEF ExtendIndex, ReorgIndex, ReorgIndexLost, Candidate, work
  <2> QED BY <2>1, WorkKept DEF Extending, ReorgSteps
<1>9. CASE ExtendUtxo \/ ExtendFails
  <2>1. /\ batch' \subseteq batch /\ UNCHANGED <<queue, orphans, tip>>
        /\ pc \in Extending /\ pc' \in {"extendTip", "block"}
        /\ pc' # "block" => blk' = blk /\ batch' = batch
    BY <1>9 DEF ExtendUtxo, ExtendFails, work, memory, locals, Extending
  <2>2. blk \in batch
    BY <2>1 DEF WorkInv
  <2> QED BY <2>1, <2>2, WorkKept DEF Extending
<1>10. ASSUME \/ \E h \in Heights : StartTrial(h)
              \/ TrialDisconnect \/ TrialConnect \/ DisconnectTip \/ ConnectNext \/ ConnectIndex
       PROVE  WorkInv'
  <2>1. /\ batch' = batch /\ UNCHANGED <<queue, orphans, tip, blk>>
        /\ pc \in ReorgSteps \cup CommitSteps /\ pc' \in ReorgSteps \cup CommitSteps
    BY <1>10 DEF StartTrial, TrialDisconnect, TrialConnect, DisconnectTip, ConnectNext,
                 ConnectIndex, work, memory, locals, ReorgSteps, CommitSteps
  <2>2. blk \in batch
    BY <2>1 DEF WorkInv
  <2> QED BY <2>1, <2>2, WorkKept
<1>11. CASE TrialFails \/ CommitFails
  <2>1. batch' \subseteq batch /\ UNCHANGED <<queue, orphans, tip>> /\ pc' = "block"
    BY <1>11 DEF TrialFails, CommitFails, AbortReorg
  <2> QED BY <2>1, WorkKept
<1>12. ASSUME NEW h \in Heights, ReorgTooDeep(h)
       PROVE  WorkInv'
  <2>1. /\ pc = "fork" /\ batch' = batch \ {blk} /\ UNCHANGED <<orphans, tip>> /\ pc' = "block"
        /\ queue' = IF direct THEN Append(queue, blk) ELSE queue
    BY <1>12 DEF ReorgTooDeep
  <2>2. pc \in ReorgSteps \cup CommitSteps
    BY <2>1 DEF ReorgSteps
  <2>3. blk \in batch /\ blk \in Block /\ tip \in Block /\ queue \in Seq(Block) /\ batch \subseteq Block
    BY <2>2, ReorgTypes DEF WorkInv, CoreTypeOK
  <2>4. CASE direct
    BY <2>1, <2>3, <2>4, WorkQueued
  <2>5. CASE ~direct
    BY <2>1, <2>5, WorkKept
  <2> QED BY <2>4, <2>5
<1>13. ASSUME NEW b \in Block, SideChain(b) \/ SideIndexLost(b)
       PROVE  WorkInv'
  <2>1. tip \in Block /\ queue \in Seq(Block) /\ batch \subseteq Block
    BY <1>2, <1>5, <1>13 DEF CoreTypeOK
  <2> QED BY <1>5, <1>13, <2>1, WorkQueued
<1>14. ASSUME NEW b \in Block,
              \/ InitGenesis \/ GenesisTip \/ GenesisUtxo \/ Restart \/ Return \/ Crash
              \/ AddOrphan(b) \/ EvictExpiredOrphans \/ RescanUTXOSet
       PROVE  WorkInv'
  BY <1>4, <1>14, WorkDone
<1>15. Genesis \in Block
  BY TreeFacts
<1> HIDE DEF Quiet
<1>16. CASE Step
  BY <1>6, <1>7, <1>8, <1>9, <1>10, <1>11, <1>12, <1>13, <1>14, <1>15, <1>16, WorkTaken,
     WorkReorgTip DEF Step
<1>17. CASE Call
  BY <1>3, <1>14, <1>15, <1>17 DEF Call
<1>18. CASE Fault
  BY <1>7, <1>8, <1>9, <1>11, <1>13, <1>18 DEF Fault
<1> QED BY <1>14, <1>15, <1>16, <1>17, <1>18 DEF Next

-----------------------------------------------------------------------------
(* The records of the active chain.                                        *)

(* Records that keep their undo data stay recorded.                        *)
LEMMA RecordedKept ==
    ASSUME NEW b \in Block, Recorded(b), index[Genesis] # "absent" => index'[Genesis] # "absent",
           \A x \in ChainOf(b) \ {Genesis} : index[x] = "undo" => index'[x] = "undo"
    PROVE  Recorded(b)'
  BY DEF Recorded, ChainOf

(* A record that is put or deleted off a recorded chain does not disturb   *)
(* it.                                                                     *)
LEMMA RecordedOff ==
    ASSUME CoreTypeOK, NEW t \in Block, NEW b \in Block, b \notin ChainOf(t), Recorded(t),
           NEW status, PutBlockIndex(b, status) \/ index' = index
    PROVE  Recorded(t)'
<1>1. \A x \in ChainOf(t) : x # b /\ x \in Block /\ Genesis \in ChainOf(t)
  BY ChainInBlock, ChainEnds
<1>2. \A x \in ChainOf(t) : index'[x] = index[x]
  BY <1>1 DEF PutBlockIndex, CoreTypeOK
<1>3. Genesis \in ChainOf(t)
  BY ChainEnds
<1> QED BY <1>2, <1>3, RecordedKept

(* A record that gains undo data disturbs no chain.                        *)
LEMMA RecordedUndo ==
    ASSUME CoreTypeOK, NEW t \in Block, NEW b \in Block, Recorded(t), PutBlockIndex(b, "undo")
    PROVE  Recorded(t)'
<1>1. ChainOf(t) \subseteq Block /\ Genesis \in Block
  BY ChainInBlock, TreeFacts
<1>2. \A x \in Block : index'[x] = index[x] \/ index'[x] = "undo"
  BY DEF PutBlockIndex, CoreTypeOK
<1> QED BY <1>1, <1>2, RecordedKept

(* An ancestor of a recorded block is recorded.                            *)
LEMMA RecordedPrefix ==
    ASSUME NEW b \in Block, NEW h \in 0..Height[b], Recorded(b)
    PROVE  Recorded(AncestorAt[b][h])
  BY ChainPrefix DEF Recorded

(* A child with undo data of a recorded block is recorded.                 *)
LEMMA RecordedChild ==
    ASSUME NEW b \in Block \ {Genesis}, Recorded(Parent[b]), index[b] = "undo"
    PROVE  Recorded(b)
<1>1. ChainOf(b) = ChainOf(Parent[b]) \cup {b}
  BY ChildChain
<1> QED BY <1>1 DEF Recorded

(* Both databases at one recorded tip.                                     *)
LEMMA RecordSettled ==
    ASSUME NEW t \in Block, Recorded(t)', diskTip' = t, bestBlock' = t,
           pc' \notin CommitSteps \cup {"genesisTip"}
    PROVE  RecordInv'
<1>1. Recorded(diskTip)' /\ Recorded(bestBlock)'
  BY DEF Recorded, ChainOf
<1> QED BY <1>1 DEF RecordInv, CommitSteps

(* The databases stay as they are, outside phase 2 of reorg.               *)
LEMMA RecordQuiet ==
    ASSUME RecordInv, UNCHANGED <<index, diskTip, bestBlock>>, pc \notin CommitSteps,
           pc' \notin CommitSteps \cup {"genesisTip"}
    PROVE  RecordInv'
<1>1. Recorded(diskTip)' = Recorded(diskTip) /\ Recorded(bestBlock)' = Recorded(bestBlock)
  BY DEF Recorded, ChainOf
<1> QED BY <1>1 DEF RecordInv, CommitSteps

(* The recorded tip of a running process.                                  *)
LEMMA RecordTip ==
    ASSUME IInv, RecordInv, pc \notin {"off", "genesisTip"}
    PROVE  tip \in Block /\ diskTip = tip /\ Recorded(tip) /\ CoreTypeOK
<1>1. tip # NoBlock /\ diskTip = tip /\ CoreTypeOK
  BY DEF IInv, RunningInv
<1> QED BY <1>1 DEF RecordInv, CoreTypeOK

(* Start-up, and the end of the process.                                   *)
LEMMA RecordStartStop ==
    ASSUME IInv, Harmless, RecordInv,
           InitGenesis \/ GenesisTip \/ GenesisUtxo \/ Restart \/ Crash
    PROVE  RecordInv'
<1> CoreTypeOK
  BY DEF IInv
<1>1. CASE InitGenesis
  <2>1. /\ pc = "off" /\ pc' = "genesisTip" /\ diskTip' = NoBlock /\ bestBlock' = bestBlock
        /\ diskTip = NoBlock
    BY <1>1 DEF InitGenesis
  <2>2. bestBlock = NoBlock
    BY <2>1 DEF IInv, StoppedInv
  <2>3. index'[Genesis] # "absent"
    BY <1>1, TreeFacts DEF InitGenesis, PutBlockIndex, CoreTypeOK
  <2> QED BY <2>1, <2>2, <2>3 DEF RecordInv, CommitSteps
<1>2. CASE GenesisTip
  <2>1. pc = "genesisTip" /\ pc' = "genesisUtxo" /\ diskTip' = Genesis /\ UNCHANGED <<index, bestBlock>>
    BY <1>2 DEF GenesisTip
  <2>2. bestBlock = NoBlock /\ index[Genesis] # "absent"
    BY <2>1 DEF IInv, StoppedInv, RecordInv
  <2>3. ChainOf(Genesis) \subseteq {Genesis}
    <3>1. Height[Genesis] = 0 /\ AncestorAt[Genesis][0] = Genesis
      BY TreeFacts
    <3> QED BY SMT, <3>1 DEF ChainOf
  <2>4. Recorded(diskTip)'
    BY <2>1, <2>2, <2>3 DEF Recorded, ChainOf
  <2> QED BY <2>1, <2>2, <2>4 DEF RecordInv, CommitSteps
<1>3. CASE GenesisUtxo
  <2>1. /\ pc = "genesisUtxo" /\ pc' = "idle" /\ bestBlock' = Genesis /\ UNCHANGED <<index, diskTip>>
    BY <1>3 DEF GenesisUtxo, FlushUtxoSet
  <2>2. tip = Genesis
    BY <2>1 DEF IInv
  <2>3. Genesis \in Block /\ diskTip = Genesis /\ Recorded(Genesis)
    BY <2>1, <2>2, RecordTip
  <2>4. Recorded(Genesis)'
    BY <2>1, <2>3, RecordedKept
  <2> QED BY <2>1, <2>3, <2>4, RecordSettled DEF CommitSteps
<1>4. CASE Restart
  <2> DEFINE t == RecoveredTip
  <2>1. /\ pc = "off" /\ pc' = "idle" /\ diskTip # NoBlock /\ diskTip' = t /\ index' = index
        /\ bestBlock' = t
    BY <1>4 DEF Restart, FlushUtxoSet
  <2>2. t \in Block /\ Recorded(t)
    BY <2>1 DEF RecoveredTip, CoreTypeOK, RecordInv, CommitSteps
  <2> HIDE DEF t
  <2>3. Recorded(diskTip)' /\ Recorded(bestBlock)'
    BY <2>1, <2>2 DEF Recorded, ChainOf
  <2> QED BY <2>1, <2>3 DEF RecordInv, CommitSteps
<1>5. CASE Crash
  <2>1. pc \notin CommitSteps /\ pc' = "off" /\ UNCHANGED <<index, diskTip, bestBlock>>
    BY <1>5 DEF Crash, Harmless, disk
  <2> QED BY <2>1, RecordQuiet DEF CommitSteps
<1> QED BY <1>1, <1>2, <1>3, <1>4, <1>5

(* The calls and steps that put a record beside the active chain, or none. *)
LEMMA RecordBeside ==
    ASSUME IInv, IInv', WorkInv, RecordInv, NEW b \in Block,
           \/ ProcessBlock(b) \/ AddOrphan(b) \/ EvictExpiredOrphans \/ RescanUTXOSet
           \/ NextParent \/ Return \/ RejectBlock(b) \/ StoreFails(b)
           \/ SideChain(b) \/ SideIndexLost(b) \/ ReorgIndex(b) \/ ReorgIndexLost(b)
    PROVE  RecordInv'
<1>1. /\ pc \in AtTip /\ pc' \in AtTip /\ tip' = tip
      /\ index' = index \/ (b \in batch /\ PutBlockIndex(b, "data"))
  <2>1. CASE ReorgIndex(b) \/ ReorgIndexLost(b)
    BY <2>1 DEF ReorgIndex, ReorgIndexLost, Candidate, disk, AtTip, ReorgSteps
  <2>2. CASE SideChain(b) \/ SideIndexLost(b)
    BY <2>2 DEF SideChain, SideIndexLost, Candidate, disk, AtTip
  <2>3. CASE \/ ProcessBlock(b) \/ AddOrphan(b) \/ EvictExpiredOrphans \/ RescanUTXOSet
             \/ NextParent \/ Return \/ RejectBlock(b) \/ StoreFails(b)
    BY <2>3 DEF ProcessBlock, AddOrphan, EvictExpiredOrphans, RescanUTXOSet, NextParent, Return,
                RejectBlock, StoreFails, Candidate, memory, disk, AtTip
  <2> QED BY <2>1, <2>2, <2>3
<1>2. tip \in Block /\ CoreTypeOK /\ Recorded(tip)
  BY <1>1, RecordTip DEF AtTip, ReorgSteps
<1>3. b \in batch => b \notin ChainOf(tip)
  BY <1>2, TreeFacts DEF WorkInv
<1>4. PICK t \in Block : t = tip
  BY <1>2
<1>5. Recorded(t)'
  BY <1>1, <1>2, <1>3, <1>4, RecordedKept, RecordedOff
<1>6. diskTip' = t /\ bestBlock' = t /\ pc' \notin CommitSteps \cup {"genesisTip"}
  BY <1>1, <1>4 DEF IInv, RunningInv, AtTip, ReorgSteps, CommitSteps
<1> QED BY <1>5, <1>6, RecordSettled

(* A child of the tip gets its record first, then its coins and the tip.   *)
LEMMA RecordExtend ==
    ASSUME IInv, IInv', Harmless, RecordInv,
           (\E b \in Block : ExtendIndex(b)) \/ ExtendUtxo \/ ExtendTip \/ ExtendFails
    PROVE  RecordInv'
<1>1. ASSUME NEW b \in Block, ExtendIndex(b)
      PROVE  RecordInv'
  <2>1. /\ pc \in AtTip /\ pc' = "extendUtxo" /\ PutBlockIndex(b, "undo")
        /\ UNCHANGED <<diskTip, bestBlock>>
    BY <1>1 DEF ExtendIndex, Candidate, AtTip
  <2>2. tip \in Block /\ CoreTypeOK /\ Recorded(tip) /\ diskTip = tip /\ bestBlock = tip
    BY <2>1, RecordTip DEF IInv, AtTip, ReorgSteps
  <2>3. PICK t \in Block : t = tip
    BY <2>2
  <2>4. Recorded(t)'
    BY <2>1, <2>2, <2>3, RecordedUndo
  <2>5. diskTip' = t /\ bestBlock' = t /\ pc' \notin CommitSteps \cup {"genesisTip"}
    BY <2>1, <2>2, <2>3 DEF CommitSteps
  <2> QED BY <2>4, <2>5, RecordSettled
<1>2. CASE ExtendUtxo
  <2>1. /\ pc \in Extending /\ pc' = "extendTip" /\ UNCHANGED <<index, diskTip>> /\ bestBlock' = blk
    BY <1>2 DEF ExtendUtxo, PersistConnect, Extending
  <2>2. tip \in Block /\ CoreTypeOK /\ Recorded(tip) /\ diskTip = tip
    BY <2>1, RecordTip DEF Extending
  <2>3. blk \in Block \ {Genesis} /\ Parent[blk] = tip /\ index[blk] = "undo"
    BY <2>1, <2>2 DEF IInv, ExtendingInv, CoreTypeOK
  <2>4. Recorded(blk)
    BY <2>2, <2>3, RecordedChild
  <2>5. Recorded(diskTip)' /\ Recorded(bestBlock)'
    BY <2>1, <2>2, <2>4 DEF Recorded, ChainOf
  <2> QED BY <2>1, <2>5 DEF RecordInv, CommitSteps
<1>3. CASE ExtendTip
  <2>1. /\ pc = "extendTip" /\ pc \in Extending /\ pc' = "block" /\ index' = index
        /\ diskTip' = blk /\ bestBlock' = bestBlock
    BY <1>3 DEF ExtendTip, Extending
  <2>2. bestBlock = blk /\ blk # NoBlock
    BY <2>1 DEF IInv, ExtendingInv
  <2>3. Recorded(blk)
    BY <2>1, <2>2 DEF RecordInv, CommitSteps
  <2>4. Recorded(diskTip)' /\ Recorded(bestBlock)'
    BY <2>1, <2>2, <2>3 DEF Recorded, ChainOf
  <2> QED BY <2>1, <2>4 DEF RecordInv, CommitSteps
<1>4. CASE ExtendFails
  <2>1. pc \notin CommitSteps /\ pc' = "block" /\ UNCHANGED <<index, diskTip, bestBlock>>
    BY <1>4 DEF ExtendFails, disk, CommitSteps
  <2> QED BY <2>1, RecordQuiet DEF CommitSteps
<1> QED BY <1>1, <1>2, <1>3, <1>4

(* Phases 0 and 1 of reorg write nothing; an abandoned reorganisation      *)
(* deletes the record of a block off the active chain.  When phase 2       *)
(* starts to connect, the fork is recorded.                                *)
LEMMA RecordTrial ==
    ASSUME IInv, IInv', RecordInv,
           \/ \E h \in Heights : ReorgTooDeep(h) \/ StartTrial(h)
           \/ TrialDisconnect \/ TrialConnect \/ TrialFails
    PROVE  RecordInv'
<1>1. pc \in ReorgSteps
  BY DEF ReorgTooDeep, StartTrial, TrialDisconnect, TrialConnect, TrialFails, ReorgSteps
<1>2. /\ pc \notin CommitSteps /\ tip \in Block /\ blk \in Block /\ CoreTypeOK
      /\ Recorded(tip) /\ diskTip = tip /\ bestBlock = tip
  BY <1>1, ReorgTypes, RecordTip DEF ReorgSteps, CommitSteps, IInv, AtTip
<1>3. ASSUME \/ \E h \in Heights : ReorgTooDeep(h) \/ StartTrial(h)
             \/ TrialDisconnect
      PROVE  RecordInv'
  <2>1. UNCHANGED <<index, diskTip, bestBlock>> /\ pc' \in {"block", "trialDisconnect", "trialConnect"}
    BY <1>3 DEF ReorgTooDeep, StartTrial, TrialDisconnect, disk
  <2> QED BY <1>2, <2>1, RecordQuiet DEF CommitSteps
<1>4. CASE TrialFails
  <2>1. PutBlockIndex(blk, "absent") \/ index' = index
    BY <1>4 DEF TrialFails, AbortReorg, DeleteBlockIndex
  <2>2. UNCHANGED <<diskTip, bestBlock>> /\ pc' = "block"
    BY <1>4 DEF TrialFails, AbortReorg
  <2>3. ChainWork[blk] > ChainWork[tip]
    BY <1>1, ReorgTypes DEF HeavierInv
  <2>4. PICK t \in Block : t = tip
    BY <1>2
  <2>5. PICK b \in Block : b = blk
    BY <1>2
  <2>6. b \notin ChainOf(t) /\ (PutBlockIndex(b, "absent") \/ index' = index)
    BY <2>1, <2>3, <2>4, <2>5, HeavierIsOff
  <2>7. Recorded(t)'
    BY <1>2, <2>4, <2>6, RecordedOff
  <2> QED BY <1>2, <2>2, <2>4, <2>7, RecordSettled DEF CommitSteps
<1>5. CASE TrialConnect
  <2>1. /\ UNCHANGED <<index, diskTip, bestBlock, tip, blk, fork>>
        /\ pc' \in {"trialConnect", "disconnect", "connect"} /\ pc \in Trial
        /\ pc' = "connect" => at' = TopOf(fork) /\ ~(Height[tip] > fork)
    BY <1>5 DEF TrialConnect, memory, disk, Trial
  <2>2. /\ fork <= Height[tip] /\ AncestorAt[blk][fork] = AncestorAt[tip][fork]
        /\ fork \in Nat /\ Height[tip] \in Nat
    BY <1>1, <2>1, ForkFacts, ReorgTypes
  <2>3. fork \in 0..Height[tip] /\ (~(Height[tip] > fork) => TopOf(fork) = fork)
    BY SMT, <2>2 DEF TopOf
  <2>4. Recorded(AncestorAt[blk][fork])
    BY <1>2, <2>2, <2>3, RecordedPrefix
  <2>5. Recorded(diskTip)'
    BY <1>2, <2>1 DEF Recorded, ChainOf
  <2>6. pc' # "connect" => Recorded(bestBlock)'
    BY <1>2, <2>1 DEF Recorded, ChainOf
  <2>7. pc' = "connect" => Recorded(AncestorAt[blk][at])'
    BY <2>1, <2>3, <2>4 DEF Recorded, ChainOf
  <2> QED BY <2>1, <2>5, <2>6, <2>7 DEF RecordInv, CommitSteps
<1> QED BY <1>3, <1>4, <1>5

(* Phase 2 of reorg keeps the records of the old chain and completes those *)
(* of the new one, block by block, before it records the new tip.          *)
LEMMA RecordCommit ==
    ASSUME IInv, IInv', RecordInv, DisconnectTip \/ ConnectNext \/ ConnectIndex \/ ReorgTip
    PROVE  RecordInv'
<1>1. pc \in CommitSteps
  BY DEF DisconnectTip, ConnectNext, ConnectIndex, ReorgTip, CommitSteps
<1>2. /\ tip \in Block /\ blk \in Block /\ CoreTypeOK /\ Recorded(tip) /\ diskTip = tip
      /\ fork \in Nat /\ at \in Nat /\ Height[tip] \in Nat /\ Height[blk] \in Nat
  BY <1>1, ReorgTypes, RecordTip DEF CommitSteps
<1>3. CASE DisconnectTip
  <2>1. /\ pc = "disconnect" /\ UNCHANGED <<index, diskTip, blk>> /\ at' = at - 1
        /\ pc' = IF at - 1 > fork THEN "disconnect" ELSE "connect"
    BY <1>3 DEF DisconnectTip
  <2>2. /\ fork <= Height[tip] /\ AncestorAt[blk][fork] = AncestorAt[tip][fork] /\ fork < at
    BY <1>1, <2>1, ForkFacts DEF IInv, FallingInv
  <2>3. fork \in 0..Height[tip] /\ (~(at - 1 > fork) => at - 1 = fork)
    BY SMT, <1>2, <2>2
  <2>4. Recorded(AncestorAt[blk][fork])
    BY <1>2, <2>2, <2>3, RecordedPrefix
  <2>5. Recorded(diskTip)'
    BY <1>2, <2>1 DEF Recorded, ChainOf
  <2>6. pc' = "connect" => Recorded(AncestorAt[blk][at])'
    BY <2>1, <2>3, <2>4 DEF Recorded, ChainOf
  <2> QED BY <2>1, <2>5, <2>6 DEF RecordInv, CommitSteps
<1>4. CASE ConnectNext
  <2>1. /\ pc = "connect" /\ UNCHANGED <<index, diskTip, blk>> /\ at' = at + 1 /\ pc' = "connectIndex"
    BY <1>4 DEF ConnectNext
  <2>2. Recorded(AncestorAt[blk][at])
    BY <2>1 DEF RecordInv
  <2>3. at' - 1 = at
    BY SMT, <1>2, <2>1
  <2>4. Recorded(diskTip)' /\ Recorded(AncestorAt[blk][at - 1])'
    BY <1>2, <2>1, <2>2, <2>3 DEF Recorded
  <2> QED BY <2>1, <2>4 DEF RecordInv, CommitSteps
<1>5. CASE ConnectIndex
  <2> DEFINE c == AncestorAt[blk][at]
  <2>1. /\ pc = "connectIndex" /\ UNCHANGED <<diskTip, blk, at>> /\ PutBlockIndex(c, "undo")
        /\ pc' \in {"connect", "reorgTip"}
    BY <1>5 DEF ConnectIndex, locals
  <2>2. fork < at /\ at <= Height[blk] /\ Recorded(AncestorAt[blk][at - 1])
    BY <2>1 DEF IInv, RisingInv, Rising, RecordInv
  <2>3. at \in 1..Height[blk] /\ at \in 0..Height[blk] /\ at - 1 \in 0..Height[blk]
    BY SMT, <1>2, <2>2
  <2>4. c \in Block \ {Genesis} /\ Parent[c] = AncestorAt[blk][at - 1]
    BY <1>2, <2>3, AncestorParent, AncestorFacts
  <2>5. PICK b \in Block \ {Genesis} : b = c
    BY <2>4
  <2>6. PICK t \in Block : t = tip
    BY <1>2
  <2>7. Parent[b] \in Block /\ Recorded(Parent[b]) /\ PutBlockIndex(b, "undo") /\ Recorded(t)
    BY <1>2, <2>1, <2>2, <2>4, <2>5, <2>6, ParentFacts
  <2>8. Recorded(Parent[b])' /\ Recorded(t)' /\ index'[b] = "undo"
    BY <1>2, <2>7, RecordedUndo DEF PutBlockIndex, CoreTypeOK
  <2>9. Recorded(b)'
    <3>1. ChainOf(b) = ChainOf(Parent[b]) \cup {b}
      BY ChildChain
    <3> QED BY <2>8, <3>1 DEF Recorded, ChainOf
  <2>10. Recorded(diskTip)' /\ Recorded(AncestorAt[blk][at])'
    BY <1>2, <2>1, <2>5, <2>6, <2>8, <2>9 DEF Recorded
  <2> QED BY <2>1, <2>10 DEF RecordInv, CommitSteps
<1>6. CASE ReorgTip
  <2>1. pc = "reorgTip" /\ pc' = "block" /\ diskTip' = blk /\ UNCHANGED <<index, bestBlock>>
    BY <1>6 DEF ReorgTip
  <2>2. at = Height[blk] /\ bestBlock = AncestorAt[blk][at] /\ Recorded(AncestorAt[blk][at])
    BY <2>1 DEF IInv, RisingInv, Rising, RecordInv
  <2>3. AncestorAt[blk][at] = blk
    BY <1>2, <2>2, OwnHeight
  <2>4. Recorded(diskTip)' /\ Recorded(bestBlock)'
    BY <2>1, <2>2, <2>3 DEF Recorded
  <2> QED BY <2>1, <2>4 DEF RecordInv, CommitSteps
<1> QED BY <1>3, <1>4, <1>5, <1>6

(* Every step keeps the records of the active chain.                       *)
LEMMA RecordStep ==
    ASSUME IInv, IInv', Harmless, WorkInv, RecordInv, Next
    PROVE  RecordInv'
<1>1. ~CommitFails /\ Genesis \in Block
  BY TreeFacts DEF Harmless
<1>2. CASE Step
  BY <1>1, <1>2, RecordStartStop, RecordBeside, RecordExtend, RecordTrial, RecordCommit DEF Step
<1>3. CASE Call \/ Fault
  BY <1>1, <1>3, RecordBeside, RecordExtend DEF Call, Fault
<1> QED BY <1>2, <1>3, RecordStartStop DEF Next

(* A step of nobody keeps the work list and the records.                   *)
LEMMA StutterWork ==
    ASSUME WorkInv, RecordInv, UNCHANGED vars
    PROVE  WorkInv' /\ RecordInv'
<1>1. UNCHANGED <<tip, orphans, index, diskTip, bestBlock, pc, batch, queue, blk, at>>
  BY DEF vars, memory, disk, work, locals
<1>2. WorkInv'
  BY <1>1 DEF WorkInv
<1>3. RecordInv'
  BY <1>1 DEF RecordInv, Recorded
<1> QED BY <1>2, <1>3

(* At the start there is nothing to do and nothing on disk.                *)
LEMMA InitSafe == Init => TypeOK /\ SafeInv
<1> SUFFICES ASSUME Init
             PROVE  TypeOK /\ SafeInv
  OBVIOUS
<1>1. IInv
  BY InitIInv
<1>2. ValidInv /\ RecordInv
  BY DEF Init, ValidInv, RecordInv, Extending, Trial, ReorgSteps, CommitSteps
<1>3. Range(<<>>) = {} /\ IsInjective(<<>>) /\ <<>> \in Seq(Block) /\ Len(<<>>) = 0
  BY SMT DEF Range, IsInjective
<1>4. WorkInv
  BY <1>3 DEF Init, WorkInv, Extending, ReorgSteps, CommitSteps
<1>5. 0 <= MaxOrphans
  BY SMT, ChainAssumption
<1>6. TypeOK
  BY <1>1, <1>3, <1>5 DEF TypeOK, Init, IInv
<1> QED BY <1>1, <1>2, <1>4, <1>6 DEF SafeInv

(* The whole invariant: replay, validity, the work list, the records, and  *)
(* the types, for every block tree and every order of delivery.            *)
THEOREM SafeInvariance ==
    ASSUME CommitsComplete
    PROVE  Spec => [](TypeOK /\ SafeInv)
<1>1. TypeOK /\ SafeInv /\ [Next]_vars => (TypeOK /\ SafeInv)'
  <2> SUFFICES ASSUME TypeOK, SafeInv, [Next]_vars
               PROVE  TypeOK' /\ SafeInv'
    OBVIOUS
  <2>1. IInv /\ ValidInv /\ WorkInv /\ RecordInv
    BY DEF SafeInv
  <2>2. IInv'
    BY <2>1, CompleteIsHarmless, NextIInv, StutterIInv
  <2>3. TypeOK'
    BY <2>2, PoolStep DEF IInv
  <2>4. ValidInv'
    BY <2>1, <2>2, CompleteIsHarmless, NextValid, StutterValid
  <2>5. WorkInv'
    BY <2>1, WorkStep, StutterWork
  <2>6. RecordInv'
    BY <2>1, <2>2, CompleteIsHarmless, RecordStep, StutterWork
  <2> QED BY <2>2, <2>3, <2>4, <2>5, <2>6 DEF SafeInv
<1> QED BY <1>1, InitSafe, PTL DEF Spec

(* Types, and the pool of orphans: within its bound and without a          *)
(* duplicate (addOrphan, evictOldestOrphan, processOrphans).               *)
THEOREM TypeCorrect ==
    ASSUME CommitsComplete
    PROVE  Spec => []TypeOK
  BY SafeInvariance, PTL

(* Whenever c.mu is free, every block of the active chain can be           *)
(* disconnected with the undo data on disk: no side-chain record, failed   *)
(* reorganisation or crash ever replaces a record of that chain.           *)
THEOREM AlwaysDisconnectable ==
    ASSUME CommitsComplete
    PROVE  Spec => []CanDisconnect
<1>1. SafeInv => CanDisconnect
  <2> SUFFICES ASSUME SafeInv, pc = "idle", NEW b \in ChainOf(tip) \ {Genesis}
               PROVE  index[b] = "undo" /\ undo[b] = UndoOf(UtxoAt[Parent[b]], b)
    BY DEF CanDisconnect
  <2>1. IInv /\ RecordInv /\ UndoIsRight
    BY DEF SafeInv, IInv
  <2>2. tip \in Block /\ Recorded(tip)
    BY <2>1, RecordTip
  <2>3. b \in Block /\ index[b] = "undo"
    BY <2>2, ChainInBlock DEF Recorded
  <2> QED BY <2>1, <2>3 DEF UndoIsRight
<1> QED BY <1>1, SafeInvariance, PTL

(* A stopped node can be started again: Init finds every record it walks   *)
(* and, where it replays, every coin that is spent.                        *)
THEOREM AlwaysRestarts ==
    ASSUME CommitsComplete
    PROVE  Spec => []RestartSucceeds
<1>1. SafeInv => RestartSucceeds
  <2> SUFFICES ASSUME SafeInv, pc = "off", diskTip # NoBlock
               PROVE  Recoverable
    BY DEF RestartSucceeds
  <2>1. ValidInv /\ RecordInv /\ pc \notin CommitSteps
    BY DEF SafeInv, CommitSteps
  <2>2. Recorded(diskTip) /\ Recorded(RecoveredTip) /\ ValidChain(RecoveredTip)
    BY <2>1 DEF RecordInv, ValidInv, RecoveredTip
  <2>3. Walkable(diskTip) /\ Walkable(RecoveredTip)
    BY <2>2 DEF Walkable, Recorded
  <2>4. Replayable(RecoveredTip)
    BY <2>2 DEF Replayable, ValidChain, TxInputsOk
  <2> QED BY <2>3, <2>4 DEF Recoverable
<1> QED BY <1>1, SafeInvariance, PTL

=============================================================================
