----------------------------- MODULE ChainProofs -----------------------------
(***************************************************************************)
(* Proofs about Chain: with commits that run to their end, the UTXO set,   *)
(* the chainstate, the maps and the recorded tip agree whenever the chain  *)
(* lock is free, for every block tree.                                     *)
(*                                                                         *)
(* First the steps of Chain keep the inductive invariant IInv: start-up    *)
(* and crashes, storing and extending, the calls that move no tip, and the *)
(* phases of reorg, which find the fork, try the new branch on a clone and *)
(* move the live set, the chainstate, the records and the maps one block   *)
(* at a time.  Then the types, and the theorems.                           *)
(***************************************************************************)
EXTENDS ChainInv, WellFoundedInduction, TLAPS

-----------------------------------------------------------------------------
(* What holds of every tree of blocks.                                     *)

(* Genesis and heights.                                                    *)
LEMMA TreeFacts ==
    /\ Genesis \in Block /\ NoBlock \notin Block
    /\ Parent[Genesis] = NoBlock /\ Height[Genesis] = 0 /\ AncestorAt[Genesis][0] = Genesis
    /\ \A b \in Block : Height[b] \in Nat /\ ChainWork[b] \in Nat
    /\ Heights \subseteq Nat
  BY TreeAssumption DEF Heights

(* The parent of a block is one lower and has less work.                   *)
LEMMA ParentFacts ==
    ASSUME NEW b \in Block \ {Genesis}
    PROVE  /\ Parent[b] \in Block /\ Height[b] = Height[Parent[b]] + 1
           /\ Height[b] \in Nat /\ Height[Parent[b]] \in Nat
           /\ ChainWork[Parent[b]] < ChainWork[b]
           /\ \A k \in 0..Height[Parent[b]] : AncestorAt[b][k] = AncestorAt[Parent[b]][k]
  BY TreeAssumption

(* A block is the top of its chain.                                        *)
LEMMA OwnHeight ==
    ASSUME NEW b \in Block
    PROVE  Height[b] \in Nat /\ AncestorAt[b][Height[b]] = b
  BY TreeAssumption

(* The chain of an ancestor is a prefix of the chain.                      *)
LEMMA PrefixFacts ==
    ASSUME NEW b \in Block, NEW h \in 0..Height[b], NEW k \in 0..h
    PROVE  AncestorAt[AncestorAt[b][h]][k] = AncestorAt[b][k]
  BY TreeAssumption

(* An ancestor of b is a block at its own height.                          *)
LEMMA AncestorFacts ==
    ASSUME NEW b \in Block, NEW h \in 0..Height[b]
    PROVE  /\ AncestorAt[b][h] \in Block /\ Height[AncestorAt[b][h]] = h
           /\ ChainWork[AncestorAt[b][h]] <= ChainWork[b]
           /\ h \in Heights
  BY TreeAssumption DEF Heights

(* A chain consists of blocks.                                             *)
LEMMA ChainInBlock ==
    ASSUME NEW b \in Block
    PROVE  ChainOf(b) \subseteq Block
  BY AncestorFacts DEF ChainOf

(* One step down the chain of b is the parent link.                        *)
LEMMA AncestorParent ==
    ASSUME NEW b \in Block, NEW h \in 1..Height[b]
    PROVE  /\ AncestorAt[b][h] \in Block \ {Genesis}
           /\ Parent[AncestorAt[b][h]] = AncestorAt[b][h - 1]
<1> DEFINE x == AncestorAt[b][h]
<1>1. Height[b] \in Nat
  BY OwnHeight
<1>2. h \in 0..Height[b] /\ h - 1 \in 0..h /\ h \in Nat /\ h - 1 \in Nat /\ h # 0
  BY <1>1
<1>3. x \in Block /\ Height[x] = h
  BY <1>2, AncestorFacts
<1>4. AncestorAt[x][h - 1] = AncestorAt[b][h - 1]
  BY <1>2, PrefixFacts
<1> HIDE DEF x
<1>5. x \in Block \ {Genesis}
  BY <1>2, <1>3, TreeFacts
<1>6. Parent[x] \in Block /\ Height[Parent[x]] = h - 1 /\ h - 1 \in 0..Height[Parent[x]]
  <2>1. Parent[x] \in Block /\ h = Height[Parent[x]] + 1 /\ Height[Parent[x]] \in Nat
    BY <1>3, <1>5, ParentFacts
  <2> QED BY <2>1
<1>7. AncestorAt[x][h - 1] = AncestorAt[Parent[x]][h - 1]
  BY <1>5, <1>6, ParentFacts
<1>8. AncestorAt[Parent[x]][h - 1] = Parent[x]
  BY <1>6, OwnHeight
<1> QED BY <1>4, <1>5, <1>7, <1>8 DEF x

(* Two chains that agree at a height agree below it.                       *)
LEMMA SharedPrefix ==
    ASSUME NEW a \in Block, NEW b \in Block, NEW f \in Nat,
           f <= Height[a], f <= Height[b], AncestorAt[a][f] = AncestorAt[b][f]
    PROVE  \A k \in 0..f : AncestorAt[a][k] = AncestorAt[b][k]
<1>1. f \in 0..Height[a] /\ f \in 0..Height[b]
  BY OwnHeight
<1> QED BY <1>1, PrefixFacts

(* The chain of a block is the chain of its parent and the block.          *)
LEMMA ChildChain ==
    ASSUME NEW b \in Block \ {Genesis}
    PROVE  /\ Parent[b] \in Block /\ Height[b] = Height[Parent[b]] + 1 /\ Height[b] \in Nat
           /\ Height[Parent[b]] \in Nat
           /\ AncestorAt[b][Height[b]] = b
           /\ \A k \in 0..Height[Parent[b]] : AncestorAt[b][k] = AncestorAt[Parent[b]][k]
           /\ ChainOf(b) = ChainOf(Parent[b]) \cup {b}
           /\ [ByHeight(Parent[b]) EXCEPT ![Height[b]] = b] = ByHeight(b)
<1>1. /\ Parent[b] \in Block /\ Height[b] = Height[Parent[b]] + 1 /\ Height[b] \in Nat
      /\ Height[Parent[b]] \in Nat
  BY ParentFacts
<1>2. /\ AncestorAt[b][Height[b]] = b
      /\ \A k \in 0..Height[Parent[b]] : AncestorAt[b][k] = AncestorAt[Parent[b]][k]
  BY ParentFacts, OwnHeight
<1>3. ChainOf(b) = ChainOf(Parent[b]) \cup {b}
  <2>1. 0..Height[b] = (0..Height[Parent[b]]) \cup {Height[b]}
    BY <1>1
  <2> QED BY <1>2, <2>1 DEF ChainOf
<1>4. [ByHeight(Parent[b]) EXCEPT ![Height[b]] = b] = ByHeight(b)
  <2>1. Heights \subseteq Nat
    BY TreeFacts
  <2>2. \A k \in Heights : [ByHeight(Parent[b]) EXCEPT ![Height[b]] = b][k] = ByHeight(b)[k]
    BY <1>1, <1>2, <2>1 DEF ByHeight
  <2> QED BY <2>2 DEF ByHeight
<1> QED BY <1>1, <1>2, <1>3, <1>4

(* A block with more work than the tip is not on the tip's chain.          *)
LEMMA HeavierIsOff ==
    ASSUME NEW t \in Block, NEW b \in Block, ChainWork[b] > ChainWork[t]
    PROVE  b \notin ChainOf(t)
<1>1. \A x \in ChainOf(t) : ChainWork[x] <= ChainWork[t]
  BY AncestorFacts DEF ChainOf
<1> QED BY <1>1, TreeAssumption

(* The map that Init builds walking back from a tip is a hashByHeight.     *)
LEMMA ByHeightType ==
    ASSUME NEW b \in Block
    PROVE  ByHeight(b) \in [Heights -> Block \cup {NoBlock}]
  BY TreeAssumption DEF ByHeight, Heights

(* Every inhabited set of natural numbers has a least element.             *)
LEMMA Least ==
    ASSUME NEW T, T \subseteq Nat, T # {}
    PROVE  \E x \in T : \A y \in T : x <= y
<1>1. \E x \in T : \A y \in T : ~(<<y, x>> \in OpToRel(<, Nat))
  BY WFMin, NatLessThanWellFounded
<1>2. PICK x \in T : \A y \in T : ~(<<y, x>> \in OpToRel(<, Nat))
  BY <1>1
<1>3. \A y \in T : ~(y < x)
  BY <1>2 DEF OpToRel
<1>4. x \in Nat /\ \A y \in T : y \in Nat
  OBVIOUS
<1>5. \A y \in T : x <= y
  BY SMT, <1>3, <1>4
<1> QED BY <1>5

(* First-order steps; a leaf that needs arithmetic or functions cites SMT. *)
USE Zenon

-----------------------------------------------------------------------------
(* UTXO sets.                                                              *)

(* Connecting and disconnecting a block yields a UTXO set                  *)
(* (utxo.Set.ConnectBlock, DisconnectBlock).                               *)
LEMMA SetTypes ==
    ASSUME NEW b \in Block, NEW s \in UtxoSets, NEW u \in UtxoSets
    PROVE  /\ Connect(s, b) \in UtxoSets /\ UndoOf(s, b) \in UtxoSets
           /\ Disconnect(s, b, u) \in UtxoSets /\ NoCoins \in UtxoSets
           /\ UtxoAt[b] \in UtxoSets
  BY SMT, TreeAssumption, CoinAssumption
  DEF Connect, UndoOf, Disconnect, NoCoins, UtxoSets, Absent

(* Connecting a block to the replay of its parent's chain is the replay of *)
(* its own.                                                                *)
LEMMA ConnectReplay ==
    ASSUME NEW b \in Block \ {Genesis}
    PROVE  Connect(UtxoAt[Parent[b]], b) = UtxoAt[b]
  BY CoinAssumption

(* DisconnectBlock with the undo data of ConnectBlock is its inverse.      *)
LEMMA DisconnectReplay ==
    ASSUME NEW b \in Block \ {Genesis}
    PROVE  Disconnect(UtxoAt[b], b, UndoOf(UtxoAt[Parent[b]], b)) = UtxoAt[Parent[b]]
<1> DEFINE s == UtxoAt[Parent[b]]
           u == UndoOf(s, b)
<1>1. s \in [Coin -> Int] /\ Spends[b] \cap Creates[b] = {} /\ UtxoAt[b] = Connect(s, b)
      /\ \A c \in Creates[b] : s[c] = Absent
  BY CoinAssumption, ParentFacts DEF UtxoSets
<1>2. \A c \in Coin : Disconnect(UtxoAt[b], b, u)[c] = s[c]
  BY <1>1 DEF Disconnect, UndoOf, Connect
<1> QED BY <1>1, <1>2 DEF Disconnect

-----------------------------------------------------------------------------
(* The chainstate batches.                                                 *)

(* The batch of persistUtxoChanges takes the chainstate from the replay of *)
(* the parent to the replay of the block.                                  *)
LEMMA PersistReplay ==
    ASSUME NEW b \in Block \ {Genesis}, coins = UtxoAt[Parent[b]],
           PersistConnect(b, UndoOf(UtxoAt[Parent[b]], b), UtxoAt[b])
    PROVE  coins' = UtxoAt[b] /\ bestBlock' = b
<1> DEFINE s == UtxoAt[Parent[b]]
<1>1. s \in [Coin -> Int] /\ Spends[b] \cap Creates[b] = {} /\ UtxoAt[b] = Connect(s, b)
      /\ \A c \in Creates[b] : s[c] = Absent
  BY CoinAssumption, ParentFacts DEF UtxoSets
<1>2. Height[b] # Absent
  BY SMT, ParentFacts DEF Absent
<1>3. \A c \in Coin : coins'[c] = UtxoAt[b][c]
  BY <1>1, <1>2 DEF PersistConnect, UndoOf, Connect
<1>4. coins' = [c \in Coin |-> coins'[c]] /\ UtxoAt[b] = [c \in Coin |-> UtxoAt[b][c]]
  BY <1>1 DEF PersistConnect, Connect
<1> QED BY <1>3, <1>4 DEF PersistConnect

(* Flushing a set to an empty chainstate, or to one that already equals    *)
(* it, leaves that set.                                                    *)
LEMMA FlushReplay ==
    ASSUME NEW b \in Block, coins = NoCoins \/ coins = UtxoAt[b], FlushUtxoSet(UtxoAt[b], b)
    PROVE  coins' = UtxoAt[b] /\ bestBlock' = b
<1>1. UtxoAt[b] \in [Coin -> Int]
  BY CoinAssumption DEF UtxoSets
<1>2. \A c \in Coin : coins'[c] = UtxoAt[b][c]
  BY <1>1 DEF FlushUtxoSet, NoCoins
<1>3. coins' = [c \in Coin |-> coins'[c]]
  BY DEF FlushUtxoSet
<1> QED BY <1>1, <1>2, <1>3 DEF FlushUtxoSet

(* The chainstate batches leave a UTXO set and the best block they name    *)
(* (persistUtxoChanges, persistUtxoDisconnect, flushUtxoSetToChainstate).  *)
LEMMA BatchTypes ==
    ASSUME NEW b \in Block, NEW s \in UtxoSets, NEW u \in UtxoSets, coins \in UtxoSets
    PROVE  /\ PersistConnect(b, u, s) => coins' \in UtxoSets /\ bestBlock' = b
           /\ PersistDisconnect(b, u) => coins' \in UtxoSets /\ bestBlock' = Parent[b]
           /\ FlushUtxoSet(s, b) => coins' \in UtxoSets /\ bestBlock' = b
  BY SMT DEF PersistConnect, PersistDisconnect, Disconnect, FlushUtxoSet, UtxoSets, Absent

-----------------------------------------------------------------------------
(* The steps.                                                              *)

(* Undo data stays right when no record gains it.                          *)
LEMMA UndoKept ==
    ASSUME UndoIsRight, undo' = undo, \A b \in Block : index'[b] = "undo" => index[b] = "undo"
    PROVE  UndoIsRight'
  BY DEF UndoIsRight

(* Between two steps of processBlock, and while the lock is free, the      *)
(* invariant says that everything is at the tip.                           *)
LEMMA Settled ==
    ASSUME CoreTypeOK', UndoIsRight', pc' \in {"idle", "block"}, old' = {},
           tip' # NoBlock, diskTip' = tip', bestBlock' = tip',
           utxo' = UtxoAt[tip'], coins' = UtxoAt[tip'],
           main' = ByHeight(tip'), ChainOf(tip') \subseteq known'
    PROVE  IInv'
  BY DEF IInv, RunningInv, AtTip, ReorgSteps, CommitSteps, Extending, Trial, Rising,
         ByHeight, ChainOf

(* A stopped process: the invariant is about the databases.                *)
LEMMA Stopped ==
    ASSUME CoreTypeOK', UndoIsRight', pc' = "off", old' = {}, StoppedInv',
           coins' = IF bestBlock' = NoBlock THEN NoCoins ELSE UtxoAt[bestBlock']
    PROVE  IInv'
  BY DEF IInv, AtTip, ReorgSteps, CommitSteps, Extending, Trial, Rising

(* Phases 0 and 1 of reorg: the live state is at the tip.                  *)
LEMMA Reorganising ==
    ASSUME CoreTypeOK', UndoIsRight', pc' \in ReorgSteps, old' = {}, RunningInv',
           bestBlock' = tip', utxo' = UtxoAt[tip'], coins' = UtxoAt[tip'],
           HeavierInv', pc' \in Trial => ForkInv' /\ TrialInv'
    PROVE  IInv'
<1>1. tip' # NoBlock
  BY DEF RunningInv
<1> QED BY <1>1 DEF IInv, AtTip, ReorgSteps, CommitSteps, Extending, Trial, Rising

(* Phase 2 of reorg: the live state is between the two tips.               *)
LEMMA Committing ==
    ASSUME CoreTypeOK', UndoIsRight', pc' \in CommitSteps, RunningInv',
           bestBlock' # NoBlock, coins' = UtxoAt[bestBlock'], HeavierInv', ForkInv',
           pc' = "disconnect" => FallingInv', pc' # "disconnect" => RisingInv'
    PROVE  IInv'
  BY DEF IInv, AtTip, ReorgSteps, CommitSteps, Extending, Trial, Rising

(* What the invariant says while the UTXO set is at the tip.               *)
LEMMA TipFacts ==
    ASSUME IInv, pc \in AtTip
    PROVE  /\ CoreTypeOK /\ UndoIsRight /\ old = {}
           /\ tip \in Block /\ diskTip = tip /\ bestBlock = tip
           /\ utxo = UtxoAt[tip] /\ coins = UtxoAt[tip]
           /\ main = ByHeight(tip) /\ ChainOf(tip) \subseteq known
  BY DEF IInv, RunningInv, AtTip, ReorgSteps, CommitSteps, Rising, CoreTypeOK

(* A step that moves neither the tip nor a UTXO set, and forgets no block  *)
(* of the active chain.                                                    *)
LEMMA QuietStep ==
    ASSUME IInv, CoreTypeOK', UndoIsRight', pc \in AtTip, pc' \in {"idle", "block"}, old' = {},
           UNCHANGED <<tip, main, utxo, diskTip, coins, bestBlock>>,
           ChainOf(tip) \subseteq known'
    PROVE  IInv'
<1>1. /\ tip \in Block /\ diskTip = tip /\ bestBlock = tip
      /\ utxo = UtxoAt[tip] /\ coins = UtxoAt[tip] /\ main = ByHeight(tip)
  BY TipFacts
<1>2. tip # NoBlock
  BY <1>1, TreeFacts
<1> QED BY <1>1, <1>2, Settled

(* Creating the genesis block, write by write.                             *)
LEMMA GenesisSteps ==
    ASSUME IInv, CoreTypeOK', InitGenesis \/ GenesisTip \/ GenesisUtxo
    PROVE  IInv'
<1> CoreTypeOK /\ UndoIsRight
  BY DEF IInv
<1>1. CASE InitGenesis
  <2>1. bestBlock = NoBlock /\ StoppedInv /\ coins = NoCoins /\ old = {}
    BY <1>1 DEF InitGenesis, IInv, StoppedInv, CommitSteps
  <2>2. UndoIsRight'
    BY <1>1, UndoKept DEF InitGenesis, PutBlockIndex, CoreTypeOK
  <2> QED BY <1>1, <2>1, <2>2
          DEF InitGenesis, IInv, StoppedInv, AtTip, ReorgSteps, CommitSteps, Extending, Trial,
              Rising, memory, locals
<1>2. CASE GenesisTip
  <2>1. bestBlock = NoBlock /\ main = [h \in Heights |-> NoBlock] /\ coins = NoCoins /\ old = {}
    BY <1>2 DEF GenesisTip, IInv, StoppedInv, CommitSteps
  <2>2. /\ Genesis \in Block /\ Height[Genesis] = 0 /\ AncestorAt[Genesis][0] = Genesis
        /\ Genesis # NoBlock /\ Heights \subseteq Nat
    BY TreeFacts
  <2>3. ChainOf(Genesis) \subseteq {Genesis}
    BY SMT, <2>2 DEF ChainOf
  <2>4. main' = ByHeight(Genesis)
    <3>1. \A h \in Heights : main'[h] = ByHeight(Genesis)[h]
      BY SMT, <1>2, <2>1, <2>2 DEF GenesisTip, ByHeight
    <3> QED BY <1>2, <2>1, <3>1 DEF GenesisTip, ByHeight
  <2>5. UndoIsRight'
    BY <1>2, UndoKept DEF GenesisTip
  <2>6. RunningInv'
    <3>1. ByHeight(tip)' = ByHeight(Genesis) /\ ChainOf(tip)' = ChainOf(Genesis)
      BY <1>2 DEF GenesisTip, ByHeight, ChainOf
    <3>2. /\ tip' = Genesis /\ diskTip' = Genesis /\ known' = {Genesis}
          /\ pc' = "genesisUtxo"
      BY <1>2 DEF GenesisTip
    <3> QED BY <2>2, <2>3, <2>4, <3>1, <3>2 DEF RunningInv
  <2> QED BY <1>2, <2>1, <2>5, <2>6
          DEF GenesisTip, IInv, AtTip, ReorgSteps, CommitSteps, Extending, Trial, Rising, locals
<1>3. CASE GenesisUtxo
  <2>1. /\ tip = Genesis /\ coins = NoCoins /\ utxo = UtxoAt[Genesis] /\ old = {}
        /\ diskTip = tip /\ main = ByHeight(tip) /\ ChainOf(tip) \subseteq known
    BY <1>3 DEF GenesisUtxo, IInv, RunningInv, CommitSteps, Rising
  <2>2. Genesis \in Block /\ Genesis # NoBlock
    BY TreeFacts
  <2>3. coins' = UtxoAt[Genesis] /\ bestBlock' = Genesis
    BY <1>3, <2>1, <2>2, FlushReplay DEF GenesisUtxo
  <2>4. UndoIsRight'
    BY <1>3, UndoKept DEF GenesisUtxo
  <2> QED BY <1>3, <2>1, <2>2, <2>3, <2>4, Settled DEF GenesisUtxo, memory, locals
<1> QED BY <1>1, <1>2, <1>3

(* Init brings a stopped node back with everything at one tip.             *)
LEMMA RestartStep ==
    ASSUME IInv, CoreTypeOK', Restart
    PROVE  IInv'
<1> CoreTypeOK /\ UndoIsRight
  BY DEF IInv
<1> DEFINE t == RecoveredTip
<1>1. /\ StoppedInv /\ old = {} /\ diskTip \in Block
      /\ coins = IF bestBlock = NoBlock THEN NoCoins ELSE UtxoAt[bestBlock]
  BY DEF Restart, IInv, CommitSteps, CoreTypeOK
<1>2. /\ t \in Block /\ t # NoBlock
      /\ bestBlock # NoBlock => bestBlock = t
  <2>1. CASE bestBlock = NoBlock
    BY <1>1, <2>1, TreeFacts DEF RecoveredTip
  <2>2. CASE bestBlock = diskTip
    BY <1>1, <2>2, TreeFacts DEF RecoveredTip
  <2>3. CASE bestBlock # NoBlock /\ bestBlock # diskTip
    <3>1. /\ bestBlock \in Block \ {Genesis} /\ Parent[bestBlock] = diskTip
          /\ index[bestBlock] # "absent"
      BY <1>1, <2>3 DEF StoppedInv, CoreTypeOK
    <3>2. Height[bestBlock] > Height[diskTip]
      BY SMT, <3>1, ChildChain
    <3> QED BY <2>3, <3>1, <3>2 DEF RecoveredTip
  <2> QED BY <2>1, <2>2, <2>3
<1>3. RecoveredUtxo = UtxoAt[t]
  BY <1>1, <1>2 DEF RecoveredUtxo
<1>4. coins' = UtxoAt[t] /\ bestBlock' = t
  <2>1. CASE bestBlock = t
    BY <2>1, <1>1, <1>2 DEF Restart
  <2>2. CASE bestBlock # t
    <3>1. coins = NoCoins
      BY <2>2, <1>1, <1>2
    <3>2. FlushUtxoSet(UtxoAt[t], t)
      BY <2>2, <1>3 DEF Restart, FlushUtxoSet
    <3> QED BY <3>1, <3>2, <1>2, FlushReplay
  <2> QED BY <2>1, <2>2
<1>5. ChainOf(t) \subseteq known'
  <2>1. ChainOf(t) \subseteq Block
    BY <1>2, ChainInBlock
  <2> QED BY <2>1 DEF Restart, Recoverable, Walkable
<1>6. UndoIsRight'
  BY UndoKept DEF Restart
<1>7. /\ tip' = t /\ diskTip' = t /\ utxo' = UtxoAt[t] /\ main' = ByHeight(t) /\ old' = {}
      /\ pc' = "idle"
  BY <1>1, <1>3 DEF Restart, locals
<1> HIDE DEF t
<1> QED BY <1>2, <1>4, <1>5, <1>6, <1>7, Settled

(* A crash leaves databases from which Init recovers.                      *)
LEMMA CrashStep ==
    ASSUME IInv, Harmless, CoreTypeOK', Crash
    PROVE  IInv'
<1> CoreTypeOK /\ UndoIsRight
  BY DEF IInv
<1>1. pc \in (Steps \ CommitSteps) \ {"off"}
  BY DEF Crash, Harmless, CoreTypeOK
<1>2. bestBlock # NoBlock =>
          /\ diskTip # NoBlock
          /\ \/ bestBlock = diskTip
             \/ /\ bestBlock # Genesis /\ Parent[bestBlock] = diskTip
                /\ index[bestBlock] # "absent"
  <2>1. CASE pc \in {"genesisTip", "genesisUtxo"}
    BY <2>1 DEF IInv, StoppedInv
  <2>2. CASE pc \in AtTip
    BY <2>2, TipFacts
  <2>3. CASE pc \in Extending
    BY <2>3 DEF Extending, IInv, ExtendingInv, RunningInv
  <2> QED BY <1>1, <2>1, <2>2, <2>3 DEF Steps, AtTip, Extending
<1>3. UndoIsRight'
  BY UndoKept DEF Crash, disk
<1>4. StoppedInv'
  BY <1>2 DEF StoppedInv, Crash, disk
<1>5. /\ coins = IF bestBlock = NoBlock THEN NoCoins ELSE UtxoAt[bestBlock]
      /\ coins' = coins /\ bestBlock' = bestBlock /\ old' = {} /\ pc' = "off"
  BY DEF IInv, Crash, disk, NoReorg
<1> QED BY <1>3, <1>4, <1>5, Stopped

(* The steps that store, drop or forget a block: the active chain stays.   *)
LEMMA QuietSteps ==
    ASSUME IInv, CoreTypeOK', NEW b \in Block,
           \/ ProcessBlock(b) \/ AddOrphan(b) \/ EvictExpiredOrphans \/ NextParent
           \/ RejectBlock(b) \/ StoreFails(b) \/ SideChain(b) \/ SideIndexLost(b)
    PROVE  IInv'
<1>1. pc \in {"idle", "block"}
  BY DEF ProcessBlock, AddOrphan, EvictExpiredOrphans, NextParent, RejectBlock, StoreFails,
         SideChain, SideIndexLost, Candidate
<1>2. pc \in AtTip
  BY <1>1 DEF AtTip
<1>3. CoreTypeOK /\ UndoIsRight /\ old = {} /\ ChainOf(tip) \subseteq known
  BY <1>2, TipFacts
<1>4. /\ pc' \in {"idle", "block"} /\ old' = {} /\ ChainOf(tip) \subseteq known'
      /\ UNCHANGED <<tip, main, utxo, diskTip, coins, bestBlock, undo>>
  BY <1>1, <1>3
  DEF ProcessBlock, AddOrphan, EvictExpiredOrphans, NextParent, RejectBlock, StoreFails,
      SideChain, SideIndexLost, memory, disk, locals
<1>5. \A x \in Block : index'[x] = "undo" => index[x] = "undo"
  BY <1>3
  DEF ProcessBlock, AddOrphan, EvictExpiredOrphans, NextParent, RejectBlock, StoreFails,
      SideChain, SideIndexLost, PutBlockIndex, CoreTypeOK, disk
<1>6. UndoIsRight'
  BY <1>3, <1>4, <1>5, UndoKept
<1> QED BY <1>2, <1>4, <1>6, QuietStep

(* pruneSideChainIndex keeps the active chain.                             *)
LEMMA ReturnStep ==
    ASSUME IInv, CoreTypeOK', Return
    PROVE  IInv'
<1>1. pc \in AtTip
  BY DEF Return, AtTip
<1>2. /\ UndoIsRight /\ old = {} /\ tip \in Block
      /\ main = ByHeight(tip) /\ ChainOf(tip) \subseteq known
  BY <1>1, TipFacts
<1>3. \A h \in 0..Height[tip] : AncestorAt[tip][h] \in Pruned
  <2> TAKE h \in 0..Height[tip]
  <2>1. Height[AncestorAt[tip][h]] = h /\ h \in Heights /\ Height[tip] \in Nat
    BY <1>2, AncestorFacts, TreeFacts
  <2>2. main[h] = AncestorAt[tip][h]
    BY SMT, <1>2, <2>1 DEF ByHeight
  <2>3. AncestorAt[tip][h] \in known
    BY <1>2 DEF ChainOf
  <2> QED BY <2>1, <2>2, <2>3 DEF Pruned
<1>4. ChainOf(tip) \subseteq known'
  BY <1>2, <1>3 DEF Return, ChainOf
<1>5. UndoIsRight'
  BY <1>2, UndoKept DEF Return, disk
<1> QED BY <1>1, <1>2, <1>4, <1>5, QuietStep DEF Return, disk, locals

(* Rescanning rewrites the chainstate with what it already holds.          *)
LEMMA RescanStep ==
    ASSUME IInv, CoreTypeOK', RescanUTXOSet
    PROVE  IInv'
<1>1. pc \in AtTip
  BY DEF RescanUTXOSet, AtTip
<1>2. /\ UndoIsRight /\ old = {} /\ tip \in Block /\ diskTip = tip /\ coins = UtxoAt[tip]
      /\ main = ByHeight(tip) /\ ChainOf(tip) \subseteq known
  BY <1>1, TipFacts
<1>3. coins' = UtxoAt[tip] /\ bestBlock' = tip
  BY <1>2, FlushReplay DEF RescanUTXOSet
<1>4. UndoIsRight'
  BY <1>2, UndoKept DEF RescanUTXOSet
<1>5. /\ tip' = tip /\ diskTip' = tip /\ main' = main /\ known' = known /\ utxo' = UtxoAt[tip]
      /\ old' = {} /\ pc' = "idle" /\ tip # NoBlock
  BY <1>2, TreeFacts DEF RescanUTXOSet, locals
<1> QED BY <1>2, <1>3, <1>4, <1>5, Settled

(* Connecting a child of the tip: its index record, the chainstate batch,  *)
(* the chain tip.                                                          *)
LEMMA ExtendSteps ==
    ASSUME IInv, Harmless, CoreTypeOK',
           (\E b \in Block : ExtendIndex(b)) \/ ExtendUtxo \/ ExtendTip \/ ExtendFails
    PROVE  IInv'
<1> CoreTypeOK /\ UndoIsRight
  BY DEF IInv
<1>1. ASSUME NEW b \in Block, ExtendIndex(b)
      PROVE  IInv'
  <2>1. pc \in AtTip
    BY <1>1 DEF ExtendIndex, Candidate, AtTip
  <2>2. /\ old = {} /\ tip \in Block /\ diskTip = tip /\ bestBlock = tip
        /\ utxo = UtxoAt[tip] /\ coins = UtxoAt[tip]
        /\ main = ByHeight(tip) /\ ChainOf(tip) \subseteq known
    BY <2>1, TipFacts
  <2>3. b # Genesis /\ b # NoBlock /\ Parent[b] = tip /\ tip # NoBlock
    BY <1>1, <2>2, TreeFacts DEF ExtendIndex
  <2>4. utxo' = UtxoAt[b] /\ undo'[b] = UndoOf(UtxoAt[Parent[b]], b) /\ index'[b] = "undo"
    BY <1>1, <2>2, <2>3, ConnectReplay DEF ExtendIndex, PutBlockIndex, CoreTypeOK
  <2>5. UndoIsRight'
    BY <1>1, <2>4 DEF UndoIsRight, ExtendIndex, PutBlockIndex, CoreTypeOK
  <2>6. RunningInv'
    BY <1>1, <2>2, <2>3 DEF RunningInv, ExtendIndex, ByHeight, ChainOf
  <2>7. ExtendingInv'
    BY <1>1, <2>2, <2>3, <2>4 DEF ExtendingInv, ExtendIndex
  <2> QED BY <1>1, <2>2, <2>3, <2>5, <2>6, <2>7
          DEF IInv, ExtendIndex, AtTip, ReorgSteps, CommitSteps, Extending, Trial, Rising
<1>2. ASSUME pc \in Extending
      PROVE  /\ RunningInv /\ ExtendingInv /\ old = {} /\ blk \in Block \ {Genesis}
             /\ Parent[blk] = tip /\ utxo = UtxoAt[blk] /\ index[blk] = "undo"
             /\ undo[blk] = UndoOf(UtxoAt[tip], blk) /\ main = ByHeight(tip)
             /\ bestBlock # NoBlock /\ coins = UtxoAt[bestBlock]
  <2>1. RunningInv /\ ExtendingInv /\ old = {} /\ main = ByHeight(tip) /\ bestBlock # NoBlock
    BY <1>2 DEF IInv, Extending, CommitSteps, Rising, RunningInv
  <2>2. coins = UtxoAt[bestBlock]
    BY <2>1 DEF IInv
  <2> QED BY <2>1, <2>2 DEF ExtendingInv, UndoIsRight, CoreTypeOK
<1>3. CASE ExtendUtxo
  <2>1. pc \in Extending /\ pc = "extendUtxo"
    BY <1>3 DEF ExtendUtxo, Extending
  <2>2. coins' = UtxoAt[blk] /\ bestBlock' = blk
    BY <1>2, <1>3, <2>1, PersistReplay DEF ExtendUtxo, ExtendingInv
  <2>3. UndoIsRight'
    BY <1>3, UndoKept DEF ExtendUtxo
  <2>4. RunningInv'
    <3>1. UNCHANGED <<tip, known, main, diskTip>> /\ pc' = "extendTip" /\ bestBlock' # NoBlock
      BY <1>2, <1>3, <2>1, <2>2, TreeFacts DEF ExtendUtxo, memory
    <3>2. RunningInv /\ main = ByHeight(tip)
      BY <1>2, <2>1
    <3> QED BY <3>1, <3>2 DEF RunningInv, ByHeight, ChainOf
  <2>5. ExtendingInv'
    <3>1. UNCHANGED <<tip, utxo, index, blk>> /\ pc' = "extendTip"
      BY <1>3 DEF ExtendUtxo, memory, locals
    <3>2. ExtendingInv
      BY <1>2, <2>1
    <3> QED BY <2>2, <3>1, <3>2 DEF ExtendingInv
  <2>6. old' = {} /\ pc' = "extendTip" /\ blk # NoBlock
    BY <1>2, <1>3, <2>1, TreeFacts DEF ExtendUtxo, locals
  <2> QED BY <2>2, <2>3, <2>4, <2>5, <2>6
          DEF IInv, AtTip, ReorgSteps, CommitSteps, Extending, Trial, Rising
<1>4. CASE ExtendTip
  <2>1. pc \in Extending /\ pc = "extendTip"
    BY <1>4 DEF ExtendTip, Extending
  <2>2. bestBlock = blk /\ coins = UtxoAt[blk] /\ blk # NoBlock
    BY <1>2, <2>1 DEF ExtendingInv
  <2>3. blk \in Block \ {Genesis} /\ Parent[blk] = tip /\ main = ByHeight(tip)
        /\ ChainOf(tip) \subseteq known
    BY <1>2, <2>1 DEF RunningInv
  <2>4. main' = ByHeight(blk)
    BY <1>4, <2>3, ChildChain DEF ExtendTip
  <2>5. ChainOf(blk) \subseteq known'
    BY <1>4, <2>3, ChildChain DEF ExtendTip
  <2>6. tip' = blk /\ diskTip' = blk /\ bestBlock' = blk /\ utxo' = UtxoAt[blk]
        /\ coins' = UtxoAt[blk] /\ pc' = "block" /\ old' = {}
    BY <1>2, <1>4, <2>1, <2>2 DEF ExtendTip, NoReorg
  <2>7. UndoIsRight'
    BY <1>4, UndoKept DEF ExtendTip
  <2> QED BY <2>2, <2>4, <2>5, <2>6, <2>7, Settled
<1>5. CASE ExtendFails
  <2>1. pc \in Extending /\ pc = "extendUtxo"
    BY <1>5 DEF ExtendFails, Extending, Harmless
  <2>2. utxo' = UtxoAt[tip]
    BY <1>2, <1>5, <2>1, DisconnectReplay DEF ExtendFails
  <2>3. bestBlock = tip /\ coins = UtxoAt[tip] /\ diskTip = tip /\ tip # NoBlock
    BY <1>2, <2>1 DEF ExtendingInv, RunningInv
  <2>4. UndoIsRight'
    BY <1>5, UndoKept DEF ExtendFails, disk
  <2>5. /\ tip' = tip /\ diskTip' = tip /\ bestBlock' = tip /\ coins' = coins /\ old' = {}
        /\ main' = main /\ known' = known /\ pc' = "block" /\ ChainOf(tip) \subseteq known
    BY <1>2, <1>5, <2>1, <2>3 DEF ExtendFails, disk, NoReorg, RunningInv
  <2> QED BY <1>2, <2>1, <2>2, <2>3, <2>4, <2>5, Settled
<1> QED BY <1>1, <1>3, <1>4, <1>5

-----------------------------------------------------------------------------
(* reorg: facts that every phase uses.                                     *)

(* What the invariant says of the two tips.                                *)
LEMMA ReorgTypes ==
    ASSUME IInv, pc \in ReorgSteps \cup CommitSteps
    PROVE  /\ CoreTypeOK /\ UndoIsRight /\ RunningInv /\ HeavierInv
           /\ tip \in Block /\ Height[tip] \in Nat /\ blk \in Block \ {Genesis} /\ Height[blk] \in Nat
           /\ fork \in Nat /\ at \in Nat
<1>1. CoreTypeOK /\ UndoIsRight /\ RunningInv /\ HeavierInv
  BY DEF IInv, CommitSteps, ReorgSteps
<1>2. tip \in Block /\ blk \in Block \ {Genesis} /\ fork \in Nat /\ at \in Nat
  BY <1>1 DEF RunningInv, HeavierInv, CoreTypeOK
<1> QED BY <1>1, <1>2, TreeFacts

(* What it says of the fork.                                               *)
LEMMA ForkFacts ==
    ASSUME IInv, pc \in Trial \cup CommitSteps
    PROVE  /\ pc \in ReorgSteps \cup CommitSteps /\ ForkInv
           /\ fork <= Height[tip] /\ fork < Height[blk]
           /\ AncestorAt[blk][fork] = AncestorAt[tip][fork]
<1>1. pc \in ReorgSteps \cup CommitSteps /\ ForkInv
  BY DEF IInv, Trial, CommitSteps, ReorgSteps
<1> QED BY <1>1 DEF ForkInv

(* What it says of the chainstate while phase 2 moves it.                  *)
LEMMA CommitFacts ==
    ASSUME IInv, pc \in CommitSteps
    PROVE  bestBlock # NoBlock /\ coins = UtxoAt[bestBlock]
<1>1. bestBlock # NoBlock
  BY DEF IInv, RunningInv, CommitSteps
<1> QED BY <1>1 DEF IInv

(* The fork stays while the two tips do.                                   *)
LEMMA ForkKept ==
    ASSUME ForkInv, HeavierInv, UNCHANGED <<tip, blk, fork>>
    PROVE  ForkInv' /\ HeavierInv'
  BY DEF ForkInv, HeavierInv

(* The two tips agree while only the maps gain blocks.                     *)
LEMMA RunningKept ==
    ASSUME RunningInv, UNCHANGED <<tip, diskTip>>, known \subseteq known', bestBlock' # NoBlock,
           pc' \notin Rising => main' = ByHeight(tip)
    PROVE  RunningInv'
<1>1. ByHeight(tip)' = ByHeight(tip) /\ ChainOf(tip)' = ChainOf(tip)
  BY DEF ByHeight, ChainOf
<1>2. tip # NoBlock /\ diskTip = tip /\ ChainOf(tip) \subseteq known
  BY DEF RunningInv
<1> QED BY <1>1, <1>2 DEF RunningInv

(* When phase 2 turns upwards the maps are still those of the old tip.     *)
LEMMA MapsStart ==
    ASSUME fork \in Nat, main = ByHeight(tip), UNCHANGED <<tip, known, main, blk, fork>>, at' = fork
    PROVE  MapsUpTo(at)'
<1>1. (fork + 1)..fork = {} /\ \A k \in Heights : ~(k > fork /\ k <= fork)
  <2>1. (fork + 1)..fork = {} /\ \A k \in Nat : ~(k > fork /\ k <= fork)
    BY SMT
  <2> QED BY <2>1, TreeFacts
<1>2. main = [k \in Heights |->
                IF k > fork /\ k <= fork THEN AncestorAt[blk][k]
                ELSE IF k <= Height[tip] THEN AncestorAt[tip][k] ELSE NoBlock]
  BY SMT, <1>1 DEF ByHeight
<1> QED BY <1>1, <1>2 DEF MapsUpTo

-----------------------------------------------------------------------------
(* Phases 0 and 1.                                                         *)

(* A heavier block on another branch is stored, or was stored before, and  *)
(* reorg is called.                                                        *)
LEMMA ReorgIndexStep ==
    ASSUME IInv, CoreTypeOK', NEW b \in Block, ReorgIndex(b) \/ ReorgIndexLost(b)
    PROVE  IInv'
<1>1. pc \in AtTip /\ Candidate(b) /\ ChainWork[b] > ChainWork[tip]
  BY DEF ReorgIndex, ReorgIndexLost, Candidate, AtTip
<1>2. /\ CoreTypeOK /\ UndoIsRight /\ old = {} /\ tip \in Block /\ diskTip = tip
      /\ bestBlock = tip /\ utxo = UtxoAt[tip] /\ coins = UtxoAt[tip]
      /\ main = ByHeight(tip) /\ ChainOf(tip) \subseteq known
  BY <1>1, TipFacts
<1>3. b # NoBlock /\ b # Genesis /\ tip # NoBlock
  <2>1. Parent[b] \in Block
    BY <1>1, <1>2 DEF Candidate, ParentKnown, CoreTypeOK
  <2> QED BY <1>2, <2>1, TreeFacts
<1>4. UndoIsRight'
  <2>1. undo' = undo /\ \A x \in Block : index'[x] = "undo" => index[x] = "undo"
    <3>1. CASE ReorgIndex(b)
      BY <1>2, <3>1 DEF ReorgIndex, PutBlockIndex, CoreTypeOK
    <3>2. CASE ReorgIndexLost(b)
      BY <3>2 DEF ReorgIndexLost, disk
    <3> QED BY <3>1, <3>2
  <2> QED BY <1>2, <2>1, UndoKept
<1>5. /\ UNCHANGED <<tip, main, utxo, diskTip, coins, bestBlock, old>> /\ known \subseteq known'
      /\ blk' = b /\ pc' = "fork"
  BY DEF ReorgIndex, ReorgIndexLost, disk
<1>6. RunningInv'
  <2>1. RunningInv
    BY <1>1 DEF IInv, AtTip, ReorgSteps
  <2> QED BY <1>2, <1>3, <1>5, <2>1, RunningKept
<1>7. HeavierInv'
  BY <1>1, <1>3, <1>5 DEF HeavierInv
<1>8. pc' \in ReorgSteps /\ pc' \notin Trial
  BY <1>5 DEF ReorgSteps, Trial
<1> QED BY <1>2, <1>4, <1>5, <1>6, <1>7, <1>8, Reorganising

(* A reorganisation that is too deep, or that the trial rejects, changes   *)
(* nothing but what is known of the new branch.                            *)
LEMMA RefusedReorg ==
    ASSUME IInv, CoreTypeOK', TrialFails \/ \E h \in Heights : ReorgTooDeep(h)
    PROVE  IInv'
<1>1. pc \in ReorgSteps \cup CommitSteps /\ pc \in AtTip
  BY DEF TrialFails, ReorgTooDeep, ReorgSteps, AtTip
<1>2. /\ CoreTypeOK /\ UndoIsRight /\ tip \in Block
      /\ blk \in Block /\ ChainWork[blk] > ChainWork[tip]
  BY <1>1, ReorgTypes DEF HeavierInv
<1>3. blk \notin ChainOf(tip) /\ ChainOf(tip) \subseteq known
  BY <1>1, <1>2, TipFacts, HeavierIsOff
<1>4. /\ pc' = "block" /\ old' = {} /\ UNCHANGED <<tip, main, utxo, diskTip, coins, bestBlock, undo>>
  BY DEF TrialFails, ReorgTooDeep, AbortReorg, NoReorg, disk
<1>5. ChainOf(tip) \subseteq known'
  BY <1>3 DEF TrialFails, ReorgTooDeep, AbortReorg
<1>6. \A b \in Block : index'[b] = "undo" => index[b] = "undo"
  BY <1>2 DEF TrialFails, ReorgTooDeep, AbortReorg, DeleteBlockIndex, PutBlockIndex, disk, CoreTypeOK
<1>7. UndoIsRight'
  BY <1>2, <1>4, <1>6, UndoKept
<1> QED BY <1>1, <1>4, <1>5, <1>7, QuietStep

(* The fork that phase 0 of reorg finds is where the two chains part.      *)
LEMMA ForkFound ==
    ASSUME NEW t \in Block, NEW b \in Block, NEW h \in Heights, ChainWork[b] > ChainWork[t],
           ChainOf(t) \subseteq known, main = ByHeight(t), IsFork(b, h)
    PROVE  /\ h \in Nat /\ h < Height[b] /\ h <= Height[t]
           /\ AncestorAt[b][h] = AncestorAt[t][h]
           /\ \A k \in (h + 1)..Height[b] :
                 k <= Height[t] => AncestorAt[b][k] # AncestorAt[t][k]
<1>1. Height[b] \in Nat /\ Height[t] \in Nat /\ h \in 0..(Height[b] - 1)
  BY TreeFacts DEF IsFork
<1>2. h \in 0..Height[b] /\ h \in Nat /\ h < Height[b]
  BY SMT, <1>1
<1>3. /\ AncestorAt[b][h] \in Block /\ Height[AncestorAt[b][h]] = h
      /\ main[h] = AncestorAt[b][h]
  BY <1>2, AncestorFacts DEF IsFork, OnMain
<1>4. h <= Height[t] /\ AncestorAt[b][h] = AncestorAt[t][h]
  BY <1>3, TreeFacts DEF ByHeight
<1>5. ASSUME NEW k \in (h + 1)..Height[b], k <= Height[t], AncestorAt[b][k] = AncestorAt[t][k]
      PROVE  FALSE
  <2>1. k \in 0..Height[b] /\ k \in 0..Height[t]
    BY SMT, <1>1, <1>2, <1>5
  <2>2. AncestorAt[b][k] \in ChainOf(t) /\ Height[AncestorAt[b][k]] = k /\ k \in Heights
    BY <1>5, <2>1, AncestorFacts DEF ChainOf
  <2>3. CASE k = Height[b]
    BY <2>2, <2>3, HeavierIsOff, OwnHeight
  <2>4. CASE k # Height[b]
    <3>1. k \in (h + 1)..(Height[b] - 1)
      BY SMT, <1>1, <1>2, <2>4
    <3>2. OnMain(AncestorAt[b][k])
      BY <1>5, <2>2 DEF OnMain, ByHeight
    <3> QED BY <3>1, <3>2 DEF IsFork
  <2> QED BY <2>3, <2>4
<1> QED BY <1>2, <1>4, <1>5

(* Phase 1 works on the clone only.                                        *)
LEMMA StartTrialStep ==
    ASSUME IInv, CoreTypeOK', NEW h \in Heights, StartTrial(h)
    PROVE  IInv'
<1>1. pc \in ReorgSteps \cup CommitSteps /\ pc \in AtTip
  BY DEF StartTrial, ReorgSteps, AtTip
<1>2. /\ old = {} /\ bestBlock = tip /\ utxo = UtxoAt[tip] /\ coins = UtxoAt[tip]
      /\ main = ByHeight(tip) /\ ChainOf(tip) \subseteq known
  BY <1>1, TipFacts
<1>3. /\ UndoIsRight /\ RunningInv /\ HeavierInv
      /\ tip \in Block /\ Height[tip] \in Nat /\ blk \in Block /\ Height[blk] \in Nat
  BY <1>1, ReorgTypes
<1>4. /\ h \in Nat /\ h < Height[blk] /\ h <= Height[tip]
      /\ AncestorAt[blk][h] = AncestorAt[tip][h]
      /\ \A k \in (h + 1)..Height[blk] :
            k <= Height[tip] => AncestorAt[blk][k] # AncestorAt[tip][k]
  <2>1. IsFork(blk, h) /\ ChainWork[blk] > ChainWork[tip]
    BY <1>3 DEF StartTrial, HeavierInv
  <2>2. tip \in Block /\ blk \in Block /\ main = ByHeight(tip) /\ ChainOf(tip) \subseteq known
    BY <1>2, <1>3
  <2> QED BY SMT, <2>1, <2>2, ForkFound
<1>5. /\ UNCHANGED <<tip, known, main, utxo, index, undo, diskTip, coins, bestBlock, blk, old>>
      /\ fork' = h /\ at' = TopOf(h)
      /\ pc' = IF Height[tip] > h THEN "trialDisconnect" ELSE "trialConnect"
  BY DEF StartTrial, disk
<1>6. UndoIsRight'
  BY <1>3, <1>5, UndoKept
<1>7. ForkInv' /\ HeavierInv'
  BY <1>3, <1>4, <1>5 DEF ForkInv, HeavierInv
<1>8. RunningInv'
  BY <1>2, <1>3, <1>5, RunningKept, TreeFacts
<1>9. TrialInv'
  <2>1. CASE Height[tip] > h
    <3>1. at' = Height[tip] /\ pc' = "trialDisconnect" /\ h < Height[tip] /\ Height[tip] <= Height[tip]
      BY SMT, <1>3, <1>4, <1>5, <2>1 DEF TopOf
    <3>2. (Height[tip] + 1)..Height[tip] = {}
      BY SMT, <1>3
    <3> QED BY <1>5, <3>1, <3>2 DEF TrialInv, UndoableAbove
  <2>2. CASE ~(Height[tip] > h)
    <3>1. at' = h /\ pc' = "trialConnect" /\ h = Height[tip] /\ h <= h
      BY SMT, <1>3, <1>4, <1>5, <2>2 DEF TopOf
    <3>2. (h + 1)..Height[tip] = {}
      BY SMT, <1>4, <3>1
    <3> QED BY <1>4, <1>5, <3>1, <3>2 DEF TrialInv, UndoableAbove
  <2> QED BY <2>1, <2>2
<1>10. pc' \in ReorgSteps
  BY <1>5 DEF ReorgSteps
<1> QED BY <1>2, <1>5, <1>6, <1>7, <1>8, <1>9, <1>10, Reorganising

(* Phase 1, downwards: every block it passes can be disconnected.          *)
LEMMA TrialDisconnectStep ==
    ASSUME IInv, CoreTypeOK', TrialDisconnect
    PROVE  IInv'
<1>1. pc = "trialDisconnect" /\ pc \in AtTip /\ pc \in Trial /\ pc \in ReorgSteps \cup CommitSteps
  BY DEF TrialDisconnect, AtTip, ReorgSteps, Trial
<1>2. old = {} /\ bestBlock = tip /\ utxo = UtxoAt[tip] /\ coins = UtxoAt[tip] /\ main = ByHeight(tip)
  BY <1>1, TipFacts
<1>3. /\ UndoIsRight /\ RunningInv /\ HeavierInv /\ tip \in Block /\ Height[tip] \in Nat
      /\ fork \in Nat /\ at \in Nat
  BY <1>1, ReorgTypes
<1>4. ForkInv /\ fork < Height[blk]
  BY <1>1, ForkFacts
<1>5. fork < at /\ at <= Height[tip] /\ UndoableAbove(at)
  BY <1>1 DEF IInv, TrialInv
<1>6. /\ UNCHANGED <<tip, known, main, utxo, index, undo, diskTip, coins, bestBlock, blk, fork, old>>
      /\ at' = at - 1 /\ pc' = IF at - 1 > fork THEN "trialDisconnect" ELSE "trialConnect"
  BY DEF TrialDisconnect, memory, disk
<1>7. UndoableAbove(at - 1)
  <2>1. at \in 0..Height[tip] /\ \A k \in ((at - 1) + 1)..Height[tip] : k = at \/ k \in (at + 1)..Height[tip]
    BY SMT, <1>3, <1>5
  <2>2. main[at] = AncestorAt[tip][at]
    BY <1>2, <1>3, <1>5, <2>1, AncestorFacts DEF ByHeight
  <2>3. index[AncestorAt[tip][at]] = "undo"
    BY <2>2 DEF TrialDisconnect, Undoable
  <2> QED BY <1>5, <2>1, <2>3 DEF UndoableAbove
<1>8. UndoIsRight' /\ ForkInv' /\ HeavierInv' /\ RunningInv'
  BY <1>2, <1>3, <1>4, <1>6, UndoKept, ForkKept, RunningKept, TreeFacts
<1>9. TrialInv'
  <2>1. CASE at - 1 > fork
    <3>1. fork < at - 1 /\ at - 1 <= Height[tip] /\ pc' = "trialDisconnect"
      BY SMT, <1>3, <1>5, <1>6, <2>1
    <3> QED BY <1>6, <1>7, <3>1 DEF TrialInv, UndoableAbove
  <2>2. CASE ~(at - 1 > fork)
    <3>1. at - 1 = fork /\ fork <= fork /\ pc' = "trialConnect"
      BY SMT, <1>3, <1>5, <1>6, <2>2
    <3> QED BY <1>4, <1>6, <1>7, <3>1 DEF TrialInv, UndoableAbove
  <2> QED BY <2>1, <2>2
<1>10. pc' \in ReorgSteps
  BY <1>6 DEF ReorgSteps
<1> QED BY <1>2, <1>6, <1>8, <1>9, <1>10, Reorganising

(* Phase 1, upwards: when the whole branch connects, phase 2 starts from   *)
(* the tip.                                                                *)
LEMMA TrialConnectStep ==
    ASSUME IInv, CoreTypeOK', TrialConnect
    PROVE  IInv'
<1>1. pc = "trialConnect" /\ pc \in AtTip /\ pc \in Trial /\ pc \in ReorgSteps \cup CommitSteps
  BY DEF TrialConnect, AtTip, ReorgSteps, Trial
<1>2. old = {} /\ bestBlock = tip /\ utxo = UtxoAt[tip] /\ coins = UtxoAt[tip] /\ main = ByHeight(tip)
  BY <1>1, TipFacts
<1>3. /\ UndoIsRight /\ RunningInv /\ HeavierInv /\ tip \in Block /\ Height[tip] \in Nat
      /\ blk \in Block /\ Height[blk] \in Nat /\ fork \in Nat /\ at \in Nat
  BY <1>1, ReorgTypes
<1>4. ForkInv /\ fork < Height[blk] /\ fork <= Height[tip] /\ AncestorAt[blk][fork] = AncestorAt[tip][fork]
  BY <1>1, ForkFacts
<1>5. fork <= at /\ at < Height[blk] /\ UndoableAbove(fork)
  BY <1>1 DEF IInv, TrialInv
<1>6. UNCHANGED <<tip, known, main, utxo, index, undo, diskTip, coins, bestBlock, blk, fork, old>>
  BY DEF TrialConnect, memory, disk
<1>7. UndoIsRight' /\ ForkInv' /\ HeavierInv' /\ RunningInv'
  BY <1>2, <1>3, <1>4, <1>6, UndoKept, ForkKept, RunningKept, TreeFacts
<1>8. UndoableAbove(fork)'
  BY <1>5, <1>6 DEF UndoableAbove
<1>9. AncestorAt[tip][Height[tip]] = tip /\ AncestorAt[blk][Height[blk]] = blk /\ tip # NoBlock
  BY <1>3, OwnHeight, TreeFacts
<1>10. CASE AncestorAt[blk][at + 1] # blk
  <2>1. at' = at + 1 /\ pc' = "trialConnect"
    BY <1>1, <1>10 DEF TrialConnect
  <2>2. at + 1 # Height[blk]
    BY <1>9, <1>10
  <2>3. fork <= at + 1 /\ at + 1 < Height[blk]
    BY SMT, <1>3, <1>5, <2>2
  <2>4. TrialInv' /\ pc' \in ReorgSteps
    BY <1>6, <1>8, <2>1, <2>3 DEF TrialInv, ReorgSteps
  <2> QED BY <1>2, <1>6, <1>7, <2>4, Reorganising
<1>11. CASE AncestorAt[blk][at + 1] = blk /\ Height[tip] > fork
  <2>1. pc' = "disconnect" /\ pc' \in CommitSteps
    BY <1>11 DEF TrialConnect, CommitSteps
  <2>2. at' = Height[tip] /\ fork < Height[tip] /\ Height[tip] <= Height[tip]
    <3>1. at' = TopOf(fork)
      BY <1>11 DEF TrialConnect
    <3> QED BY SMT, <1>3, <1>11, <3>1 DEF TopOf
  <2>3. {AncestorAt[tip][k] : k \in (Height[tip] + 1)..Height[tip]} = {}
    BY SMT, <1>3
  <2>4. FallingInv'
    BY <1>2, <1>6, <1>8, <1>9, <2>2, <2>3 DEF FallingInv
  <2> QED BY <1>2, <1>6, <1>7, <1>9, <2>1, <2>4, Committing
<1>12. CASE AncestorAt[blk][at + 1] = blk /\ ~(Height[tip] > fork)
  <2>1. pc' = "connect" /\ pc' \in CommitSteps
    BY <1>12 DEF TrialConnect, CommitSteps
  <2>2. at' = fork /\ fork = Height[tip] /\ fork <= fork /\ fork <= Height[blk]
    <3>1. at' = TopOf(fork)
      BY <1>12 DEF TrialConnect
    <3> QED BY SMT, <1>3, <1>4, <1>12, <3>1 DEF TopOf
  <2>3. {AncestorAt[tip][k] : k \in (fork + 1)..Height[tip]} = {}
    BY SMT, <1>3, <2>2
  <2>4. MapsUpTo(at)'
    BY <1>2, <1>3, <1>6, <2>2, MapsStart
  <2>5. RisingInv'
    <3>1. tip' = tip /\ blk' = blk /\ fork' = fork /\ at' = fork /\ pc' = "connect"
      BY <1>6, <2>1, <2>2
    <3>2. /\ bestBlock' = AncestorAt[blk][fork] /\ utxo' = UtxoAt[AncestorAt[blk][fork]]
          /\ old' = {AncestorAt[tip][k] : k \in (fork + 1)..Height[tip]}
      BY <1>2, <1>4, <1>6, <1>9, <2>2, <2>3
    <3>3. fork <= fork /\ fork <= Height[blk] /\ fork < Height[blk]
      BY <1>4, <2>2
    <3> QED BY <1>8, <2>4, <3>1, <3>2, <3>3 DEF RisingInv
  <2> QED BY <1>2, <1>6, <1>7, <1>9, <2>1, <2>5, Committing
<1> QED BY <1>10, <1>11, <1>12

-----------------------------------------------------------------------------
(* Phase 2.                                                                *)

(* Downwards: the live set and the chainstate step to the parent.          *)
LEMMA DisconnectTipStep ==
    ASSUME IInv, CoreTypeOK', DisconnectTip
    PROVE  IInv'
<1>1. pc = "disconnect" /\ pc \in CommitSteps /\ pc \notin Rising
  BY DEF DisconnectTip, CommitSteps, Rising
<1>2. /\ UndoIsRight /\ RunningInv /\ HeavierInv /\ tip \in Block /\ Height[tip] \in Nat
      /\ Height[blk] \in Nat /\ fork \in Nat /\ at \in Nat
  BY <1>1, ReorgTypes
<1>3. /\ ForkInv /\ fork < Height[blk] /\ AncestorAt[blk][fork] = AncestorAt[tip][fork]
      /\ coins = UtxoAt[bestBlock]
  BY <1>1, ForkFacts, CommitFacts
<1>4. FallingInv /\ main = ByHeight(tip)
  BY <1>1, <1>2 DEF IInv, RunningInv
<1>5. /\ fork < at /\ at <= Height[tip] /\ UndoableAbove(fork)
      /\ bestBlock = AncestorAt[tip][at] /\ utxo = UtxoAt[AncestorAt[tip][at]]
      /\ old = {AncestorAt[tip][k] : k \in (at + 1)..Height[tip]}
  BY <1>4 DEF FallingInv
<1> DEFINE x == AncestorAt[tip][at]
           y == AncestorAt[tip][at - 1]
<1>6. /\ at \in 0..Height[tip] /\ at \in 1..Height[tip] /\ at \in (fork + 1)..Height[tip]
      /\ at - 1 \in 0..Height[tip]
  BY SMT, <1>2, <1>5
<1>7. x \in Block \ {Genesis} /\ Parent[x] = y /\ main[at] = x /\ index[x] = "undo"
  <2>1. at \in Heights /\ main[at] = x
    BY <1>2, <1>4, <1>5, <1>6, AncestorFacts DEF ByHeight
  <2>2. index[x] = "undo"
    BY <1>5, <1>6 DEF UndoableAbove
  <2> QED BY <1>2, <1>6, <2>1, <2>2, AncestorParent
<1>8. y \in Block /\ y # NoBlock
  BY <1>2, <1>6, AncestorFacts, TreeFacts
<1>9. Disconnect(UtxoAt[x], x, undo[x]) = UtxoAt[y]
  BY <1>2, <1>7, DisconnectReplay DEF UndoIsRight
<1>10. utxo' = UtxoAt[y] /\ coins' = UtxoAt[y] /\ bestBlock' = y
  BY <1>3, <1>5, <1>7, <1>9 DEF DisconnectTip, PersistDisconnect
<1>11. /\ UNCHANGED <<tip, known, main, index, undo, diskTip, blk, fork>> /\ at' = at - 1
       /\ old' = old \cup {x} /\ pc' = IF at - 1 > fork THEN "disconnect" ELSE "connect"
  BY <1>7 DEF DisconnectTip
<1>12. old' = {AncestorAt[tip][k] : k \in at..Height[tip]}
  <2>1. at..Height[tip] = ((at + 1)..Height[tip]) \cup {at}
    BY SMT, <1>2, <1>5
  <2> QED BY <1>5, <1>11, <2>1
<1>13. UndoIsRight' /\ ForkInv' /\ HeavierInv'
  BY <1>2, <1>3, <1>11, UndoKept, ForkKept
<1>14. UndoableAbove(fork)'
  BY <1>5, <1>11 DEF UndoableAbove
<1>15. RunningInv' /\ bestBlock' # NoBlock
  BY <1>2, <1>4, <1>8, <1>10, <1>11, RunningKept
<1>16. pc' \in CommitSteps
  BY <1>11 DEF CommitSteps
<1> HIDE DEF x, y
<1>17. CASE at - 1 > fork
  <2>1. pc' = "disconnect"
    BY <1>11, <1>17
  <2>2. fork < at - 1 /\ at - 1 <= Height[tip] /\ (at - 1) + 1 = at
    BY SMT, <1>2, <1>5, <1>17
  <2>3. FallingInv'
    BY <1>10, <1>11, <1>12, <1>14, <2>2 DEF FallingInv, y
  <2> QED BY <1>10, <1>13, <1>15, <1>16, <2>1, <2>3, Committing
<1>18. CASE ~(at - 1 > fork)
  <2>1. pc' = "connect"
    BY <1>11, <1>18
  <2>2. at = fork + 1 /\ at - 1 = fork /\ fork <= fork /\ fork <= Height[blk]
    BY SMT, <1>2, <1>3, <1>5, <1>18
  <2>3. MapsUpTo(at)'
    BY <1>2, <1>4, <1>11, <2>2, MapsStart
  <2>4. RisingInv'
    <3>1. tip' = tip /\ blk' = blk /\ fork' = fork /\ at' = fork
      BY <1>11, <2>2
    <3>2. /\ bestBlock' = AncestorAt[blk][fork] /\ utxo' = UtxoAt[AncestorAt[blk][fork]]
          /\ old' = {AncestorAt[tip][k] : k \in (fork + 1)..Height[tip]}
      BY <1>3, <1>10, <1>12, <2>2 DEF y
    <3> QED BY <1>3, <1>14, <2>1, <2>2, <2>3, <3>1, <3>2 DEF RisingInv
  <2> QED BY <1>10, <1>13, <1>15, <1>16, <2>1, <2>4, Committing
<1> QED BY <1>17, <1>18

(* Upwards: the live set and the chainstate step to the child.             *)
LEMMA ConnectNextStep ==
    ASSUME IInv, CoreTypeOK', ConnectNext
    PROVE  IInv'
<1>1. pc = "connect" /\ pc \in CommitSteps /\ pc \in Rising
  BY DEF ConnectNext, CommitSteps, Rising
<1>2. /\ UndoIsRight /\ RunningInv /\ HeavierInv /\ blk \in Block /\ Height[blk] \in Nat
      /\ fork \in Nat /\ at \in Nat
  BY <1>1, ReorgTypes
<1>3. ForkInv /\ coins = UtxoAt[bestBlock]
  BY <1>1, ForkFacts, CommitFacts
<1>4. RisingInv
  BY <1>1 DEF IInv
<1>5. /\ fork <= at /\ at < Height[blk] /\ UndoableAbove(fork) /\ MapsUpTo(at)
      /\ bestBlock = AncestorAt[blk][at] /\ utxo = UtxoAt[AncestorAt[blk][at]]
      /\ old = {AncestorAt[tip][k] : k \in (fork + 1)..Height[tip]}
  BY <1>1, <1>4 DEF RisingInv
<1> DEFINE x == AncestorAt[blk][at + 1]
<1>6. at + 1 \in 1..Height[blk] /\ (at + 1) - 1 = at /\ fork < at + 1 /\ at + 1 <= Height[blk]
      /\ fork <= at + 1
  BY SMT, <1>2, <1>5
<1>7. x \in Block \ {Genesis} /\ Parent[x] = AncestorAt[blk][at] /\ x # NoBlock
  <2>1. x \in Block \ {Genesis} /\ Parent[x] = AncestorAt[blk][(at + 1) - 1]
    BY <1>2, <1>6, AncestorParent
  <2> QED BY <1>6, <2>1, TreeFacts
<1>8. Connect(utxo, x) = UtxoAt[x]
  BY <1>5, <1>7, ConnectReplay
<1>9. coins' = UtxoAt[x] /\ bestBlock' = x
  <2>1. PersistConnect(x, UndoOf(UtxoAt[Parent[x]], x), UtxoAt[x])
    BY <1>5, <1>7, <1>8 DEF ConnectNext
  <2> HIDE DEF x
  <2> QED BY <1>3, <1>5, <1>7, <2>1, PersistReplay
<1>10. /\ UNCHANGED <<tip, known, main, index, undo, diskTip, blk, fork, old>> /\ at' = at + 1
       /\ pc' = "connectIndex" /\ utxo' = UtxoAt[x] /\ liveUndo' = UndoOf(UtxoAt[AncestorAt[blk][at]], x)
  BY <1>5, <1>8 DEF ConnectNext
<1>11. UndoIsRight' /\ ForkInv' /\ HeavierInv'
  BY <1>2, <1>3, <1>10, UndoKept, ForkKept
<1>12. UndoableAbove(fork)'
  BY <1>5, <1>10 DEF UndoableAbove
<1>13. RunningInv' /\ pc' \in CommitSteps
  <2>1. pc' \in Rising /\ pc' \in CommitSteps
    BY <1>10 DEF Rising, CommitSteps
  <2> QED BY <1>2, <1>7, <1>9, <1>10, <2>1, RunningKept
<1>14. MapsUpTo(at - 1)'
  BY <1>5, <1>6, <1>10 DEF MapsUpTo
<1>15. RisingInv'
  BY <1>5, <1>6, <1>9, <1>10, <1>12, <1>14 DEF RisingInv
<1> QED BY <1>7, <1>9, <1>10, <1>11, <1>13, <1>15, Committing

(* ... then its record gains undo data and the maps gain the block.        *)
LEMMA ConnectIndexStep ==
    ASSUME IInv, CoreTypeOK', ConnectIndex
    PROVE  IInv'
<1>1. pc = "connectIndex" /\ pc \in CommitSteps /\ pc \in Rising
  BY DEF ConnectIndex, CommitSteps, Rising
<1>2. /\ CoreTypeOK /\ UndoIsRight /\ RunningInv /\ HeavierInv
      /\ tip \in Block /\ Height[tip] \in Nat /\ blk \in Block /\ Height[blk] \in Nat
      /\ fork \in Nat /\ at \in Nat
  BY <1>1, ReorgTypes
<1>3. ForkInv /\ bestBlock # NoBlock /\ coins = UtxoAt[bestBlock]
  BY <1>1, ForkFacts, CommitFacts
<1>4. RisingInv
  BY <1>1 DEF IInv
<1>5. /\ fork < at /\ at <= Height[blk] /\ UndoableAbove(fork) /\ MapsUpTo(at - 1)
      /\ liveUndo = UndoOf(UtxoAt[AncestorAt[blk][at - 1]], AncestorAt[blk][at])
  BY <1>1, <1>4 DEF RisingInv
<1> DEFINE x == AncestorAt[blk][at]
<1>6. at \in 1..Height[blk] /\ at \in 0..Height[blk] /\ fork <= at /\ at - 1 \in Nat
  BY SMT, <1>2, <1>5
<1>7. x \in Block \ {Genesis} /\ Parent[x] = AncestorAt[blk][at - 1] /\ at \in Heights
  BY <1>2, <1>6, AncestorParent, AncestorFacts
<1>8. /\ UNCHANGED <<tip, utxo, diskTip, coins, bestBlock, blk, fork, at, old>>
      /\ undo' = [undo EXCEPT ![x] = liveUndo] /\ index' = [index EXCEPT ![x] = "undo"]
      /\ known' = known \cup {x} /\ main' = [main EXCEPT ![at] = x]
      /\ pc' = IF at < Height[blk] THEN "connect" ELSE "reorgTip"
  BY DEF ConnectIndex, PutBlockIndex, locals
<1>9. liveUndo = UndoOf(UtxoAt[Parent[x]], x)
  BY <1>5, <1>7
<1>10. index \in [Block -> {"absent", "data", "undo"}] /\ undo \in [Block -> UtxoSets]
       /\ main \in [Heights -> Block \cup {NoBlock}]
  BY <1>2 DEF CoreTypeOK
<1>11. MapsUpTo(at - 1)
  BY <1>5
<1> HIDE DEF x
<1>12. UndoIsRight'
  <2>1. \A b \in Block : b # x => index'[b] = index[b] /\ undo'[b] = undo[b]
    BY <1>8, <1>10
  <2>2. undo'[x] = liveUndo
    BY <1>7, <1>8, <1>10
  <2> QED BY <1>2, <1>9, <2>1, <2>2 DEF UndoIsRight
<1>13. UndoableAbove(fork)'
  <2>1. \A k \in (fork + 1)..Height[tip] : k \in 0..Height[tip]
    BY SMT, <1>2
  <2>2. \A k \in (fork + 1)..Height[tip] : AncestorAt[tip][k] \in Block
    BY <1>2, <2>1, AncestorFacts
  <2>3. \A b \in Block : index[b] = "undo" => index'[b] = "undo"
    BY <1>8, <1>10
  <2> QED BY <1>5, <1>8, <2>2, <2>3 DEF UndoableAbove
<1>14. MapsUpTo(at)'
  <2>1. (fork + 1)..at = ((fork + 1)..(at - 1)) \cup {at}
    BY SMT, <1>2, <1>5
  <2>2. \A k \in (fork + 1)..at : AncestorAt[blk][k] \in known'
    BY <1>8, <1>11, <2>1 DEF MapsUpTo, x
  <2> DEFINE f == [k \in Heights |->
                     IF k > fork /\ k <= at THEN AncestorAt[blk][k]
                     ELSE IF k <= Height[tip] THEN AncestorAt[tip][k] ELSE NoBlock]
  <2>3. ASSUME NEW k \in Heights
        PROVE  main'[k] = f[k]
    <3>1. main[k] = IF k > fork /\ k <= at - 1 THEN AncestorAt[blk][k]
                    ELSE IF k <= Height[tip] THEN AncestorAt[tip][k] ELSE NoBlock
      BY <1>11 DEF MapsUpTo
    <3>2. CASE k = at
      <4>1. k > fork /\ k <= at
        BY SMT, <1>2, <1>5, <3>2
      <4> QED BY <1>8, <1>10, <3>2, <4>1 DEF x
    <3>3. CASE k # at
      <4>1. main'[k] = main[k]
        BY <1>8, <1>10, <3>3
      <4>2. k <= at - 1 <=> k <= at
        BY SMT, <1>2, <1>6, <3>3, TreeFacts
      <4> QED BY <3>1, <4>1, <4>2
    <3> QED BY <3>2, <3>3
  <2>4. main' = [k \in Heights |-> main'[k]] /\ f = [k \in Heights |-> f[k]]
    BY <1>8, <1>10
  <2> HIDE DEF f
  <2>5. main' = f
    BY <2>3, <2>4
  <2> QED BY <1>8, <2>2, <2>5 DEF MapsUpTo, f
<1>15. ForkInv' /\ HeavierInv'
  BY <1>2, <1>3, <1>8, ForkKept
<1>16. pc' \in Rising /\ pc' \in CommitSteps /\ pc' # "disconnect" /\ pc' # "connectIndex"
  BY <1>8 DEF Rising, CommitSteps
<1>17. RunningInv'
  BY <1>2, <1>3, <1>8, <1>16, RunningKept
<1>18. RisingInv'
  <2>1. pc' = "connect" => at < Height[blk]
    BY <1>8
  <2>2. pc' = "reorgTip" => at = Height[blk]
    BY SMT, <1>2, <1>5, <1>8
  <2>3. UNCHANGED <<tip, utxo, bestBlock, blk, fork, at, old>>
    BY <1>8
  <2> QED BY <1>4, <1>6, <1>13, <1>14, <1>16, <2>1, <2>2, <2>3 DEF RisingInv
<1> QED BY <1>3, <1>8, <1>12, <1>15, <1>16, <1>17, <1>18, Committing

(* Once the old chain has left the maps they are those of the new tip.     *)
LEMMA ReorgTipStep ==
    ASSUME IInv, CoreTypeOK', ReorgTip
    PROVE  IInv'
<1>1. pc = "reorgTip" /\ pc \in CommitSteps /\ pc \in Rising
  BY DEF ReorgTip, CommitSteps, Rising
<1>2. /\ UndoIsRight /\ RunningInv /\ tip \in Block /\ Height[tip] \in Nat
      /\ blk \in Block /\ Height[blk] \in Nat /\ fork \in Nat
  BY <1>1, ReorgTypes
<1>3. /\ ForkInv /\ fork <= Height[tip] /\ fork < Height[blk]
      /\ AncestorAt[blk][fork] = AncestorAt[tip][fork] /\ coins = UtxoAt[bestBlock]
  BY <1>1, ForkFacts, CommitFacts
<1>4. RisingInv
  BY <1>1 DEF IInv
<1>5. /\ at = Height[blk] /\ MapsUpTo(Height[blk])
      /\ bestBlock = AncestorAt[blk][at] /\ utxo = UtxoAt[AncestorAt[blk][at]]
      /\ old = {AncestorAt[tip][k] : k \in (fork + 1)..Height[tip]}
  BY <1>1, <1>4 DEF RisingInv
<1>6. bestBlock = blk /\ utxo = UtxoAt[blk] /\ coins = UtxoAt[blk] /\ blk # NoBlock
  BY <1>2, <1>3, <1>5, OwnHeight, TreeFacts
<1>7. \A k \in 0..fork : AncestorAt[blk][k] = AncestorAt[tip][k]
  <2>1. fork <= Height[blk]
    BY SMT, <1>2, <1>3
  <2> QED BY <1>2, <1>3, <2>1, SharedPrefix
<1>8. \A k \in 0..Height[blk] : AncestorAt[blk][k] \notin old
  <2> SUFFICES ASSUME NEW k \in 0..Height[blk], NEW j \in (fork + 1)..Height[tip],
                      AncestorAt[blk][k] = AncestorAt[tip][j]
               PROVE  FALSE
    BY <1>5
  <2>1. j \in 0..Height[tip]
    BY SMT, <1>2
  <2>2. Height[AncestorAt[blk][k]] = k /\ Height[AncestorAt[tip][j]] = j
    BY <1>2, <2>1, AncestorFacts
  <2>3. k = j /\ k \in (fork + 1)..Height[blk] /\ k <= Height[tip]
    BY SMT, <1>2, <2>1, <2>2
  <2> QED BY <1>3, <2>3 DEF ForkInv
<1>9. ASSUME NEW h \in Heights
      PROVE  main'[h] = ByHeight(blk)[h]
  <2>1. main'[h] = IF main[h] \in old THEN NoBlock ELSE main[h]
    BY DEF ReorgTip, WithoutOld
  <2>2. main[h] = IF h > fork /\ h <= Height[blk] THEN AncestorAt[blk][h]
                  ELSE IF h <= Height[tip] THEN AncestorAt[tip][h] ELSE NoBlock
    BY <1>5 DEF MapsUpTo
  <2>3. ByHeight(blk)[h] = IF h <= Height[blk] THEN AncestorAt[blk][h] ELSE NoBlock
    BY DEF ByHeight
  <2>4. h \in Nat
    BY TreeFacts
  <2>5. CASE h <= fork
    <3>1. h \in 0..fork /\ h \in 0..Height[blk] /\ h <= Height[tip] /\ h <= Height[blk] /\ ~(h > fork)
      BY SMT, <1>2, <1>3, <2>4, <2>5
    <3>2. main[h] = AncestorAt[blk][h]
      BY <1>7, <2>2, <3>1
    <3> QED BY <1>8, <2>1, <2>3, <3>1, <3>2
  <2>6. CASE h > fork /\ h <= Height[blk]
    <3>1. h \in 0..Height[blk]
      BY SMT, <1>2, <2>4, <2>6
    <3>2. main[h] = AncestorAt[blk][h]
      BY <2>2, <2>6
    <3> QED BY <1>8, <2>1, <2>3, <2>6, <3>1, <3>2
  <2>7. CASE h > Height[blk]
    <3>1. ~(h <= Height[blk]) /\ (h <= Height[tip] => h \in (fork + 1)..Height[tip])
      BY SMT, <1>2, <1>3, <2>4, <2>7
    <3>2. CASE h <= Height[tip]
      <4>1. main[h] \in old
        BY <1>5, <2>2, <3>1, <3>2
      <4> QED BY <2>1, <2>3, <3>1, <4>1
    <3>3. CASE ~(h <= Height[tip])
      <4>1. main[h] = NoBlock
        BY <2>2, <3>1, <3>3
      <4> QED BY <2>1, <2>3, <3>1, <4>1
    <3> QED BY <3>2, <3>3
  <2> QED BY SMT, <1>2, <2>4, <2>5, <2>6, <2>7
<1>10. main' = ByHeight(blk)
  <2>1. main' = [h \in Heights |-> main'[h]] /\ ByHeight(blk) = [h \in Heights |-> ByHeight(blk)[h]]
    BY DEF ReorgTip, WithoutOld, ByHeight
  <2> QED BY <1>9, <2>1
<1>11. ChainOf(blk) \subseteq known'
  <2>1. \A k \in 0..Height[blk] : k \in 0..fork \/ k \in (fork + 1)..Height[blk]
    BY SMT, <1>2
  <2>2. \A k \in 0..fork : k \in 0..Height[tip]
    BY SMT, <1>2, <1>3
  <2>3. \A k \in 0..Height[blk] : AncestorAt[blk][k] \in known
    BY <1>2, <1>5, <1>7, <2>1, <2>2 DEF MapsUpTo, RunningInv, ChainOf
  <2> QED BY <1>8, <2>3 DEF ReorgTip, ChainOf
<1>12. UndoIsRight'
  BY <1>2, UndoKept DEF ReorgTip
<1>13. /\ tip' = blk /\ diskTip' = blk /\ bestBlock' = blk /\ utxo' = utxo /\ coins' = coins
       /\ old' = {} /\ pc' = "block"
  BY <1>6 DEF ReorgTip, NoReorg
<1> QED BY <1>6, <1>10, <1>11, <1>12, <1>13, Settled

-----------------------------------------------------------------------------
(* Types.                                                                  *)

(* Each step keeps the types.                                              *)
LEMMA TypeStep ==
    ASSUME IInv, Harmless, Next
    PROVE  CoreTypeOK'
<1> USE ChainAssumption
<1> CoreTypeOK
  BY DEF IInv
<1>a. /\ NoCoins \in UtxoSets /\ Genesis \in Block
      /\ \A b \in Block : Height[b] \in Nat /\ UtxoAt[b] \in UtxoSets
  <2>1. NoCoins \in UtxoSets
    BY SMT DEF NoCoins, UtxoSets, Absent
  <2>2. \A b \in Block : UtxoAt[b] \in UtxoSets
    BY CoinAssumption
  <2> QED BY <2>1, <2>2, TreeFacts
<1>b. pc \notin {"off", "genesisTip"} => tip \in Block
  BY DEF IInv, RunningInv, CoreTypeOK
<1>c. <<>> \in Seq(Block) /\ <<>> \in Seq(Nat)
  BY SMT
<1>d. /\ \A b \in Block : Append(queue, b) \in Seq(Block)
      /\ queue # <<>> => Tail(queue) \in Seq(Block) /\ Head(queue) \in Block
      /\ \A n \in 0..Len(reorgs) : Recent(n) \in Seq(Nat)
  BY SMT DEF CoreTypeOK, Recent
<1>e. (pruneAfter \/ direct) \in BOOLEAN
  OBVIOUS
<1>f. failures + 1 \in Nat /\ at + 1 \in Nat
  BY SMT DEF CoreTypeOK
<1>1. CASE InitGenesis
  BY <1>1, <1>a DEF InitGenesis, PutBlockIndex, CoreTypeOK, memory, work, locals, Steps
<1>2. CASE GenesisTip
  BY <1>2, <1>a DEF GenesisTip, CoreTypeOK, work, locals, Steps
<1>3. CASE GenesisUtxo
  BY <1>3, <1>a, BatchTypes DEF GenesisUtxo, CoreTypeOK, memory, work, locals, Steps
<1>4. CASE Crash
  <2>1. main' \in [Heights -> Block \cup {NoBlock}] /\ reorgs' \in Seq(Nat) /\ queue' \in Seq(Block)
    BY <1>4, <1>c DEF Crash
  <2>2. utxo' \in UtxoSets /\ trial' \in UtxoSets /\ liveUndo' \in UtxoSets
    BY <1>4, <1>a DEF Crash, NoReorg
  <2>3. /\ tip' \in Block \cup {NoBlock} /\ known' \subseteq Block /\ batch' \subseteq Block
        /\ blk' \in Block \cup {NoBlock} /\ fork' \in Nat /\ at' \in Nat /\ old' \subseteq Block
        /\ failures' \in Nat /\ pc' \in Steps
    BY <1>4, <1>f DEF Crash, NoReorg, CoreTypeOK, Steps
  <2>4. direct' \in BOOLEAN /\ pruneAfter' \in BOOLEAN
    BY <1>4, Zenon DEF Crash
  <2>5. UNCHANGED <<index, undo, diskTip, coins, bestBlock>>
    BY <1>4 DEF Crash, disk
  <2> QED BY <2>1, <2>2, <2>3, <2>4, <2>5 DEF CoreTypeOK
<1>5. CASE RescanUTXOSet
  BY <1>5, <1>a, <1>b, BatchTypes DEF RescanUTXOSet, CoreTypeOK, work, locals, Steps
<1>6. CASE Restart
  <2>1. RecoveredTip \in Block /\ RecoveredUtxo \in UtxoSets
    BY <1>6, <1>a DEF Restart, RecoveredTip, RecoveredUtxo, CoreTypeOK
  <2>2. ByHeight(RecoveredTip) \in [Heights -> Block \cup {NoBlock}]
    BY <2>1, ByHeightType
  <2>3. coins' \in UtxoSets /\ bestBlock' \in Block \cup {NoBlock}
    BY <1>6, <2>1, BatchTypes DEF Restart, CoreTypeOK
  <2> QED BY <1>6, <2>1, <2>2, <2>3 DEF Restart, CoreTypeOK, work, locals, Steps
<1>7. ASSUME NEW b \in Block, ProcessBlock(b)
      PROVE  CoreTypeOK'
  BY <1>7, <1>c DEF ProcessBlock, CoreTypeOK, memory, disk, locals, Steps
<1>8. ASSUME NEW b \in Block, AddOrphan(b)
      PROVE  CoreTypeOK'
  BY <1>8 DEF AddOrphan, CoreTypeOK, disk, work, locals, Steps
<1>9. CASE EvictExpiredOrphans
  BY <1>9 DEF EvictExpiredOrphans, CoreTypeOK, disk, work, locals, Steps
<1>10. CASE NextParent
  BY <1>10, <1>d DEF NextParent, CoreTypeOK, disk, locals, Steps
<1>11. CASE Return
  BY <1>11 DEF Return, Pruned, CoreTypeOK, disk, locals, Steps
<1>12. ASSUME NEW b \in Block, RejectBlock(b) \/ StoreFails(b)
       PROVE  CoreTypeOK'
  BY <1>12, <1>f DEF RejectBlock, StoreFails, WriteFails, CoreTypeOK, memory, disk, locals, Steps
<1>13. ASSUME NEW b \in Block, SideChain(b) \/ SideIndexLost(b)
       PROVE  CoreTypeOK'
  <2>1. CASE SideChain(b)
    <3>1. Append(queue, b) \in Seq(Block)
      BY <1>d
    <3>2. [index EXCEPT ![b] = "data"] \in [Block -> {"absent", "data", "undo"}]
      BY DEF CoreTypeOK
    <3> QED BY <2>1, <3>1, <3>2 DEF SideChain, PutBlockIndex, CoreTypeOK, locals
  <2>2. CASE SideIndexLost(b)
    BY <2>2, <1>d, <1>f DEF SideIndexLost, WriteFails, CoreTypeOK, disk, locals, Steps
  <2> QED BY <1>13, <2>1, <2>2
<1>14. ASSUME NEW b \in Block, ReorgIndex(b) \/ ReorgIndexLost(b)
       PROVE  CoreTypeOK'
  <2>1. CASE ReorgIndex(b)
    BY <2>1 DEF ReorgIndex, PutBlockIndex, CoreTypeOK, work, Steps, ReorgSteps
  <2>2. CASE ReorgIndexLost(b)
    BY <2>2, <1>f DEF ReorgIndexLost, WriteFails, CoreTypeOK, disk, work, Steps, ReorgSteps
  <2> QED BY <1>14, <2>1, <2>2
<1>15. ASSUME NEW b \in Block, ExtendIndex(b)
       PROVE  CoreTypeOK'
  BY <1>15, SetTypes DEF ExtendIndex, PutBlockIndex, CoreTypeOK, work, Steps
<1>16. CASE ExtendUtxo
  <2>1. blk \in Block
    BY <1>16 DEF ExtendUtxo, IInv, ExtendingInv, Extending, CoreTypeOK
  <2> QED BY <1>16, <2>1, BatchTypes DEF ExtendUtxo, CoreTypeOK, memory, work, locals, Steps
<1>17. CASE ExtendTip
  <2>1. blk \in Block
    BY <1>17 DEF ExtendTip, IInv, ExtendingInv, Extending, CoreTypeOK
  <2> QED BY <1>17, <2>1, <1>a, <1>d, <1>e DEF ExtendTip, NoReorg, CoreTypeOK, Steps
<1>18. CASE ExtendFails
  <2>1. blk \in Block
    BY <1>18 DEF ExtendFails, IInv, ExtendingInv, Extending, CoreTypeOK
  <2>2. utxo' \in UtxoSets
    BY <1>18, <2>1, SetTypes DEF ExtendFails, CoreTypeOK
  <2> QED BY <1>18, <2>1, <2>2, <1>a, <1>f
          DEF ExtendFails, WriteFails, NoReorg, CoreTypeOK, disk, Steps
<1>19. ASSUME NEW h \in Heights, ReorgTooDeep(h)
       PROVE  CoreTypeOK'
  <2>1. blk \in Block
    BY <1>19 DEF ReorgTooDeep, IInv, ReorgSteps, HeavierInv, CoreTypeOK
  <2>2. reorgs' \in Seq(Nat)
    BY <1>19, <1>d DEF ReorgTooDeep, CoreTypeOK
  <2> QED BY <1>19, <2>1, <2>2, <1>a, <1>d DEF ReorgTooDeep, NoReorg, CoreTypeOK, disk, Steps
<1>20. ASSUME NEW h \in Heights, StartTrial(h)
       PROVE  CoreTypeOK'
  <2>1. reorgs' \in Seq(Nat)
    BY <1>20, <1>d DEF StartTrial, CoreTypeOK
  <2>2. h \in Nat /\ TopOf(h) \in Nat
    BY <1>20, <1>a, <1>b DEF TopOf, Heights, StartTrial
  <2> QED BY <1>20, <2>1, <2>2 DEF StartTrial, CoreTypeOK, disk, work, Steps, ReorgSteps
<1>21. CASE TrialDisconnect
  <2>1. /\ fork < at /\ at <= Height[tip] /\ main = ByHeight(tip)
    BY <1>21 DEF TrialDisconnect, IInv, RunningInv, Trial, TrialInv, Rising
  <2>2. at - 1 \in Nat /\ at \in Heights
    BY SMT, <2>1, <1>21, <1>a, <1>b, AncestorFacts DEF TrialDisconnect, CoreTypeOK
  <2>3. main[at] \in Block
    BY <1>21, <2>2 DEF TrialDisconnect, Undoable, CoreTypeOK
  <2>4. trial' \in UtxoSets
    BY <1>21, <2>3, SetTypes DEF TrialDisconnect, CoreTypeOK
  <2> QED BY <1>21, <2>2, <2>4 DEF TrialDisconnect, CoreTypeOK, memory, disk, work, Steps, ReorgSteps
<1>22. CASE TrialConnect
  <2>1. /\ blk \in Block /\ fork <= at /\ at < Height[blk]
    BY <1>22 DEF TrialConnect, IInv, ReorgSteps, HeavierInv, Trial, TrialInv, CoreTypeOK
  <2>2. AncestorAt[blk][at + 1] \in Block
    <3>1. Height[blk] \in Nat /\ at \in Nat
      BY <2>1, <1>a DEF CoreTypeOK
    <3>2. at + 1 \in 0..Height[blk]
      BY SMT, <2>1, <3>1
    <3> QED BY <2>1, <3>2, AncestorFacts
  <2>3. trial' \in UtxoSets
    BY <1>22, <2>2, SetTypes DEF TrialConnect, CoreTypeOK
  <2>4. TopOf(fork) \in Nat
    BY <1>22, <1>a, <1>b DEF TopOf, CoreTypeOK, TrialConnect
  <2> QED BY <1>22, <2>3, <2>4, <1>f
          DEF TrialConnect, CoreTypeOK, memory, disk, work, Steps, ReorgSteps, CommitSteps
<1>23. CASE TrialFails
  <2>1. blk \in Block
    BY <1>23 DEF TrialFails, IInv, ReorgSteps, HeavierInv, CoreTypeOK
  <2> QED BY <1>23, <2>1, <1>a
          DEF TrialFails, AbortReorg, DeleteBlockIndex, PutBlockIndex, NoReorg, CoreTypeOK, Steps
<1>24. CASE DisconnectTip
  <2>1. /\ fork < at /\ at <= Height[tip] /\ main = ByHeight(tip) /\ tip \in Block
    BY <1>24, <1>b DEF DisconnectTip, IInv, RunningInv, Rising, FallingInv
  <2>2. at - 1 \in Nat /\ at \in 1..Height[tip] /\ at \in 0..Height[tip]
    BY SMT, <2>1, <1>a DEF CoreTypeOK
  <2>3. at \in Heights /\ main[at] = AncestorAt[tip][at] /\ main[at] \in Block \ {Genesis}
        /\ Parent[main[at]] \in Block
    BY SMT, <2>1, <2>2, AncestorFacts, AncestorParent, ParentFacts DEF ByHeight
  <2>4. utxo' \in UtxoSets /\ coins' \in UtxoSets /\ bestBlock' \in Block
    BY <1>24, <2>3, SetTypes, BatchTypes DEF DisconnectTip, CoreTypeOK
  <2> QED BY <1>24, <2>2, <2>3, <2>4 DEF DisconnectTip, CoreTypeOK, work, Steps, CommitSteps
<1>25. CASE ConnectNext
  <2>1. /\ blk \in Block /\ at < Height[blk]
    BY <1>25 DEF ConnectNext, IInv, CommitSteps, HeavierInv, CoreTypeOK, Rising, RisingInv
  <2>2. AncestorAt[blk][at + 1] \in Block
    <3>1. Height[blk] \in Nat /\ at \in Nat
      BY <2>1, <1>a DEF CoreTypeOK
    <3>2. at + 1 \in 0..Height[blk]
      BY SMT, <2>1, <3>1
    <3> QED BY <2>1, <3>2, AncestorFacts
  <2>3. utxo' \in UtxoSets /\ liveUndo' \in UtxoSets
    BY <1>25, <2>2, SetTypes DEF ConnectNext, CoreTypeOK
  <2>4. coins' \in UtxoSets /\ bestBlock' \in Block
    BY <1>25, <2>2, SetTypes, BatchTypes DEF ConnectNext, CoreTypeOK
  <2> QED BY <1>25, <2>3, <2>4, <1>f DEF ConnectNext, CoreTypeOK, work, Steps, CommitSteps
<1>26. CASE ConnectIndex
  <2>1. /\ blk \in Block /\ fork <= at /\ at <= Height[blk]
    BY <1>26 DEF ConnectIndex, IInv, CommitSteps, HeavierInv, CoreTypeOK, Rising, RisingInv
  <2>2. AncestorAt[blk][at] \in Block
    BY SMT, <2>1, <1>a, AncestorFacts DEF CoreTypeOK
  <2> QED BY <1>26, <2>2 DEF ConnectIndex, PutBlockIndex, CoreTypeOK, work, locals, Steps, CommitSteps
<1>27. CASE ReorgTip
  <2>1. blk \in Block /\ tip \in Block /\ fork <= Height[tip]
    BY <1>27, <1>b DEF ReorgTip, IInv, CommitSteps, HeavierInv, CoreTypeOK, ForkInv
  <2>2. Depth(fork) \in Nat
    BY SMT, <2>1, <1>a DEF Depth, CoreTypeOK
  <2>3. reorgs' \in Seq(Nat) /\ queue' \in Seq(Block)
    BY SMT, <1>27, <2>1, <2>2 DEF ReorgTip, CoreTypeOK
  <2>4. main' \in [Heights -> Block \cup {NoBlock}]
    BY <1>27 DEF ReorgTip, WithoutOld, CoreTypeOK
  <2> QED BY <1>27, <2>1, <2>3, <2>4, <1>a, <1>e DEF ReorgTip, NoReorg, CoreTypeOK, Steps
<1>28. ~CommitFails
  BY DEF Harmless
<1> QED BY <1>1, <1>2, <1>3, <1>4, <1>5, <1>6, <1>7, <1>8, <1>9, <1>10, <1>11, <1>12, <1>13,
           <1>14, <1>15, <1>16, <1>17, <1>18, <1>19, <1>20, <1>21, <1>22, <1>23, <1>24,
           <1>25, <1>26, <1>27, <1>28
        DEF Next, Step, Call, Fault

-----------------------------------------------------------------------------
(* The theorems.                                                           *)

(* The invariant holds in a fresh data directory.                          *)
LEMMA InitIInv ==
    ASSUME Init
    PROVE  IInv
<1>1. NoCoins \in UtxoSets
  BY SMT DEF NoCoins, UtxoSets, Absent
<1>2. reorgs \in Seq(Nat) /\ queue \in Seq(Block)
  BY SMT DEF Init
<1>3. direct \in BOOLEAN /\ pruneAfter \in BOOLEAN
  BY Zenon DEF Init
<1>4. CoreTypeOK
  BY <1>1, <1>2, <1>3 DEF Init, CoreTypeOK, Steps
<1>5. UndoIsRight
  BY DEF Init, UndoIsRight
<1>6. StoppedInv /\ coins = NoCoins /\ bestBlock = NoBlock /\ pc = "off" /\ old = {}
  BY DEF Init, StoppedInv
<1> QED BY <1>4, <1>5, <1>6
        DEF IInv, AtTip, ReorgSteps, CommitSteps, Extending, Trial, Rising

(* Every step keeps the invariant.                                         *)
LEMMA NextIInv ==
    ASSUME IInv, Harmless, Next
    PROVE  IInv'
<1>1. CoreTypeOK'
  BY TypeStep
<1>2. ~CommitFails
  BY DEF Harmless
<1>3. Genesis \in Block
  BY TreeFacts
<1> QED BY <1>1, <1>2, <1>3, GenesisSteps, RestartStep, CrashStep, QuietSteps, ReturnStep,
           RescanStep, ExtendSteps, ReorgIndexStep, RefusedReorg, StartTrialStep,
           TrialDisconnectStep, TrialConnectStep, DisconnectTipStep, ConnectNextStep,
           ConnectIndexStep, ReorgTipStep
        DEF Next, Step, Call, Fault

(* When crashes and write errors spare the commit phase of reorg, and the  *)
(* write of the chain tip, every step is harmless.                         *)
LEMMA CompleteIsHarmless ==
    ASSUME CommitsComplete
    PROVE  Harmless
<1>1. Crash => pc \notin CommitSteps
  BY DEF CommitsComplete, Crash
<1>2. WriteFails => pc \in {"block", "extendUtxo"}
  BY DEF CommitsComplete, WriteFails
<1>3. ExtendFails => pc = "extendUtxo"
  BY <1>2 DEF ExtendFails
<1>4. ~CommitFails
  BY <1>2 DEF CommitFails, CommitSteps
<1> QED BY <1>1, <1>3, <1>4 DEF Harmless

(* A step of nobody keeps the invariant.                                   *)
LEMMA StutterIInv ==
    ASSUME IInv, UNCHANGED vars
    PROVE  IInv'
<1>1. /\ UNCHANGED <<tip, known, main, utxo, reorgs, index, undo, diskTip, coins, bestBlock, pc>>
      /\ UNCHANGED <<direct, batch, queue, pruneAfter, blk, fork, at, trial, liveUndo, old, failures>>
  BY DEF vars, memory, disk, work, locals
<1>2. /\ CoreTypeOK => CoreTypeOK'
      /\ UndoIsRight => UndoIsRight'
      /\ StoppedInv => StoppedInv'
  BY <1>1 DEF CoreTypeOK, UndoIsRight, StoppedInv
<1>3. /\ RunningInv => RunningInv'
      /\ ExtendingInv => ExtendingInv'
      /\ ForkInv => ForkInv'
  BY <1>1 DEF RunningInv, ExtendingInv, ForkInv, ChainOf, ByHeight
<1>4. /\ UndoableAbove(at) => UndoableAbove(at)'
      /\ UndoableAbove(fork) => UndoableAbove(fork)'
  BY <1>1 DEF UndoableAbove
<1>5. /\ TrialInv => TrialInv'
      /\ HeavierInv => HeavierInv'
      /\ FallingInv => FallingInv'
  BY <1>1, <1>4 DEF TrialInv, HeavierInv, FallingInv
<1>6. /\ MapsUpTo(at) => MapsUpTo(at)'
      /\ MapsUpTo(at - 1) => MapsUpTo(at - 1)'
  BY <1>1 DEF MapsUpTo
<1>7. RisingInv => RisingInv'
  BY <1>1, <1>4, <1>6 DEF RisingInv
<1>8. UNCHANGED <<pc, tip, utxo, diskTip, coins, bestBlock, old>>
  BY <1>1
<1>9. /\ coins' = IF bestBlock' = NoBlock THEN NoCoins ELSE UtxoAt[bestBlock']
      /\ pc' \in AtTip => bestBlock' = tip' /\ utxo' = UtxoAt[tip']
      /\ pc' = "genesisUtxo" => tip' = Genesis /\ bestBlock' = NoBlock /\ utxo' = UtxoAt[Genesis]
  BY <1>8 DEF IInv
<1> QED BY <1>2, <1>3, <1>5, <1>7, <1>8, <1>9 DEF IInv

(* The inductive invariant of the chain manager, when the process neither  *)
(* dies nor meets a write error while reorg commits.                       *)
THEOREM Invariance ==
    ASSUME CommitsComplete
    PROVE  Spec => []IInv
<1>1. Init => IInv
  BY InitIInv
<1>2. IInv /\ [Next]_vars => IInv'
  BY CompleteIsHarmless, NextIInv, StutterIInv
<1> QED BY <1>1, <1>2, PTL DEF Spec

(* Whenever the chain lock is free, the UTXO set in memory is the replay   *)
(* of the active chain (processBlock, reorg, Init, RescanUTXOSet).         *)
THEOREM UtxoFollowsTip ==
    ASSUME CommitsComplete
    PROVE  Spec => []UtxoMatchesTip
<1>1. IInv => UtxoMatchesTip
  BY DEF IInv, AtTip, UtxoMatchesTip
<1> QED BY <1>1, Invariance, PTL

(* The chainstate database is the replay of its best block's chain at      *)
(* every step, hence after every crash (persistUtxoChanges,                *)
(* persistUtxoDisconnect, flushUtxoSetToChainstate).                       *)
THEOREM ChainstateAlwaysReplay ==
    ASSUME CommitsComplete
    PROVE  Spec => []ChainstateIsReplay
<1>1. IInv => ChainstateIsReplay
  BY DEF IInv, ChainstateIsReplay
<1> QED BY <1>1, Invariance, PTL

(* Whenever the chain lock is free, the block index and the chainstate     *)
(* name the active tip.                                                    *)
THEOREM DiskFollowsTip ==
    ASSUME CommitsComplete
    PROVE  Spec => []DiskMatchesTip
<1>1. IInv => DiskMatchesTip
  BY DEF IInv, AtTip, RunningInv, DiskMatchesTip
<1> QED BY <1>1, Invariance, PTL

(* Whenever the chain lock is free, hashByHeight lists the chain of the    *)
(* tip and heightByHash contains it.                                       *)
THEOREM MapsFollowTip ==
    ASSUME CommitsComplete
    PROVE  Spec => []MapsDescribeTip
<1>1. IInv => MapsDescribeTip
  BY DEF IInv, RunningInv, Rising, MapsDescribeTip
<1> QED BY <1>1, Invariance, PTL

(* The recorded tip moves to a child, or reorg moves it.                   *)
LEMMA TipMoves ==
    ASSUME IInv, Harmless, Next, diskTip' # diskTip, diskTip # NoBlock
    PROVE  \/ diskTip' \in Block \ {Genesis} /\ Parent[diskTip'] = diskTip
           \/ ReorgTip
<1> CoreTypeOK
  BY DEF IInv
<1>1. CASE Restart
  <2>1. StoppedInv /\ diskTip' = bestBlock /\ bestBlock # NoBlock /\ bestBlock # diskTip
    BY <1>1 DEF Restart, RecoveredTip, IInv
  <2> QED BY <2>1 DEF StoppedInv, CoreTypeOK
<1>2. CASE ExtendTip
  <2>1. RunningInv /\ ExtendingInv
    BY <1>2 DEF ExtendTip, IInv, Extending
  <2> QED BY <1>2, <2>1 DEF ExtendTip, RunningInv, ExtendingInv, CoreTypeOK
<1>3. ~GenesisTip /\ ~CommitFails
  BY DEF GenesisTip, IInv, Harmless
<1>4. Restart \/ ExtendTip \/ ReorgTip
  BY <1>3
  DEF Next, Step, Call, Fault, Crash, InitGenesis, GenesisUtxo, NextParent, Return, RejectBlock,
      ExtendIndex, SideChain, ReorgIndex, ExtendUtxo, ReorgTooDeep, StartTrial, TrialDisconnect,
      TrialConnect, TrialFails, AbortReorg, DisconnectTip, ConnectNext, ConnectIndex,
      ProcessBlock, AddOrphan, EvictExpiredOrphans, RescanUTXOSet, StoreFails, SideIndexLost,
      ReorgIndexLost, ExtendFails, disk
<1> QED BY <1>1, <1>2, <1>4

(* A step moves the recorded tip only to a chain with more work.           *)
LEMMA TipStep ==
    ASSUME IInv, Harmless, Next, diskTip' # diskTip, diskTip # NoBlock
    PROVE  ChainWork[diskTip'] > ChainWork[diskTip]
<1>1. CASE diskTip' \in Block \ {Genesis} /\ Parent[diskTip'] = diskTip
  BY <1>1, ParentFacts
<1>2. CASE ReorgTip
  BY <1>2, ReorgTypes DEF ReorgTip, HeavierInv, RunningInv, CommitSteps
<1> QED BY <1>1, <1>2, TipMoves

(* The recorded tip moves only to chains with more work, through every     *)
(* extension, reorganisation, crash and restart (PutChainTip).             *)
THEOREM TipOnlyGains ==
    ASSUME CommitsComplete
    PROVE  Spec => TipWorkGrows
<1>1. IInv /\ [Next]_vars =>
          [diskTip' # diskTip /\ diskTip # NoBlock => ChainWork[diskTip'] > ChainWork[diskTip]]_vars
  BY CompleteIsHarmless, TipStep
<1> QED BY <1>1, Invariance, PTL DEF Spec, TipWorkGrows

-----------------------------------------------------------------------------
(* Up to the first failure, whatever may fail.                             *)

(* A step that is not a failure is harmless.                               *)
LEMMA FirstIsHarmless ==
    ASSUME failures \in Nat, Next, failures' = 0
    PROVE  failures = 0 /\ Harmless /\ (Step \/ Call)
<1>1. failures + 1 # 0
  BY SMT
<1>2. ~Crash /\ ~Fault
  BY <1>1 DEF Crash, Fault, StoreFails, SideIndexLost, ReorgIndexLost, ExtendFails, CommitFails,
            WriteFails
<1>3. Step \/ Call
  BY <1>2 DEF Next
<1>4. failures' = failures
  BY <1>3
  DEF Step, Call, InitGenesis, GenesisTip, GenesisUtxo, Restart, NextParent, Return, RejectBlock,
      ExtendIndex, SideChain, ReorgIndex, ExtendUtxo, ExtendTip, ReorgTooDeep, StartTrial,
      TrialDisconnect, TrialConnect, TrialFails, DisconnectTip, ConnectNext, ConnectIndex,
      ReorgTip, ProcessBlock, AddOrphan, EvictExpiredOrphans, RescanUTXOSet
<1> QED BY <1>2, <1>3, <1>4 DEF Harmless, Fault

(* Every step counts at most one failure.                                  *)
LEMMA FailureCount ==
    ASSUME failures \in Nat, Next
    PROVE  failures' \in Nat /\ (failures' = failures \/ failures' = failures + 1)
<1>1. failures' = failures \/ failures' = failures + 1
  BY DEF Next, Step, Call, Fault, Crash, InitGenesis, GenesisTip, GenesisUtxo, Restart, NextParent,
         Return, RejectBlock, ExtendIndex, SideChain, ReorgIndex, ExtendUtxo, ExtendTip,
         ReorgTooDeep, StartTrial, TrialDisconnect, TrialConnect, TrialFails, DisconnectTip,
         ConnectNext, ConnectIndex, ReorgTip, ProcessBlock, AddOrphan, EvictExpiredOrphans,
         RescanUTXOSet, StoreFails, SideIndexLost, ReorgIndexLost, ExtendFails, CommitFails,
         WriteFails
<1>2. failures + 1 \in Nat
  BY SMT
<1> QED BY <1>1, <1>2

(* Only a crash stops the process.                                         *)
LEMMA OffByCrash ==
    ASSUME Next, pc' = "off"
    PROVE  Crash
  BY DEF Next, Step, Call, Fault, InitGenesis, GenesisTip, GenesisUtxo, Restart, NextParent,
         Return, RejectBlock, ExtendIndex, SideChain, ReorgIndex, ExtendUtxo, ExtendTip,
         ReorgTooDeep, StartTrial, TrialDisconnect, TrialConnect, TrialFails, AbortReorg,
         DisconnectTip, ConnectNext, ConnectIndex, ReorgTip, ProcessBlock, AddOrphan,
         EvictExpiredOrphans, RescanUTXOSet, StoreFails, SideIndexLost, ReorgIndexLost,
         ExtendFails, CommitFails, Candidate

(* Until then what is known is no heavier than the tip, but for the branch *)
(* that reorg works on.                                                    *)
LEMMA HeaviestStep ==
    ASSUME IInv, HeaviestInv, MaxReorgDepth = 0, Step \/ Call
    PROVE  HeaviestInv'
<1> CoreTypeOK
  BY DEF IInv
<1> USE DEF Pending
<1>1. CASE InitGenesis
  BY <1>1 DEF InitGenesis, HeaviestInv, memory, work, ReorgSteps, CommitSteps
<1>2. CASE GenesisTip
  <2>1. ChainWork[Genesis] <= ChainWork[Genesis]
    BY SMT, TreeFacts
  <2> QED BY <1>2, <2>1 DEF GenesisTip, HeaviestInv, work, ReorgSteps, CommitSteps
<1>3. CASE GenesisUtxo
  BY <1>3 DEF GenesisUtxo, HeaviestInv, memory, work, ReorgSteps, CommitSteps
<1>4. ~Restart
  BY DEF Restart, HeaviestInv
<1>5. CASE \E b \in Block : ProcessBlock(b)
  BY <1>5 DEF ProcessBlock, HeaviestInv, memory, ReorgSteps, CommitSteps
<1>6. CASE EvictExpiredOrphans \/ RescanUTXOSet \/ \E b \in Block : AddOrphan(b)
  <2>1. UNCHANGED <<tip, known, pc, direct, batch>> /\ pc = "idle"
    BY <1>6 DEF AddOrphan, EvictExpiredOrphans, RescanUTXOSet, work
  <2> QED BY <2>1 DEF HeaviestInv, ReorgSteps, CommitSteps
<1>7. CASE NextParent \/ Return
  BY <1>7 DEF NextParent, Return, Pruned, HeaviestInv, ReorgSteps, CommitSteps
<1>8. CASE \E b \in Block : RejectBlock(b)
  <2>1. batch' \subseteq batch /\ UNCHANGED <<tip, known, pc, direct>> /\ pc = "block"
    BY <1>8 DEF RejectBlock, memory
  <2> QED BY <2>1 DEF HeaviestInv, ReorgSteps, CommitSteps
<1>9. CASE \E b \in Block : ExtendIndex(b)
  <2>1. UNCHANGED <<tip, known, direct, batch>> /\ pc = "block" /\ pc' = "extendUtxo"
    BY <1>9 DEF ExtendIndex, Candidate, work
  <2> QED BY <2>1 DEF HeaviestInv, ReorgSteps, CommitSteps
<1>10. CASE ExtendUtxo
  BY <1>10 DEF ExtendUtxo, HeaviestInv, memory, work, ReorgSteps, CommitSteps
<1>11. CASE ExtendTip
  <2>1. blk \in Block \ {Genesis} /\ Parent[blk] = tip /\ tip \in Block
    BY <1>11 DEF ExtendTip, IInv, ExtendingInv, RunningInv, Extending, CoreTypeOK
  <2>2. \A b \in known : ChainWork[b] <= ChainWork[tip]
    BY <1>11 DEF ExtendTip, HeaviestInv, ReorgSteps, CommitSteps
  <2>3. \A b \in known \cup {blk} : ChainWork[b] <= ChainWork[blk]
    BY SMT, <2>1, <2>2, ParentFacts, TreeFacts DEF CoreTypeOK
  <2> QED BY <1>11, <2>3 DEF ExtendTip, HeaviestInv, ReorgSteps, CommitSteps
<1>12. ASSUME NEW b \in Block, SideChain(b)
       PROVE  HeaviestInv'
  <2>1. /\ pc = "block" /\ pc' = pc /\ tip' = tip /\ direct' = direct
        /\ known' = known \cup {b} /\ batch' = batch \ {b} /\ ChainWork[b] <= ChainWork[tip]
    BY <1>12 DEF SideChain, Candidate
  <2>2. \A x \in known : ChainWork[x] <= ChainWork[tip]
    BY <2>1 DEF HeaviestInv, ReorgSteps, CommitSteps
  <2>3. direct => batch \cap known = {}
    BY <2>1 DEF HeaviestInv, CommitSteps
  <2> QED BY <2>1, <2>2, <2>3 DEF HeaviestInv, ReorgSteps, CommitSteps
<1>13. ASSUME NEW b \in Block, ReorgIndex(b)
       PROVE  HeaviestInv'
  <2>1. /\ pc = "block" /\ pc' = "fork" /\ UNCHANGED <<tip, direct, batch>> /\ b \in batch
        /\ known' = (IF direct THEN known ELSE known \cup {b}) /\ blk' = b
    BY <1>13 DEF ReorgIndex, Candidate, work
  <2>2. \A x \in known : ChainWork[x] <= ChainWork[tip]
    BY <2>1 DEF HeaviestInv, ReorgSteps, CommitSteps
  <2>3. direct => batch \cap known = {} /\ b \notin known
    BY <2>1 DEF HeaviestInv, CommitSteps
  <2>4. pc' \in ReorgSteps
    BY <2>1 DEF ReorgSteps
  <2>5. \A x \in known' : ChainWork[x] <= ChainWork[tip] \/ x = b
    BY <2>1, <2>2
  <2> QED BY <2>1, <2>3, <2>4, <2>5 DEF HeaviestInv
<1>14. ASSUME NEW h \in Heights
       PROVE  ~ReorgTooDeep(h)
  BY SMT DEF ReorgTooDeep
<1>15. CASE \E h \in Heights : StartTrial(h)
  <2>1. UNCHANGED <<tip, known, direct, batch, blk>> /\ pc \in ReorgSteps /\ pc' \in ReorgSteps
    BY <1>15 DEF StartTrial, work, ReorgSteps
  <2> QED BY <2>1 DEF HeaviestInv, ReorgSteps, CommitSteps
<1>16. CASE TrialDisconnect
  BY <1>16 DEF TrialDisconnect, HeaviestInv, memory, work, ReorgSteps, CommitSteps
<1>17. CASE TrialConnect
  <2>1. blk \in ChainOf(blk) /\ ChainOf(blk)' = ChainOf(blk)
    <3>1. blk \in Block
      BY <1>17, ReorgTypes DEF TrialConnect, ReorgSteps
    <3>2. Height[blk] \in 0..Height[blk] /\ AncestorAt[blk][Height[blk]] = blk
      BY SMT, <3>1, OwnHeight
    <3> QED BY <1>17, <3>2 DEF ChainOf, TrialConnect
  <2> QED BY <1>17, <2>1 DEF TrialConnect, HeaviestInv, memory, work, ReorgSteps, CommitSteps
<1>18. CASE TrialFails
  BY <1>18 DEF TrialFails, AbortReorg, HeaviestInv, ReorgSteps, CommitSteps
<1>19. CASE DisconnectTip \/ ConnectNext
  <2>1. ChainOf(blk)' = ChainOf(blk)
    BY <1>19 DEF ChainOf, DisconnectTip, ConnectNext
  <2> QED BY <1>19, <2>1 DEF DisconnectTip, ConnectNext, HeaviestInv, work, ReorgSteps, CommitSteps
<1>20. CASE ConnectIndex
  <2>1. ChainOf(blk)' = ChainOf(blk)
    BY <1>20 DEF ChainOf, ConnectIndex, locals
  <2>2. AncestorAt[blk][at] \in ChainOf(blk)
    <3>1. at \in Nat /\ at <= Height[blk] /\ Height[blk] \in Nat
      BY <1>20, ReorgTypes DEF ConnectIndex, IInv, RisingInv, Rising, CommitSteps
    <3>2. at \in 0..Height[blk]
      BY SMT, <3>1
    <3> QED BY <3>2 DEF ChainOf
  <2> QED BY <1>20, <2>1, <2>2 DEF ConnectIndex, HeaviestInv, work, locals, ReorgSteps, CommitSteps
<1>21. CASE ReorgTip
  <2>1. tip \in Block /\ blk \in Block /\ ChainWork[blk] > ChainWork[tip]
    BY <1>21, ReorgTypes DEF ReorgTip, HeavierInv, CommitSteps
  <2>2. \A b \in known : ChainWork[b] <= ChainWork[tip] \/ b \in ChainOf(blk)
    BY <1>21 DEF ReorgTip, HeaviestInv, ReorgSteps, CommitSteps
  <2>3. \A b \in ChainOf(blk) : ChainWork[b] <= ChainWork[blk]
    BY <2>1, AncestorFacts DEF ChainOf
  <2>4. \A b \in known : ChainWork[b] <= ChainWork[blk]
    BY SMT, <2>1, <2>2, <2>3, TreeFacts DEF CoreTypeOK
  <2> QED BY <1>21, <2>4 DEF ReorgTip, HeaviestInv, ReorgSteps, CommitSteps
<1>22. CASE Call
  BY <1>5, <1>6, <1>22 DEF Call
<1> QED BY <1>1, <1>2, <1>3, <1>4, <1>7, <1>8, <1>9, <1>10, <1>11, <1>12, <1>13, <1>14, <1>15,
           <1>16, <1>17, <1>18, <1>19, <1>20, <1>21, <1>22
        DEF Step

(* The invariant holds in a fresh data directory and through every step.   *)
LEMMA FirstInvariance == Spec => []FirstFailureInv
<1>1. Init => FirstFailureInv
  <2> SUFFICES ASSUME Init
               PROVE  FirstFailureInv
    OBVIOUS
  <2>1. 0 \in Nat /\ 0 # 1
    BY SMT
  <2> QED BY <2>1, InitIInv DEF FirstFailureInv, HeaviestInv, Init, ReorgSteps
<1>2. FirstFailureInv /\ [Next]_vars => FirstFailureInv'
  <2> SUFFICES ASSUME FirstFailureInv, [Next]_vars
               PROVE  FirstFailureInv'
    OBVIOUS
  <2> failures \in Nat
    BY DEF FirstFailureInv
  <2>1. CASE Next
    <3>1. failures' \in Nat /\ (failures' = failures \/ failures' = failures + 1)
      BY <2>1, FailureCount
    <3>2. failures' = 0 => IInv' /\ (MaxReorgDepth = 0 => HeaviestInv')
      BY <2>1, FirstIsHarmless, NextIInv, HeaviestStep DEF FirstFailureInv
    <3>3. ASSUME failures' = 1, pc' = "off"
          PROVE  ChainstateIsReplay'
      <4>1. Crash
        BY <2>1, <3>3, OffByCrash
      <4>2. failures = 0
        BY SMT, <3>3, <4>1 DEF Crash
      <4> QED BY <4>1, <4>2 DEF FirstFailureInv, IInv, ChainstateIsReplay, Crash, disk
    <3> QED BY <3>1, <3>2, <3>3 DEF FirstFailureInv
  <2>2. CASE UNCHANGED vars
    <3>1. IInv => IInv'
      BY <2>2, StutterIInv
    <3>2. UNCHANGED <<tip, known, diskTip, coins, bestBlock, pc, direct, batch, blk, failures>>
      BY <2>2 DEF vars, memory, disk, work, locals
    <3>3. HeaviestInv => HeaviestInv'
      BY <3>2 DEF HeaviestInv, Pending, ChainOf
    <3> QED BY <3>1, <3>2, <3>3 DEF FirstFailureInv, ChainstateIsReplay
  <2> QED BY <2>1, <2>2
<1> QED BY <1>1, <1>2, PTL DEF Spec

(* After the first crash, at whatever step of whatever call, the UTXO set  *)
(* Init settles on is the replay of the tip it settles on; nothing is      *)
(* assumed about where crashes and write errors may fall.                  *)
THEOREM FirstRecovery == Spec => []RecoveryReplays
<1>1. FirstFailureInv => RecoveryReplays
  <2> SUFFICES ASSUME FirstFailureInv, pc = "off", diskTip # NoBlock, failures <= 1
               PROVE  RecoveredUtxo = UtxoAt[RecoveredTip]
    BY DEF RecoveryReplays
  <2>1. failures = 0 \/ failures = 1
    BY SMT DEF FirstFailureInv
  <2>2. ChainstateIsReplay
    BY <2>1 DEF FirstFailureInv, IInv, ChainstateIsReplay
  <2>3. RecoveredTip # NoBlock
    BY DEF RecoveredTip
  <2> QED BY <2>2, <2>3 DEF RecoveredUtxo, ChainstateIsReplay
<1> QED BY <1>1, FirstInvariance, PTL

(* Until the first failure and without a depth limit, no block the node    *)
(* knows of has more work than its tip: no chain of deliveries, orphans    *)
(* and abandoned reorganisations leaves a heavier branch behind.           *)
THEOREM TipIsHeaviest == Spec => []MostWork
<1>1. FirstFailureInv => MostWork
  BY DEF FirstFailureInv, HeaviestInv, Pending, MostWork, ReorgSteps, CommitSteps
<1> QED BY <1>1, FirstInvariance, PTL

=============================================================================
