----------------------------- MODULE HeaderTree -----------------------------
(***************************************************************************)
(* The tree of blocks (equivalently, of block headers) that a node may     *)
(* ever be given.  Everything here is a constant: heights and cumulative   *)
(* work are functions of the tree.  They are given as functions with the   *)
(* recurrences they satisfy (TreeAssumption) and an MC module computes     *)
(* them for a concrete tree.                                               *)
(***************************************************************************)
EXTENDS Integers, FiniteSets

CONSTANTS
    Block,       \* every block that may ever be delivered, genesis included
    Genesis,     \* params.GenesisBlock
    NoBlock,     \* "no hash": an absent map entry or database key
    Parent,      \* Parent[b]: Header.PrevBlock
    Height,      \* Height[b]: distance from genesis
    ChainWork,   \* ChainWork[b]: DiskBlockIndex.ChainWork, HeaderNode.Work
    AncestorAt   \* AncestorAt[b][h]: the block at height h on the chain of b

(***************************************************************************)
(* The tree: work and height accumulate along the parent link, and         *)
(* AncestorAt[b] lists the chain of b by height.  The last conjunct holds  *)
(* the facts of a tree that follow by induction: an ancestor sits at its   *)
(* own height, has no more work than b, and its chain is a prefix of b's.  *)
(***************************************************************************)
ASSUME TreeAssumption ==
    /\ Genesis \in Block /\ NoBlock \notin Block
    /\ Parent \in [Block -> Block \cup {NoBlock}] /\ Parent[Genesis] = NoBlock
    /\ Height \in [Block -> Nat] /\ Height[Genesis] = 0
    /\ ChainWork \in [Block -> Nat]
    /\ \A b \in Block \ {Genesis} :
          /\ Parent[b] \in Block
          /\ Height[b] = Height[Parent[b]] + 1
          /\ ChainWork[b] > ChainWork[Parent[b]]
    /\ \A b \in Block :
          /\ AncestorAt[b] \in [0..Height[b] -> Block]
          /\ AncestorAt[b][Height[b]] = b
          /\ b # Genesis => \A h \in 0..Height[Parent[b]] :
                               AncestorAt[b][h] = AncestorAt[Parent[b]][h]
    /\ \A b \in Block : \A h \in 0..Height[b] :
          /\ Height[AncestorAt[b][h]] = h
          /\ ChainWork[AncestorAt[b][h]] <= ChainWork[b]
          /\ \A k \in 0..h : AncestorAt[AncestorAt[b][h]][k] = AncestorAt[b][k]

(* The blocks of the chain that ends in b.                                 *)
ChainOf(b) == {AncestorAt[b][h] : h \in 0..Height[b]}

Heights == {Height[b] : b \in Block}

(* hashByHeight for the active chain that ends in b.                       *)
ByHeight(b) == [h \in Heights |-> IF h <= Height[b] THEN AncestorAt[b][h] ELSE NoBlock]

=============================================================================
