------------------------------ MODULE BlockTree ------------------------------
(***************************************************************************)
(* The data the chain manager works on, abstracted to what it tells apart: *)
(* a tree of blocks and, for each block, the coins (transaction outputs)   *)
(* its transactions consume and create.  A UTXO set maps every coin to the *)
(* height of the block that created it, or to Absent.                      *)
(*                                                                         *)
(* The replay of a chain is a function of the tree; it is given with the   *)
(* recurrence it satisfies (CoinAssumption).                               *)
(***************************************************************************)
EXTENDS HeaderTree

CONSTANTS
    Coin,        \* transaction outputs (txid, index)
    Spends,      \* Spends[b]: coins of earlier blocks that b consumes
    Creates,     \* Creates[b]: outputs of b that b itself does not consume
    UtxoAt,      \* UtxoAt[b]: replay of the chain of b from genesis
    Malformed,   \* blocks FullValidateHeader or ValidateBlock rejects
    BadTx        \* blocks ValidateTransactionInputs rejects on any set

Absent == -1

UtxoSets == [Coin -> Int]

(* utxo.Set.ConnectBlock: consumed coins go, created coins appear with the *)
(* height of the block.                                                    *)
Connect(set, b) ==
    [c \in Coin |-> IF c \in Creates[b] THEN Height[b]
                    ELSE IF c \in Spends[b] THEN Absent ELSE set[c]]

(* The BlockUndoData that ConnectBlock returns: the consumed entries.      *)
UndoOf(set, b) == [c \in Coin |-> IF c \in Spends[b] THEN set[c] ELSE Absent]

(* utxo.Set.DisconnectBlock: the block's outputs go, the undo entries come *)
(* back.                                                                   *)
Disconnect(set, b, undoData) ==
    [c \in Coin |-> IF undoData[c] # Absent THEN undoData[c]
                    ELSE IF c \in Creates[b] THEN Absent ELSE set[c]]

NoCoins == [c \in Coin |-> Absent]

(***************************************************************************)
(* The coins: UtxoAt is what connecting the blocks of a chain in order     *)
(* yields, starting from the outputs of genesis.  No chain creates a coin  *)
(* twice: a coinbase commits to its height, so no two transactions of one  *)
(* chain have the same id.                                                 *)
(***************************************************************************)
ASSUME CoinAssumption ==
    /\ Spends \in [Block -> SUBSET Coin]
    /\ Creates \in [Block -> SUBSET Coin]
    /\ UtxoAt \in [Block -> UtxoSets]
    /\ UtxoAt[Genesis] = [c \in Coin |-> IF c \in Creates[Genesis] THEN 0 ELSE Absent]
    /\ \A b \in Block \ {Genesis} :
          /\ UtxoAt[b] = Connect(UtxoAt[Parent[b]], b)
          /\ Spends[b] \cap Creates[b] = {}
          /\ \A c \in Creates[b] : UtxoAt[Parent[b]][c] = Absent

ASSUME ValidityAssumption ==
    Malformed \subseteq Block \ {Genesis} /\ BadTx \subseteq Block \ {Genesis}

(* ValidateTransactionInputs: every consumed coin is in the set.           *)
TxInputsOk(b, set) == b \notin BadTx /\ \A c \in Spends[b] : set[c] # Absent

(* Every block of the chain of b is well-formed and spends only what its   *)
(* own chain left unspent.                                                 *)
ValidChain(b) ==
    \A x \in ChainOf(b) \ {Genesis} : x \notin Malformed /\ TxInputsOk(x, UtxoAt[Parent[x]])

=============================================================================
