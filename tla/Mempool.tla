------------------------------ MODULE Mempool ------------------------------
(***************************************************************************)
(* The memory pool (internal/mempool/mempool.go): the pooled transactions, *)
(* the index of the outpoints they spend, and their total size.  Every     *)
(* operation holds the pool's lock; AddTx, which looks at the live coins   *)
(* and asks the chain for its height while holding it, is three steps, and *)
(* `adding' is the lock together with AddTx's local state.                 *)
(***************************************************************************)
EXTENDS TxRules

CONSTANTS
    NoTx,
    Hash,               \* the order of transaction hashes
    MinRelayTxFee, MinRelayTxFeeRate,
    MaxMempoolSize,     \* transactions
    MaxMempoolBytes

ASSUME PoolAssumption ==
    /\ NoTx \notin Tx
    /\ MaxMempoolSize \in Nat \ {0} /\ MaxMempoolBytes \in Nat

VARIABLES
    txs,                \* the pooled transactions
    spentOutpoints,     \* [Coin -> Tx \cup {NoTx}]
    totalBytes,
    adding              \* the transaction AddTx works on, or none

poolVars == <<txs, spentOutpoints, totalBytes, adding>>

Idle == [tx |-> NoTx, supplemental |-> {}, tipHeight |-> Absent]

NoSpent == [c \in Coin |-> NoTx]

(* New.                                                                    *)
NewPool == txs = {} /\ spentOutpoints = NoSpent /\ totalBytes = 0

SizeOf(S) == SumFunction([t \in S |-> Size[t]])

FeeRate(t) == Fee(t) \div Size[t]

(* feeHeap.Less, the order of eviction.                                    *)
Below(t, u) ==
    \/ FeeRate(t) < FeeRate(u)
    \/ FeeRate(t) = FeeRate(u) /\ Hash[t] < Hash[u]

(* As SpentWithout, but the index keeps the outpoints of what is removed.  *)
SpentWithout_Kept(S) == spentOutpoints

(* removeTxUnsafe for each of S: the index loses the keys of their inputs. *)
SpentWithout(S) ==
    [c \in Coin |-> IF \E t \in S \cap txs : c \in Ins[t] THEN NoTx ELSE spentOutpoints[c]]

RemoveAll(S) ==
    /\ txs' = txs \ S
    /\ spentOutpoints' = SpentWithout(S)
    /\ totalBytes' = totalBytes - SizeOf(S \cap txs)

(* As Full, but the pool may hold one transaction too many.                *)
Full_OffByOne(S, t) ==
    S # {} /\ (Cardinality(S) > MaxMempoolSize \/ SizeOf(S) + Size[t] > MaxMempoolBytes)

(* The conditions of AddTx's two eviction loops.                           *)
Full(S, t) ==
    S # {} /\ (Cardinality(S) >= MaxMempoolSize \/ SizeOf(S) + Size[t] > MaxMempoolBytes)

(* What the eviction loops throw out to make room for t: the fewest of the *)
(* lowest in fee rate.                                                     *)
Evicted(t) ==
    LET Lowest(u) == {w \in txs : w = u \/ Below(w, u)}
        Enough == {S \in {{}} \cup {Lowest(u) : u \in txs} : ~Full(txs \ S, t)}
    IN  CHOOSE S \in Enough : \A R \in Enough : S \subseteq R

(* The outputs of pooled parents that the live coins lack.                 *)
Supplemental(t, view) == {c \in Ins[t] : view[c] = Absent /\ \E p \in txs : c \in Outs[p]}

(* AddTx up to the unconfirmed parents: t is new, conflicts with nothing   *)
(* pooled, and its supplementary coins are set aside.  A refusal changes   *)
(* nothing.                                                                *)
AddTxBegin(t, view) ==
    /\ adding = Idle
    /\ t \notin txs
    /\ \A c \in Ins[t] : spentOutpoints[c] = NoTx
    /\ adding' = [Idle EXCEPT !.tx = t, !.supplemental = Supplemental(t, view)]
    /\ UNCHANGED <<txs, spentOutpoints, totalBytes>>

(* tipHeightFn.                                                            *)
AddTxHeight(tipHeight) ==
    /\ adding.tx # NoTx /\ adding.tipHeight = Absent
    /\ adding' = [adding EXCEPT !.tipHeight = tipHeight]
    /\ UNCHANGED <<txs, spentOutpoints, totalBytes>>

RelayFeeMet(t) == Fee(t) >= MinRelayTxFee /\ FeeRate(t) >= MinRelayTxFeeRate

Insert(t) ==
    LET S == Evicted(t) IN
    /\ txs' = (txs \ S) \cup {t}
    /\ spentOutpoints' = [c \in Coin |-> IF c \in Ins[t] THEN t ELSE SpentWithout(S)[c]]
    /\ totalBytes' = totalBytes - SizeOf(S) + Size[t]

(* The rest of AddTx, with the coins and the clock as they are now.        *)
AddTxEnd(view, clock) ==
    LET t == adding.tx IN
    /\ t # NoTx /\ adding.tipHeight # Absent
    /\ adding' = Idle
    /\ \/ /\ ValidateSingleTransaction(t, view, adding.tipHeight, clock, adding.supplemental)
          /\ RelayFeeMet(t)
          /\ Insert(t)
       \/ /\ ~(/\ ValidateSingleTransaction(t, view, adding.tipHeight, clock, adding.supplemental)
               /\ RelayFeeMet(t))
          /\ UNCHANGED <<txs, spentOutpoints, totalBytes>>

(* RemoveTxs, with the hashes of an accepted block.                        *)
RemoveTxs(S) == adding = Idle /\ RemoveAll(S) /\ UNCHANGED adding

(* ExpireOldTxs: S is what has been pooled for longer than MempoolExpiry.  *)
ExpireOldTxs(S) == S # {} /\ adding = Idle /\ RemoveAll(S) /\ UNCHANGED adding

(* The order of BlockTemplate: by falling fee rate, then by hash.          *)
Before(t, u) ==
    \/ FeeRate(t) > FeeRate(u)
    \/ FeeRate(t) = FeeRate(u) /\ Hash[t] < Hash[u]

(* As BlockTemplate, but in the order of eviction.                         *)
BlockTemplate_Ascending ==
    CHOOSE s \in [1..Cardinality(txs) -> txs] :
        \A i, j \in DOMAIN s : i < j => Below(s[i], s[j])

(* BlockTemplate: the whole pool in that order.                            *)
BlockTemplate ==
    CHOOSE s \in [1..Cardinality(txs) -> txs] :
        \A i, j \in DOMAIN s : i < j => Before(s[i], s[j])

=============================================================================
