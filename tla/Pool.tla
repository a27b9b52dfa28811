-------------------------------- MODULE Pool --------------------------------
(***************************************************************************)
(* The memory pool among the parts that use it: the chain, whose live coin *)
(* set AddTx reads without the chain's lock; the handlers that tell the    *)
(* pool which transactions a new block confirmed, after the chain has      *)
(* moved; the built-in miner; and the node's shutdown and start, with the  *)
(* pool on disk in between.                                                *)
(*                                                                         *)
(* The chain is reduced to what the pool sees of it: the blocks since a    *)
(* base, a block that competes with the last one, and reorganisations of   *)
(* depth one.  The hash of a tip stands for all that is below it, so a tip *)
(* is the sequence of blocks itself.                                       *)
(***************************************************************************)
EXTENDS Mempool, Middle

CONSTANTS
    BaseHeight, BaseView, BaseTime,     \* the chain the model starts from
    PeerBodies,                         \* the blocks' bodies that peers and submitblock bring
    MaxBlocks,                          \* bound on the chain's growth
    MaxClock,                           \* bound on the clock
    MaxBlockTxCount, MaxBlockSize

ASSUME BaseAssumption ==
    BaseHeight \in Nat /\ BaseView \in [Coin -> Nat \cup {Absent}]

VARIABLES
    chain,          \* the active chain: blocks [body, time]
    side,           \* at most one block competing with the last, as a sequence
    coins,          \* the live coin set
    target,         \* during a reorganisation's commit, the chain it leads to
    confirmed,      \* the bodies whose RemoveTxs is still to come
    clock,
    miner,          \* the local state of MineOne; sameHeader and sameTip record whether
                    \* the tip header, and the transactions, were read at that tip
    loading         \* during New, the transactions of mempool.dat still to be added

chainVars == <<chain, side, coins, target>>
vars == <<poolVars, chainVars, confirmed, clock, miner, loading>>

Height(ch) == BaseHeight + Len(ch)

(* The coins after the blocks of ch.                                       *)
CoinsOf(ch) ==
    LET at[n \in 0..Len(ch)] ==
            IF n = 0 THEN BaseView ELSE Connected(ch[n].body, at[n - 1], BaseHeight + n)
    IN  at[Len(ch)]

MedianTimePast(ch) == Median([i \in 1..Len(ch) + 1 |-> IF i = 1 THEN BaseTime ELSE ch[i - 1].time])

ValidBlock(ch, b) ==
    ValidateTransactionInputs(b.body, CoinsOf(ch), Height(ch) + 1, MedianTimePast(ch))

NewBlock(body) == [body |-> body, time |-> clock]

AtRest == [pc |-> "rest", tip |-> <<>>, sameHeader |-> TRUE, sameTip |-> TRUE, txs |-> <<>>]

Init ==
    /\ NewPool /\ adding = Idle
    /\ chain = <<>> /\ side = <<>> /\ coins = BaseView /\ target = <<>>
    /\ confirmed = {} /\ clock = BaseTime + 1
    /\ miner = AtRest
    /\ loading = {}

(* Handlers run once New has loaded mempool.dat.                           *)
Running == loading = {}

(* The chain's lock is free: no reorganisation is being committed.         *)
Unlocked == target = <<>>

-----------------------------------------------------------------------------
(* handleTx and sendrawtransaction.                                        *)
Offer(t) ==
    /\ Running /\ AddTxBegin(t, coins)
    /\ UNCHANGED <<chainVars, confirmed, clock, miner, loading>>

AskHeight ==
    /\ Running /\ Unlocked /\ AddTxHeight(Height(chain))
    /\ UNCHANGED <<chainVars, confirmed, clock, miner, loading>>

Admit ==
    /\ Running /\ AddTxEnd(coins, clock)
    /\ UNCHANGED <<chainVars, confirmed, clock, miner, loading>>

(* The mempoolExpiryLoop.                                                  *)
Expire(S) ==
    /\ Running /\ ExpireOldTxs(S)
    /\ UNCHANGED <<chainVars, confirmed, clock, miner, loading>>

(* ProcessBlock extends the tip, and the handler goes on to RemoveTxs.     *)
Extend(b) ==
    /\ ValidBlock(chain, b)
    /\ chain' = Append(chain, b)
    /\ coins' = Connected(b.body, coins, Height(chain) + 1)
    /\ side' = <<>>
    /\ confirmed' = confirmed \cup {Range(b.body)}

(* ProcessBlock stores a block that does not have the most work:           *)
(* ErrSideChain, and the handler returns.  Its inputs are not checked.     *)
StoreSide(b) ==
    /\ chain # <<>> /\ side = <<>> /\ b # chain[Len(chain)]
    /\ side' = <<b>>
    /\ UNCHANGED <<chain, coins, confirmed>>

BlockArrives(body) ==
    /\ Running /\ Unlocked /\ Len(chain) < MaxBlocks
    /\ Extend(NewBlock(body)) \/ StoreSide(NewBlock(body))
    /\ UNCHANGED <<poolVars, target, clock, miner, loading>>

(* A block on top of the side block makes that branch the best.  After the *)
(* trial, the commit disconnects the old tip from the live coins...        *)
ReorgBegin(body) ==
    LET fork == SubSeq(chain, 1, Len(chain) - 1) IN
    /\ Running /\ Unlocked /\ side # <<>> /\ Len(chain) < MaxBlocks
    /\ ValidBlock(fork, side[1]) /\ ValidBlock(fork \o side, NewBlock(body))
    /\ target' = Append(fork \o side, NewBlock(body))
    /\ coins' = CoinsOf(fork)
    /\ UNCHANGED <<poolVars, chain, side, confirmed, clock, miner, loading>>

(* ... and connects the new blocks.  The handler will remove the           *)
(* transactions of the block that it was given, and of no other.           *)
ReorgEnd ==
    /\ ~Unlocked
    /\ chain' = target /\ coins' = CoinsOf(target)
    /\ side' = <<>> /\ target' = <<>>
    /\ confirmed' = confirmed \cup {Range(target[Len(target)].body)}
    /\ UNCHANGED <<poolVars, clock, miner, loading>>

(* The handler of an accepted block reaches RemoveTxs.                     *)
Confirm(S) ==
    /\ S \in confirmed /\ RemoveTxs(S)
    /\ confirmed' = confirmed \ {S}
    /\ UNCHANGED <<chainVars, clock, miner, loading>>

Tick ==
    /\ Running /\ clock < MaxClock
    /\ clock' = clock + 1
    /\ UNCHANGED <<poolVars, chainVars, confirmed, miner, loading>>

-----------------------------------------------------------------------------
(* MineOne.                                                                *)
MinerTip ==
    /\ Running /\ Unlocked /\ miner.pc = "rest" /\ Len(chain) < MaxBlocks
    /\ miner' = [miner EXCEPT !.pc = "tip", !.tip = chain]
    /\ UNCHANGED <<poolVars, chainVars, confirmed, clock, loading>>

MinerHeader ==
    /\ Unlocked /\ miner.pc = "tip"
    /\ miner' = [miner EXCEPT !.pc = "header", !.sameHeader = (miner.tip = chain)]
    /\ UNCHANGED <<poolVars, chainVars, confirmed, clock, loading>>

(* The loop over the template, which ends at the first transaction that    *)
(* the block's limits leave out.                                           *)
Included(template) ==
    LET Fits(n) == n < MaxBlockTxCount /\ SizeOf(Range(SubSeq(template, 1, n))) <= MaxBlockSize
        n == CHOOSE k \in 0..Len(template) :
                 /\ Fits(k)
                 /\ k = Len(template) \/ ~Fits(k + 1)
    IN  SubSeq(template, 1, n)

MinerTemplate ==
    /\ miner.pc = "header" /\ adding = Idle
    /\ miner' = [miner EXCEPT !.pc = "template", !.sameTip = (miner.tip = chain),
                                     !.txs = Included(BlockTemplate)]
    /\ UNCHANGED <<poolVars, chainVars, confirmed, clock, loading>>

(* As TipUnchanged, but without the check.                                 *)
TipUnchanged_Unchecked == TRUE

(* The comparison with the current tip in MineOne's loop, in each worker   *)
(* of searchNonceSpace, and again when a nonce has been found.             *)
TipUnchanged == miner.tip = chain

MinerSearch ==
    /\ Unlocked /\ miner.pc = "template"
    /\ miner' = IF TipUnchanged THEN [miner EXCEPT !.pc = "found"] ELSE AtRest
    /\ UNCHANGED <<poolVars, chainVars, confirmed, clock, loading>>

(* onBlock: ProcessBlock, then RemoveTxs when it extended the chain.  A    *)
(* block whose tip has been passed since is kept as a side block, or       *)
(* plays no further part.                                                  *)
MinerSubmit ==
    LET b == NewBlock(miner.txs) IN
    /\ Unlocked /\ miner.pc = "found"
    /\ miner' = AtRest
    /\ \/ miner.tip = chain /\ Extend(b)
       \/ miner.tip = SubSeq(chain, 1, Len(chain) - 1) /\ StoreSide(b)
       \/ /\ miner.tip = chain => ~ValidBlock(chain, b)
          /\ UNCHANGED <<chain, side, coins, confirmed>>
    /\ UNCHANGED <<poolVars, target, clock, loading>>

-----------------------------------------------------------------------------
(* Stop writes mempool.dat unless the pool is empty.  Then, and after a    *)
(* crash, the file is that of some earlier run.  New starts with an empty  *)
(* pool and adds what the file holds, in no particular order, except what  *)
(* has expired since.                                                      *)
Restart(clean) ==
    /\ Running /\ Unlocked
    /\ clean => adding = Idle
    /\ loading' \in IF clean /\ txs # {} THEN SUBSET txs
                   ELSE {S \in SUBSET Tx : Cardinality(S) <= MaxMempoolSize}
    /\ txs' = {} /\ spentOutpoints' = NoSpent /\ totalBytes' = 0
    /\ adding' = Idle /\ confirmed' = {} /\ miner' = AtRest
    /\ UNCHANGED <<chainVars, clock>>

(* LoadFromBytes, one transaction: AddTx with nothing else running.        *)
Load(t) ==
    /\ adding = Idle
    /\ loading' = loading \ {t}
    /\ IF /\ \A c \in Ins[t] : spentOutpoints[c] = NoTx
          /\ ValidateSingleTransaction(t, coins, Height(chain), clock, Supplemental(t, coins))
          /\ RelayFeeMet(t)
       THEN Insert(t)
       ELSE UNCHANGED <<txs, spentOutpoints, totalBytes>>
    /\ UNCHANGED <<adding, chainVars, confirmed, clock, miner>>

Next ==
    \/ \E t \in Tx : Offer(t)
    \/ AskHeight \/ Admit
    \/ \E S \in SUBSET txs : Expire(S)
    \/ \E body \in PeerBodies : BlockArrives(body) \/ ReorgBegin(body)
    \/ ReorgEnd
    \/ \E S \in confirmed : Confirm(S)
    \/ Tick
    \/ MinerTip \/ MinerHeader \/ MinerTemplate \/ MinerSearch \/ MinerSubmit
    \/ \E clean \in BOOLEAN : Restart(clean)
    \/ \E t \in loading : Load(t)

Spec == Init /\ [][Next]_vars

-----------------------------------------------------------------------------
(* The index of spent outpoints, on which the detection of double spends   *)
(* rests, names for each outpoint the one pooled transaction that spends   *)
(* it: through admission, eviction, expiry, confirmation and reloading no  *)
(* key is lost while its spender is pooled, none outlives it, and no two   *)
(* pooled transactions share an input (spentOutpoints in AddTx and         *)
(* removeTxUnsafe).                                                        *)
SpentIndexExact ==
    \A c \in Coin, t \in Tx : spentOutpoints[c] = t <=> t \in txs /\ c \in Ins[t]

(* The pool never holds more than MaxMempoolSize transactions nor, once it *)
(* has more than one, more than maxMempoolBytes bytes, and the running     *)
(* total that the second limit is enforced with never drifts from the      *)
(* sizes it sums.                                                          *)
PoolWithinLimits ==
    /\ totalBytes = SizeOf(txs)
    /\ Cardinality(txs) <= MaxMempoolSize
    /\ Cardinality(txs) > 1 => totalBytes <= MaxMempoolBytes

(* The pooled transactions that a template may contain although the next   *)
(* block could not: an input is neither confirmed nor created in the pool  *)
(* (RemoveTxs leaves conflicts and descendants behind); a lock was tested  *)
(* against the wall clock, or a height since reorganised away.             *)
Stale(t) ==
    \/ \E c \in Ins[t] : coins[c] = Absent /\ \A p \in txs : c \notin Outs[p]
    \/ ~IsFinal(t, Height(chain) + 1, MedianTimePast(chain))
    \/ ~SequenceLocksMet(t, Height(chain) + 1, coins)

(* A child that pays a better rate than its unconfirmed parent comes first *)
(* in the template.                                                        *)
Outbids(t, p) == Ins[t] \cap Outs[p] # {} /\ ~Before(p, t)

(* BlockTemplate gives the body of a valid block, whatever was admitted,   *)
(* evicted, confirmed or reorganised away, unless a pooled transaction is  *)
(* stale or outbids its own unconfirmed parent: nothing else that AddTx    *)
(* lets in, also while the chain moves under it, can spoil a block.        *)
TemplateIsBody ==
    \/ ~Unlocked
    \/ \E t \in txs : Stale(t) \/ \E p \in txs : Outbids(t, p)
    \/ ValidateTransactionInputs(BlockTemplate, coins, Height(chain) + 1, MedianTimePast(chain))

(* A block that MineOne returns was made from one state of the chain: the  *)
(* tip it extends, the tip header that its time and bits derive from, and  *)
(* the tip at which its transactions were taken from the pool agree,       *)
(* although each was read at a different moment.                           *)
MinedOnOneTip == miner.pc = "found" => miner.sameHeader /\ miner.sameTip

=============================================================================
