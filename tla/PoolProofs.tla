----------------------------- MODULE PoolProofs -----------------------------
(***************************************************************************)
(* That the memory pool's index of spent outpoints is exact, and that the  *)
(* miner never mixes two tips in a block: for every set of transactions,   *)
(* every limit of the pool and every chain.                                *)
(*                                                                         *)
(* AddTx tests the index in one step and writes it in another, so the      *)
(* first inductive invariant adds what holds in between: while AddTx works *)
(* on a transaction, none of its inputs is in the index.  The second adds  *)
(* that the active chain gets longer whenever it changes, so that a tip    *)
(* the miner has once seen passed does not come back.                      *)
(***************************************************************************)
EXTENDS Pool, SequenceTheorems, TLAPS

PoolTyped ==
    /\ txs \in SUBSET Tx
    /\ spentOutpoints \in [Coin -> Tx \cup {NoTx}]
    /\ adding.tx \in Tx \cup {NoTx}
    /\ loading \in SUBSET Tx

NoConflict == adding.tx # NoTx =>
    \A c \in Ins[adding.tx] : spentOutpoints[c] = NoTx

SpentInv == PoolTyped /\ SpentIndexExact /\ NoConflict

(* What removeTxUnsafe leaves of the index is exact for what it leaves in  *)
(* the pool.                                                               *)
LEMMA SpentWithoutExact ==
    ASSUME SpentInv, NEW S
    PROVE  /\ SpentWithout(S) \in [Coin -> Tx \cup {NoTx}]
           /\ \A c \in Coin, t \in Tx :
                  SpentWithout(S)[c] = t <=> t \in txs \ S /\ c \in Ins[t]
<1>1. SpentWithout(S) \in [Coin -> Tx \cup {NoTx}]
  BY DEF SpentWithout, SpentInv, PoolTyped
<1>2. ASSUME NEW c \in Coin, NEW t \in Tx
      PROVE  SpentWithout(S)[c] = t <=> t \in txs \ S /\ c \in Ins[t]
  <2>1. CASE \E u \in S \cap txs : c \in Ins[u]
    <3>1. PICK u \in S \cap txs : c \in Ins[u]
      BY <2>1
    <3>2. spentOutpoints[c] = u
      BY <3>1 DEF SpentInv, PoolTyped, SpentIndexExact
    <3>3. SpentWithout(S)[c] = NoTx
      BY <2>1 DEF SpentWithout
    <3> QED
      BY <1>2, <3>1, <3>2, <3>3, PoolAssumption DEF SpentInv, SpentIndexExact
  <2>2. CASE ~\E u \in S \cap txs : c \in Ins[u]
    <3>1. SpentWithout(S)[c] = spentOutpoints[c]
      BY <2>2 DEF SpentWithout
    <3> QED
      BY <1>2, <2>2, <3>1 DEF SpentInv, SpentIndexExact
  <2> QED
    BY <2>1, <2>2
<1> QED
  BY <1>1, <1>2

(* The removal of any set of transactions keeps the index exact.           *)
LEMMA RemoveAllExact ==
    ASSUME SpentInv, NEW S, RemoveAll(S)
    PROVE  /\ txs' \in SUBSET Tx /\ spentOutpoints' \in [Coin -> Tx \cup {NoTx}]
           /\ SpentIndexExact'
BY SpentWithoutExact DEF RemoveAll, SpentInv, PoolTyped, SpentIndexExact

(* The insertion of a transaction without conflicts keeps it exact, and    *)
(* whatever is evicted for it.                                             *)
LEMMA InsertExact ==
    ASSUME SpentInv, NEW t \in Tx, Insert(t),
           \A c \in Ins[t] : spentOutpoints[c] = NoTx
    PROVE  /\ txs' \in SUBSET Tx /\ spentOutpoints' \in [Coin -> Tx \cup {NoTx}]
           /\ SpentIndexExact'
<1> DEFINE S == Evicted(t)
<1>1. /\ txs' = (txs \ S) \cup {t}
      /\ spentOutpoints' = [c \in Coin |-> IF c \in Ins[t] THEN t ELSE SpentWithout(S)[c]]
  BY DEF Insert
<1>2. /\ SpentWithout(S) \in [Coin -> Tx \cup {NoTx}]
      /\ \A c \in Coin, u \in Tx :
             SpentWithout(S)[c] = u <=> u \in txs \ S /\ c \in Ins[u]
  BY SpentWithoutExact
<1> HIDE DEF S
<1>3. txs' \in SUBSET Tx /\ spentOutpoints' \in [Coin -> Tx \cup {NoTx}]
  BY <1>1, <1>2 DEF SpentInv, PoolTyped
<1>4. ASSUME NEW c \in Coin, NEW u \in Tx
      PROVE  spentOutpoints'[c] = u <=> u \in txs' /\ c \in Ins[u]
  <2>1. CASE c \in Ins[t]
    <3>1. spentOutpoints'[c] = t
      BY <1>1, <2>1
    <3>2. \A w \in Tx : w \in txs => c \notin Ins[w]
      BY <2>1, PoolAssumption DEF SpentInv, SpentIndexExact
    <3> QED
      BY <1>1, <2>1, <3>1, <3>2
  <2>2. CASE c \notin Ins[t]
    BY <1>1, <1>2, <2>2
  <2> QED
    BY <2>1, <2>2
<1> QED
  BY <1>3, <1>4 DEF SpentIndexExact

(* Steps that leave the pool and AddTx alone.                              *)
LEMMA PoolUnchanged ==
    ASSUME SpentInv, UNCHANGED poolVars, loading' \in SUBSET Tx
    PROVE  SpentInv'
BY DEF SpentInv, PoolTyped, NoConflict, SpentIndexExact, poolVars

(* Steps that change the pool while AddTx is not at work.                  *)
LEMMA PoolChanged ==
    ASSUME SpentInv, adding = Idle, adding' = Idle, loading' \in SUBSET Tx,
           txs' \in SUBSET Tx, spentOutpoints' \in [Coin -> Tx \cup {NoTx}],
           SpentIndexExact'
    PROVE  SpentInv'
BY DEF SpentInv, PoolTyped, NoConflict, Idle

(* An empty pool has an empty index (New).                                 *)
LEMMA SpentInvInit == Init => SpentInv
BY PoolAssumption
   DEF Init, NewPool, NoSpent, Idle, SpentInv, PoolTyped, SpentIndexExact, NoConflict

(* Every step of the pool, the chain and the miner keeps it.               *)
LEMMA SpentInvNext == SpentInv /\ [Next]_vars => SpentInv'
<1> SUFFICES ASSUME SpentInv, [Next]_vars PROVE SpentInv'
  OBVIOUS
<1>1. CASE UNCHANGED vars
  BY <1>1, PoolUnchanged DEF vars, SpentInv, PoolTyped
<1>2. ASSUME NEW t \in Tx, Offer(t) PROVE SpentInv'
  BY <1>2 DEF Offer, AddTxBegin, Idle, SpentInv, PoolTyped, NoConflict, SpentIndexExact
<1>3. CASE AskHeight
  BY <1>3 DEF AskHeight, AddTxHeight, SpentInv, PoolTyped, NoConflict, SpentIndexExact
<1>4. CASE Admit
  <2>1. /\ adding.tx \in Tx /\ adding' = Idle /\ UNCHANGED loading
        /\ Insert(adding.tx) \/ UNCHANGED <<txs, spentOutpoints>>
    BY <1>4 DEF Admit, AddTxEnd, SpentInv, PoolTyped
  <2>2. CASE Insert(adding.tx)
    <3>1. \A c \in Ins[adding.tx] : spentOutpoints[c] = NoTx
      BY <2>1, PoolAssumption DEF SpentInv, NoConflict
    <3>2. /\ txs' \in SUBSET Tx /\ spentOutpoints' \in [Coin -> Tx \cup {NoTx}]
          /\ SpentIndexExact'
      BY <2>1, <2>2, <3>1, InsertExact
    <3> QED
      BY <2>1, <3>2 DEF SpentInv, PoolTyped, NoConflict, Idle
  <2>3. CASE UNCHANGED <<txs, spentOutpoints>>
    BY <2>1, <2>3 DEF SpentInv, PoolTyped, NoConflict, SpentIndexExact, Idle
  <2> QED
    BY <2>1, <2>2, <2>3
<1>5. ASSUME NEW S, Expire(S) PROVE SpentInv'
  BY <1>5, RemoveAllExact, PoolChanged DEF Expire, ExpireOldTxs, SpentInv, PoolTyped
<1>6. ASSUME NEW body, BlockArrives(body) PROVE SpentInv'
  BY <1>6, PoolUnchanged DEF BlockArrives, SpentInv, PoolTyped
<1>7. ASSUME NEW body, ReorgBegin(body) PROVE SpentInv'
  BY <1>7, PoolUnchanged DEF ReorgBegin, SpentInv, PoolTyped
<1>8. CASE ReorgEnd
  BY <1>8, PoolUnchanged DEF ReorgEnd, SpentInv, PoolTyped
<1>9. ASSUME NEW S, Confirm(S) PROVE SpentInv'
  BY <1>9, RemoveAllExact, PoolChanged DEF Confirm, RemoveTxs, SpentInv, PoolTyped
<1>10. CASE Tick
  BY <1>10, PoolUnchanged DEF Tick, SpentInv, PoolTyped
<1>11. CASE MinerTip \/ MinerHeader \/ MinerTemplate \/ MinerSearch \/ MinerSubmit
  BY <1>11, PoolUnchanged
  DEF MinerTip, MinerHeader, MinerTemplate, MinerSearch, MinerSubmit, SpentInv, PoolTyped
<1>12. ASSUME NEW clean \in BOOLEAN, Restart(clean) PROVE SpentInv'
  <2>1. txs' = {} /\ spentOutpoints' = NoSpent /\ adding' = Idle
    BY <1>12 DEF Restart
  <2>2. loading' \in SUBSET Tx
    BY <1>12 DEF Restart, SpentInv, PoolTyped
  <2> QED
    BY <2>1, <2>2, PoolAssumption
    DEF NoSpent, Idle, SpentInv, PoolTyped, SpentIndexExact, NoConflict
<1>13. ASSUME NEW t \in loading, Load(t) PROVE SpentInv'
  <2>1. t \in Tx /\ loading' \in SUBSET Tx /\ adding = Idle /\ adding' = Idle
    BY <1>13 DEF Load, SpentInv, PoolTyped
  <2>2. CASE UNCHANGED <<txs, spentOutpoints>>
    BY <2>1, <2>2 DEF SpentInv, PoolTyped, NoConflict, SpentIndexExact
  <2>3. CASE Insert(t) /\ \A c \in Ins[t] : spentOutpoints[c] = NoTx
    BY <2>1, <2>3, InsertExact, PoolChanged
  <2> QED
    BY <1>13, <2>2, <2>3 DEF Load
<1> QED
  BY <1>1, <1>2, <1>3, <1>4, <1>5, <1>6, <1>7, <1>8, <1>9, <1>10, <1>11, <1>12, <1>13 DEF Next

(* The index of spent outpoints is exact in every reachable state, through *)
(* any interleaving of AddTx with blocks, reorganisations, eviction,       *)
(* expiry and restarts.                                                    *)
THEOREM SpentIndexExactAlways == Spec => []SpentIndexExact
<1>1. SpentInv => SpentIndexExact
  BY DEF SpentInv
<1> QED
  BY <1>1, SpentInvInit, SpentInvNext, PTL DEF Spec

-----------------------------------------------------------------------------
(* The miner.                                                              *)

IsSequence(s) == Len(s) \in Nat /\ s = [i \in 1..Len(s) |-> s[i]]

(* A reorganisation leads to a longer chain; a block on the side competes  *)
(* with the last one.                                                      *)
ChainGrows ==
    /\ IsSequence(chain) /\ IsSequence(side) /\ IsSequence(target)
    /\ side # <<>> => Len(side) = 1 /\ chain # <<>>
    /\ target # <<>> => Len(target) = Len(chain) + 1

Passed == Len(miner.tip) < Len(chain)

MinerInv ==
    /\ ChainGrows
    /\ DOMAIN miner = DOMAIN AtRest /\ Len(miner.tip) \in Nat
    /\ miner.pc = "rest" => miner = AtRest
    /\ miner.pc # "rest" => Passed \/ miner.tip = chain
    /\ ~Passed => miner.sameHeader /\ miner.sameTip
    /\ MinedOnOneTip

(* A sequence in this sense is one over the set of its entries.            *)
LEMMA SequenceOf ==
    ASSUME NEW s, IsSequence(s)
    PROVE  \E S : s \in Seq(S)
<1> DEFINE S == {s[i] : i \in 1..Len(s)}
<1>1. s \in [1..Len(s) -> S] /\ Len(s) \in Nat
  BY SMT DEF IsSequence
<1>2. s \in Seq(S)
  BY SMT, <1>1
<1> QED
  BY <1>2

(* And the other way round.                                                *)
LEMMA OfSequence ==
    ASSUME NEW S, NEW s \in Seq(S)
    PROVE  IsSequence(s)
BY SMT DEF IsSequence

(* What Extend makes of the chain.                                         *)
LEMMA AppendGrows ==
    ASSUME NEW s, IsSequence(s), NEW e
    PROVE  IsSequence(Append(s, e)) /\ Len(Append(s, e)) = Len(s) + 1
<1>1. PICK S : s \in Seq(S)
  BY SequenceOf
<1>2. s \in Seq(S \cup {e})
  BY SMT, <1>1
<1>3. Append(s, e) \in Seq(S \cup {e}) /\ Len(Append(s, e)) = Len(s) + 1
  BY SMT, <1>2
<1> QED
  BY <1>3, OfSequence

(* What ReorgBegin sets out to: the fork, the side block and a new one.    *)
LEMMA ReorgGrows ==
    ASSUME NEW s, IsSequence(s), s # <<>>, NEW t, IsSequence(t), Len(t) = 1, NEW e
    PROVE  LET r == Append(SubSeq(s, 1, Len(s) - 1) \o t, e)
           IN  IsSequence(r) /\ Len(r) = Len(s) + 1
<1> DEFINE fork == SubSeq(s, 1, Len(s) - 1)
<1>1. PICK S : s \in Seq(S)
  BY SequenceOf
<1>2. PICK T : t \in Seq(T)
  BY SequenceOf
<1>3. s \in Seq(S \cup T) /\ t \in Seq(S \cup T) /\ Len(s) \in Nat \ {0}
  BY SMT, <1>1, <1>2
<1>4. fork \in Seq(S \cup T) /\ Len(fork) = Len(s) - 1
  BY SMT, <1>3
<1> HIDE DEF fork
<1>5. fork \o t \in Seq(S \cup T) /\ Len(fork \o t) = Len(s)
  <2>1. fork \o t \in Seq(S \cup T) /\ Len(fork \o t) = Len(fork) + Len(t)
    BY <1>3, <1>4, ConcatProperties
  <2> QED
    BY SMT, <1>3, <1>4, <2>1
<1>6. IsSequence(fork \o t)
  BY <1>5, OfSequence
<1>7. /\ IsSequence(Append(fork \o t, e))
      /\ Len(Append(fork \o t, e)) = Len(s) + 1
  BY <1>5, <1>6, AppendGrows
<1> QED
  BY <1>7 DEF fork

(* The active chain stays as it is or gets longer.                         *)
LEMMA ChainStep ==
    ASSUME ChainGrows, [Next]_vars
    PROVE  ChainGrows' /\ (UNCHANGED chain \/ Len(chain') = Len(chain) + 1)
<1>1. IsSequence(<<>>)
  BY SMT DEF IsSequence
<1>2. CASE UNCHANGED chainVars
  BY <1>2 DEF ChainGrows, chainVars
<1>3. ASSUME NEW b, Extend(b), UNCHANGED target, target = <<>>
      PROVE  ChainGrows' /\ Len(chain') = Len(chain) + 1
  BY <1>1, <1>3, AppendGrows DEF Extend, ChainGrows
<1>4. ASSUME NEW b, StoreSide(b), UNCHANGED target
      PROVE  ChainGrows' /\ UNCHANGED chain
  <2>1. IsSequence(<<b>>) /\ Len(<<b>>) = 1
    BY SMT DEF IsSequence
  <2> QED
    BY <1>4, <2>1 DEF StoreSide, ChainGrows
<1>5. CASE \E body \in PeerBodies : BlockArrives(body) \/ ReorgBegin(body)
  <2>1. PICK body \in PeerBodies : BlockArrives(body) \/ ReorgBegin(body)
    BY <1>5
  <2>2. CASE BlockArrives(body)
    BY <1>3, <1>4, <2>2 DEF BlockArrives, Unlocked
  <2>3. CASE ReorgBegin(body)
    <3>1. /\ side # <<>> /\ UNCHANGED <<chain, side>>
          /\ target' = Append(SubSeq(chain, 1, Len(chain) - 1) \o side, NewBlock(body))
      BY <2>3 DEF ReorgBegin
    <3>2. IsSequence(target') /\ Len(target') = Len(chain) + 1
      BY <3>1, ReorgGrows DEF ChainGrows
    <3> QED
      BY <3>1, <3>2 DEF ChainGrows
  <2> QED
    BY <2>1, <2>2, <2>3
<1>6. CASE ReorgEnd
  BY <1>1, <1>6 DEF ReorgEnd, Unlocked, ChainGrows
<1>7. CASE MinerSubmit
  <2>1. Unlocked /\ UNCHANGED target
    BY <1>7 DEF MinerSubmit
  <2>2. \/ Extend(NewBlock(miner.txs)) \/ StoreSide(NewBlock(miner.txs))
        \/ UNCHANGED <<chain, side>>
    BY <1>7 DEF MinerSubmit
  <2>3. CASE UNCHANGED <<chain, side>>
    BY <2>1, <2>3 DEF ChainGrows
  <2> QED
    BY <1>3, <1>4, <2>1, <2>2, <2>3 DEF Unlocked
<1>8. \/ UNCHANGED chainVars \/ ReorgEnd \/ MinerSubmit
      \/ \E body \in PeerBodies : BlockArrives(body) \/ ReorgBegin(body)
  BY DEF Next, vars, Offer, AskHeight, Admit, Expire, Confirm, Tick, MinerTip, MinerHeader,
         MinerTemplate, MinerSearch, Restart, Load
<1> QED
  BY <1>2, <1>5, <1>6, <1>7, <1>8

(* Each step of the miner, with the chain as it is.                        *)
LEMMA MinerStep ==
    ASSUME MinerInv, [Next]_vars, miner' # miner, miner' # AtRest
    PROVE  MinerInv'
<1>1. MinerTip \/ MinerHeader \/ MinerTemplate \/ MinerSearch
  BY DEF Next, vars, Offer, AskHeight, Admit, Expire, BlockArrives, ReorgBegin, ReorgEnd, Confirm,
         Tick, MinerSubmit, Restart, Load
<1>2. UNCHANGED chain /\ ChainGrows'
  BY <1>1, ChainStep
  DEF MinerInv, MinerTip, MinerHeader, MinerTemplate, MinerSearch, chainVars
<1>3. DOMAIN miner = {"pc", "tip", "sameHeader", "sameTip", "txs"} /\ Len(chain) \in Nat
  BY DEF MinerInv, ChainGrows, IsSequence, AtRest
<1>4. CASE MinerTip
  <2>1. miner = AtRest /\ AtRest.sameHeader /\ AtRest.sameTip
    BY <1>4 DEF MinerTip, MinerInv, AtRest
  <2>2. /\ miner'.pc = "tip" /\ miner'.tip = chain /\ DOMAIN miner' = DOMAIN miner
        /\ miner'.sameHeader /\ miner'.sameTip
    BY <1>3, <1>4, <2>1 DEF MinerTip
  <2> QED
    BY <1>2, <1>3, <2>2 DEF MinerInv, MinedOnOneTip
<1>5. CASE MinerHeader
  <2>1. /\ miner.pc = "tip" /\ miner'.pc = "header" /\ miner'.tip = miner.tip
        /\ DOMAIN miner' = DOMAIN miner
        /\ miner'.sameHeader = (miner.tip = chain) /\ miner'.sameTip = miner.sameTip
    BY <1>3, <1>5 DEF MinerHeader
  <2> QED
    BY <1>2, <2>1 DEF MinerInv, MinedOnOneTip, Passed
<1>6. CASE MinerTemplate
  <2>1. /\ miner.pc = "header" /\ miner'.pc = "template" /\ miner'.tip = miner.tip
        /\ DOMAIN miner' = DOMAIN miner
        /\ miner'.sameTip = (miner.tip = chain) /\ miner'.sameHeader = miner.sameHeader
    BY <1>3, <1>6 DEF MinerTemplate
  <2> QED
    BY <1>2, <2>1 DEF MinerInv, MinedOnOneTip, Passed
<1>7. CASE MinerSearch
  <2>1. /\ miner.tip = chain /\ miner'.pc = "found" /\ miner'.tip = miner.tip
        /\ DOMAIN miner' = DOMAIN miner
        /\ miner'.sameTip = miner.sameTip /\ miner'.sameHeader = miner.sameHeader
    BY <1>3, <1>7 DEF MinerSearch, TipUnchanged
  <2>2. ~Passed
    BY SMT, <1>3, <2>1 DEF Passed
  <2> QED
    BY <1>2, <2>1, <2>2 DEF MinerInv, MinedOnOneTip, Passed
<1> QED
  BY <1>1, <1>4, <1>5, <1>6, <1>7

(* The chain moves while the miner works, or the miner gives up.           *)
LEMMA MinerInvNext == MinerInv /\ [Next]_vars => MinerInv'
<1> SUFFICES ASSUME MinerInv, [Next]_vars PROVE MinerInv'
  OBVIOUS
<1>1. ChainGrows' /\ (UNCHANGED chain \/ Len(chain') = Len(chain) + 1)
  BY ChainStep DEF MinerInv
<1>2. CASE miner' = AtRest
  <2>1. /\ AtRest.pc = "rest" /\ Len(AtRest.tip) \in Nat
        /\ AtRest.sameHeader /\ AtRest.sameTip
    BY DEF AtRest
  <2> QED
    BY <1>1, <1>2, <2>1 DEF MinerInv, MinedOnOneTip
<1>3. CASE UNCHANGED miner
  <2>1. Len(miner.tip) \in Nat /\ Len(chain) \in Nat
    BY DEF MinerInv, ChainGrows, IsSequence
  <2>2. CASE UNCHANGED chain
    BY <1>1, <1>3, <2>2 DEF MinerInv, MinedOnOneTip, Passed
  <2>3. CASE Len(chain') = Len(chain) + 1
    <3>1. Passed \/ miner.tip = chain \/ miner.pc = "rest"
      BY DEF MinerInv
    <3>2. Passed \/ miner.tip = chain => Passed'
      BY SMT, <1>3, <2>1, <2>3 DEF Passed
    <3> QED
      BY <1>1, <1>3, <3>1, <3>2 DEF MinerInv, MinedOnOneTip, AtRest
  <2> QED
    BY <1>1, <2>2, <2>3
<1> QED
  BY <1>2, <1>3, MinerStep

(* What MineOne returns was read from one state of the chain, whatever     *)
(* blocks, reorganisations and restarts come between its reads: the        *)
(* comparison with the current tip after the search is enough.             *)
THEOREM MinedOnOneTipAlways == Spec => []MinedOnOneTip
<1>1. Init => MinerInv
  <2>1. IsSequence(<<>>) /\ Len(<<>>) \in Nat
    BY SMT DEF IsSequence
  <2> QED
    BY <2>1 DEF Init, MinerInv, ChainGrows, MinedOnOneTip, AtRest
<1>2. MinerInv => MinedOnOneTip
  BY DEF MinerInv
<1> QED
  BY <1>1, <1>2, MinerInvNext, PTL DEF Spec

=============================================================================
