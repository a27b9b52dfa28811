---------------------------- MODULE HeaderProofs ----------------------------
(***************************************************************************)
(* The header index keeps the chain of its best header by height, holds    *)
(* only headers that are valid on their own chain, and builds locators     *)
(* that find the fork: for every tree of headers, every network and every  *)
(* limit.                                                                  *)
(***************************************************************************)
EXTENDS HeaderIndex, WellFoundedInduction, TLAPS

-----------------------------------------------------------------------------
(* What holds of every tree of headers.                                    *)

(* Genesis.                                                                *)
LEMMA TreeFacts == Genesis \in Block /\ Height[Genesis] = 0
  BY TreeAssumption

(* The parent of a block is one lower and has less work.                   *)
LEMMA ParentFacts ==
    ASSUME NEW b \in Block \ {Genesis}
    PROVE  /\ Parent[b] \in Block /\ Height[b] = Height[Parent[b]] + 1
           /\ Height[b] \in Nat /\ Height[Parent[b]] \in Nat
           /\ ChainWork[Parent[b]] < ChainWork[b]
           /\ \A k \in 0..Height[Parent[b]] : AncestorAt[b][k] = AncestorAt[Parent[b]][k]
  BY TreeAssumption

(* A block is the top of its chain.                                        *)
LEMMA OwnHeight ==
    ASSUME NEW b \in Block
    PROVE  Height[b] \in Nat /\ AncestorAt[b][Height[b]] = b
  BY TreeAssumption

(* The chain of an ancestor is a prefix of the chain.                      *)
LEMMA PrefixFacts ==
    ASSUME NEW b \in Block, NEW h \in 0..Height[b], NEW k \in 0..h
    PROVE  AncestorAt[AncestorAt[b][h]][k] = AncestorAt[b][k]
  BY TreeAssumption

(* An ancestor of b is a block at its own height.                          *)
LEMMA AncestorFacts ==
    ASSUME NEW b \in Block, NEW h \in 0..Height[b]
    PROVE  /\ AncestorAt[b][h] \in Block /\ Height[AncestorAt[b][h]] = h
           /\ ChainWork[AncestorAt[b][h]] <= ChainWork[b]
<1>1. AncestorAt[b] \in [0..Height[b] -> Block]
  BY Zenon, TreeAssumption
<1>2. \A k \in 0..Height[b] :
         Height[AncestorAt[b][k]] = k /\ ChainWork[AncestorAt[b][k]] <= ChainWork[b]
  BY SMT, TreeAssumption
<1> QED BY Zenon, <1>1, <1>2

(* A chain consists of blocks.                                             *)
LEMMA ChainInBlock ==
    ASSUME NEW b \in Block
    PROVE  ChainOf(b) \subseteq Block
  BY AncestorFacts DEF ChainOf

(* One step down the chain of b is the parent link.                        *)
LEMMA AncestorParent ==
    ASSUME NEW b \in Block, NEW h \in 1..Height[b]
    PROVE  /\ AncestorAt[b][h] \in Block \ {Genesis}
           /\ Parent[AncestorAt[b][h]] = AncestorAt[b][h - 1]
<1> DEFINE x == AncestorAt[b][h]
<1>1. Height[b] \in Nat
  BY OwnHeight
<1>2. h \in 0..Height[b] /\ h - 1 \in 0..h /\ h \in Nat /\ h - 1 \in Nat /\ h # 0
  BY <1>1
<1>3. x \in Block /\ Height[x] = h
  BY <1>2, AncestorFacts
<1>4. AncestorAt[x][h - 1] = AncestorAt[b][h - 1]
  BY <1>2, PrefixFacts
<1> HIDE DEF x
<1>5. x \in Block \ {Genesis}
  BY <1>2, <1>3, TreeFacts
<1>6. Parent[x] \in Block /\ Height[Parent[x]] = h - 1 /\ h - 1 \in 0..Height[Parent[x]]
  <2>1. Parent[x] \in Block /\ h = Height[Parent[x]] + 1 /\ Height[Parent[x]] \in Nat
    BY <1>3, <1>5, ParentFacts
  <2> QED BY <2>1
<1>7. AncestorAt[x][h - 1] = AncestorAt[Parent[x]][h - 1]
  BY <1>5, <1>6, ParentFacts
<1>8. AncestorAt[Parent[x]][h - 1] = Parent[x]
  BY <1>6, OwnHeight
<1> QED BY <1>4, <1>5, <1>7, <1>8 DEF x

(* Two chains that agree at a height agree below it.                       *)
LEMMA SharedPrefix ==
    ASSUME NEW a \in Block, NEW b \in Block, NEW f \in Nat,
           f <= Height[a], f <= Height[b], AncestorAt[a][f] = AncestorAt[b][f]
    PROVE  \A k \in 0..f : AncestorAt[a][k] = AncestorAt[b][k]
<1>1. f \in 0..Height[a] /\ f \in 0..Height[b]
  BY OwnHeight
<1> QED BY <1>1, PrefixFacts

(* The chain of a block is the chain of its parent and the block.          *)
LEMMA ChildChain ==
    ASSUME NEW b \in Block \ {Genesis}
    PROVE  ChainOf(b) = ChainOf(Parent[b]) \cup {b}
<1>1. /\ Parent[b] \in Block /\ Height[b] = Height[Parent[b]] + 1 /\ Height[Parent[b]] \in Nat
      /\ AncestorAt[b][Height[b]] = b
      /\ \A k \in 0..Height[Parent[b]] : AncestorAt[b][k] = AncestorAt[Parent[b]][k]
  BY ParentFacts, OwnHeight
<1>2. 0..Height[b] = (0..Height[Parent[b]]) \cup {Height[b]}
  BY <1>1
<1> QED BY <1>1, <1>2 DEF ChainOf

(* Every inhabited set of natural numbers has a least element.             *)
LEMMA Least ==
    ASSUME NEW T, T \subseteq Nat, T # {}
    PROVE  \E x \in T : \A y \in T : x <= y
<1>1. \E x \in T : \A y \in T : ~(<<y, x>> \in OpToRel(<, Nat))
  BY WFMin, NatLessThanWellFounded
<1>2. PICK x \in T : \A y \in T : ~(<<y, x>> \in OpToRel(<, Nat))
  BY <1>1
<1>3. \A y \in T : ~(y < x)
  BY <1>2 DEF OpToRel
<1>4. x \in Nat /\ \A y \in T : y \in Nat
  OBVIOUS
<1>5. \A y \in T : x <= y
  BY SMT, <1>3, <1>4
<1> QED BY <1>5

-----------------------------------------------------------------------------
(* First-order steps; a leaf that needs arithmetic or functions cites SMT. *)
USE Zenon

OwnValid(b, time) == Valid(b, ChainHeaders(Parent[b]), time)

(* The inductive invariant.  What Restart and NotifyBlockAccepted enter    *)
(* into the index are stored blocks, so these must be valid and closed     *)
(* under ancestors; the adjusted clock is within MaxAllowedOffset of the   *)
(* local one, and the time of a message is not ahead of it.                *)
HeaderInv ==
    /\ TypeOK
    /\ \A x \in byHash : ChainWork[x] <= ChainWork[bestHeader]
    /\ bestChainByHeight = AncestorAt[bestHeader]
    /\ \A b \in stored : ChainOf(b) \subseteq stored
    /\ \A b \in (byHash \cup stored) \ {Genesis} : OwnValid(b, now + MaxAllowedOffset)
    /\ median \in (-MaxAllowedOffset)..MaxAllowedOffset

-----------------------------------------------------------------------------
(* A header that is valid stays valid as the clock moves on                *)
(* (ValidateHeaderTimestamp has only an upper bound on the clock's side).  *)
LEMMA ValidMonotone ==
    ASSUME NEW b \in Block, NEW t \in Int, NEW u \in Int, t <= u, OwnValid(b, t)
    PROVE  OwnValid(b, u)
<1>1. HeaderOf[b].time \in Int /\ Drift \in Int
  BY SMT, HeaderAssumption, RetargetAssumption
<1>2. HeaderOf[b].time <= t + Drift
  BY DEF OwnValid, Valid, FullValidateHeader, ValidateHeaderTimestamp
<1>3. HeaderOf[b].time <= u + Drift
  BY SMT, <1>1, <1>2
<1> QED BY <1>3 DEF OwnValid, Valid, FullValidateHeader, ValidateHeaderTimestamp

(* The chain of an ancestor is a prefix of the chain.                      *)
LEMMA PrefixOfChain ==
    ASSUME NEW b \in Block, NEW h \in 0..Height[b]
    PROVE  \A k \in 0..h : AncestorAt[b][k] = AncestorAt[AncestorAt[b][h]][k]
  BY SMT, TreeAssumption

(* rebuildHeightIndex yields the chain of the new best header, by its      *)
(* shortcut too.                                                           *)
LEMMA RebuiltIsChain ==
    ASSUME NEW b \in Block \ {Genesis}, bestHeader \in Block,
           bestChainByHeight = AncestorAt[bestHeader]
    PROVE  Rebuilt(b) = AncestorAt[b]
<1>1. Height[b] \in Nat /\ Height[bestHeader] \in Nat /\ Parent[b] \in Block
      /\ Height[b] = Height[Parent[b]] + 1 /\ Height[Parent[b]] \in Nat
  BY TreeAssumption
<1>2. AncestorAt[b] = [h \in 0..Height[b] |-> AncestorAt[b][h]]
  BY TreeAssumption
<1>3. CASE /\ Height[b] > 0
           /\ DOMAIN bestChainByHeight = 0..(Height[b] - 1)
           /\ bestChainByHeight[Height[b] - 1] = Parent[b]
  <2>1. DOMAIN AncestorAt[bestHeader] = 0..Height[bestHeader]
    BY TreeAssumption
  <2>2. Height[Parent[b]] \in 0..Height[bestHeader]
    <3>1. Height[Parent[b]] \in 0..(Height[b] - 1)
      BY SMT, <1>1
    <3> QED BY <1>3, <2>1, <3>1
  <2>3. AncestorAt[bestHeader][Height[Parent[b]]] = Parent[b]
    BY SMT, <1>1, <1>3
  <2>4. \A h \in 0..Height[Parent[b]] :
            AncestorAt[bestHeader][h] = AncestorAt[Parent[b]][h]
    BY <2>2, <2>3, PrefixOfChain
  <2>5. \A h \in 0..Height[b] :
            (IF h = Height[b] THEN b ELSE bestChainByHeight[h]) = AncestorAt[b][h]
    <3>1. SUFFICES ASSUME NEW h \in 0..Height[b]
                   PROVE  (IF h = Height[b] THEN b ELSE bestChainByHeight[h])
                             = AncestorAt[b][h]
      OBVIOUS
    <3>2. CASE h = Height[b]
      BY <3>2, TreeAssumption
    <3>3. CASE h # Height[b]
      <4>1. h \in 0..Height[Parent[b]]
        BY SMT, <1>1, <3>3
      <4>2. AncestorAt[b][h] = AncestorAt[Parent[b]][h]
        BY SMT, <4>1, TreeAssumption
      <4> QED BY <2>4, <3>3, <4>1, <4>2
    <3> QED BY <3>2, <3>3
  <2> QED BY <1>2, <1>3, <2>5 DEF Rebuilt
<1>4. CASE ~(/\ Height[b] > 0
             /\ DOMAIN bestChainByHeight = 0..(Height[b] - 1)
             /\ bestChainByHeight[Height[b] - 1] = Parent[b])
  BY <1>4 DEF Rebuilt
<1> QED BY <1>3, <1>4

(* buildAncestorLookup serves the headers of the parent's own chain,       *)
(* through the best chain or not.                                          *)
LEMMA AncestorsAreOwn ==
    ASSUME NEW p \in Block, bestHeader \in Block,
           bestChainByHeight = AncestorAt[bestHeader]
    PROVE  Ancestors(p) = ChainHeaders(p)
<1>1. Height[p] \in Nat /\ DOMAIN bestChainByHeight = 0..Height[bestHeader]
  BY TreeAssumption
<1>2. CASE /\ Height[p] \in DOMAIN bestChainByHeight
           /\ bestChainByHeight[Height[p]] = p
  <2>1. \A h \in 0..Height[p] : AncestorAt[bestHeader][h] = AncestorAt[p][h]
    BY SMT, <1>1, <1>2, PrefixOfChain
  <2>2. \A h \in 0..Height[p] : h \in DOMAIN bestChainByHeight
    BY SMT, <1>1, <1>2, TreeAssumption
  <2> QED BY <1>2, <2>1, <2>2 DEF Ancestors, ChainHeaders
<1>3. CASE ~(/\ Height[p] \in DOMAIN bestChainByHeight
             /\ bestChainByHeight[Height[p]] = p)
  BY <1>3 DEF Ancestors, ChainHeaders
<1> QED BY <1>2, <1>3

(* A new node: the best header is still the heaviest, with its chain by    *)
(* height.                                                                 *)
LEMMA InsertKeeps ==
    ASSUME HeaderInv, NEW b \in Block \ {Genesis}, NEW prune \in BOOLEAN, Insert(b, prune)
    PROVE  /\ byHash' \subseteq byHash \cup {b}
           /\ bestHeader' \in Block
           /\ bestChainByHeight' = AncestorAt[bestHeader']
           /\ \A x \in byHash' : ChainWork[x] <= ChainWork[bestHeader']
<1>1. /\ byHash \subseteq Block /\ bestHeader \in Block
      /\ \A x \in byHash : ChainWork[x] <= ChainWork[bestHeader]
      /\ bestChainByHeight = AncestorAt[bestHeader]
  BY DEF HeaderInv, TypeOK
<1>2. \A x \in Block : ChainWork[x] \in Int
  BY SMT, TreeAssumption
<1>3. CASE ChainWork[b] > ChainWork[bestHeader]
  <2>1. bestHeader' = b /\ bestChainByHeight' = Rebuilt(b) /\ byHash' \subseteq byHash \cup {b}
    BY <1>3 DEF Insert, Pruned
  <2>2. Rebuilt(b) = AncestorAt[b]
    BY <1>1, RebuiltIsChain
  <2>3. \A x \in byHash \cup {b} : ChainWork[x] <= ChainWork[b]
    BY SMT, <1>1, <1>2, <1>3
  <2> QED BY <2>1, <2>2, <2>3
<1>4. CASE ~(ChainWork[b] > ChainWork[bestHeader])
  <2>1. byHash' = byHash \cup {b} /\ UNCHANGED <<bestHeader, bestChainByHeight>>
    BY <1>4 DEF Insert
  <2>2. \A x \in byHash \cup {b} : ChainWork[x] <= ChainWork[bestHeader]
    BY SMT, <1>1, <1>2, <1>4
  <2> QED BY <1>1, <2>1, <2>2
<1> QED BY <1>3, <1>4

(* The chain of a header, by height and as a set.                          *)
LEMMA ChainType ==
    ASSUME NEW b \in Block
    PROVE  AncestorAt[b] \in [0..Height[b] -> Block] /\ ChainOf(b) \subseteq Block
  BY TreeAssumption, ChainInBlock

(* addRejectedLocked keeps a sequence of headers.                          *)
LEMMA RejectedType ==
    ASSUME NEW b \in Block, rejected \in Seq(Block), AddRejected(b)
    PROVE  rejected' \in Seq(Block)
<1>1. CASE b \in Range(rejected)
  BY <1>1 DEF AddRejected
<1>2. CASE b \notin Range(rejected)
  <2>1. CASE Len(rejected) >= MaxRejected /\ rejected # <<>>
    <3>1. Tail(rejected) \in Seq(Block)
      BY SMT, <2>1
    <3>2. rejected' = Append(Tail(rejected), b)
      BY <1>2, <2>1 DEF AddRejected
    <3> QED BY SMT, <3>1, <3>2
  <2>2. CASE ~(Len(rejected) >= MaxRejected /\ rejected # <<>>)
    BY SMT, <1>2, <2>2 DEF AddRejected
  <2> QED BY <2>1, <2>2
<1> QED BY <1>1, <1>2

-----------------------------------------------------------------------------
(* The index starts with genesis.                                          *)
LEMMA InitInv == Init => HeaderInv
<1> SUFFICES ASSUME Init PROVE HeaderInv
  OBVIOUS
<1>1. Genesis \in Block /\ Height[Genesis] = 0 /\ ChainOf(Genesis) = {Genesis}
  <2>1. Genesis \in Block /\ Height[Genesis] = 0 /\ AncestorAt[Genesis][0] = Genesis
    BY TreeAssumption
  <2>2. 0..Height[Genesis] = {0}
    BY SMT, <2>1
  <2> QED BY <2>1, <2>2 DEF ChainOf
<1>2. TypeOK
  <2>1. bestChainByHeight \in [0..Height[bestHeader] -> Block]
    BY <1>1, ChainType DEF Init, Fresh
  <2>2. <<>> \in Seq(Block) /\ <<>> \in Seq(Block \ {Genesis}) /\ <<0>> \in Seq(Int)
    BY SMT
  <2>3. StartTime \in Nat /\ StartTime <= StartTime
    BY SMT, HeaderAssumption
  <2> QED BY SMT, <1>1, <2>1, <2>2, <2>3 DEF Init, Fresh, ClockInit, TypeOK
<1>3. 0 \in (-MaxAllowedOffset)..MaxAllowedOffset
  BY SMT, ClockAssumption
<1>4. ChainWork[Genesis] <= ChainWork[Genesis]
  BY SMT, <1>1, TreeAssumption
<1> QED BY <1>1, <1>2, <1>3, <1>4 DEF Init, Fresh, ClockInit, HeaderInv

-----------------------------------------------------------------------------
(* Time passes: what was valid stays valid.                                *)
LEMMA TickInv == HeaderInv /\ Tick => HeaderInv'
<1> SUFFICES ASSUME HeaderInv, Tick PROVE HeaderInv'
  OBVIOUS
<1>1. UNCHANGED <<indexVars, batch, nowUnix, chainVars, clockVars>> /\ now' = now + 1
  BY DEF Tick
<1>2. UNCHANGED <<byHash, bestHeader, bestChainByHeight, rejected, batch, nowUnix,
                  stored, tip, notify, offsets, known, median>>
  BY <1>1 DEF indexVars, chainVars, clockVars
<1>3. now \in Nat /\ nowUnix \in Nat /\ nowUnix <= now
  BY DEF HeaderInv, TypeOK
<1>4. TypeOK'
  <2>1. now' \in Nat /\ nowUnix' <= now'
    BY SMT, <1>1, <1>2, <1>3
  <2> QED BY <1>2, <2>1 DEF HeaderInv, TypeOK
<1>5. \A b \in (byHash' \cup stored') \ {Genesis} : OwnValid(b, now' + MaxAllowedOffset)
  <2> SUFFICES ASSUME NEW b \in (byHash \cup stored) \ {Genesis}
               PROVE  OwnValid(b, now' + MaxAllowedOffset)
    BY <1>2
  <2>1. b \in Block /\ OwnValid(b, now + MaxAllowedOffset)
    BY DEF HeaderInv, TypeOK
  <2>2. /\ now + MaxAllowedOffset \in Int /\ now' + MaxAllowedOffset \in Int
        /\ now + MaxAllowedOffset <= now' + MaxAllowedOffset
    BY SMT, <1>1, <1>3, ClockAssumption
  <2> QED BY <2>1, <2>2, ValidMonotone
<1> QED BY <1>2, <1>4, <1>5 DEF HeaderInv, OwnValid

(* A sample moves the clock by no more than MaxAllowedOffset.              *)
LEMMA HandshakeInv ==
    ASSUME HeaderInv, NEW p \in Peer, NEW offset \in Offsets, Handshake(p, offset)
    PROVE  HeaderInv'
<1>1. UNCHANGED <<byHash, bestHeader, bestChainByHeight, rejected, batch, nowUnix,
                  stored, tip, notify, now>>
  BY DEF Handshake, indexVars, chainVars
<1>2. known' \subseteq Peer /\ offset \in Int /\ offsets \in Seq(Int)
  BY HeaderAssumption DEF Handshake, AddSample, HeaderInv, TypeOK
<1>3. offsets' \in Seq(Int)
  <2>1. CASE Len(offsets) >= MaxSamples
    <3>1. offsets # <<>>
      BY SMT, <1>2, <2>1, ClockAssumption
    <3>2. Tail(offsets) \in Seq(Int)
      BY SMT, <1>2, <3>1
    <3>3. offsets' = Append(Tail(offsets), offset)
      BY <2>1 DEF Handshake, AddSample
    <3> QED BY SMT, <1>2, <3>2, <3>3
  <2>2. CASE ~(Len(offsets) >= MaxSamples)
    BY SMT, <1>2, <2>2 DEF Handshake, AddSample
  <2> QED BY <2>1, <2>2
<1>4. median' \in (-MaxAllowedOffset)..MaxAllowedOffset
  <2>1. 0 \in (-MaxAllowedOffset)..MaxAllowedOffset
    BY SMT, ClockAssumption
  <2>2. median \in (-MaxAllowedOffset)..MaxAllowedOffset
    BY DEF HeaderInv
  <2>3. median' = RecalcMedian(offsets')
    BY DEF Handshake, AddSample
  <2> QED BY <2>1, <2>2, <2>3 DEF RecalcMedian
<1>5. median' \in Int
  BY SMT, <1>4, ClockAssumption
<1>6. TypeOK'
  BY <1>1, <1>2, <1>3, <1>5 DEF HeaderInv, TypeOK
<1> QED BY <1>1, <1>4, <1>6 DEF HeaderInv, OwnValid

(* A message is taken up.                                                  *)
LEMMA HandleHeadersInv ==
    ASSUME HeaderInv, NEW y \in Block \ {Genesis}, NEW first \in 1..Height[y],
           HandleHeaders(y, first)
    PROVE  HeaderInv'
<1>1. UNCHANGED <<byHash, bestHeader, bestChainByHeight, rejected,
                  stored, tip, notify, now, offsets, known, median>>
  BY DEF HandleHeaders, indexVars, chainVars, clockVars
<1>2. batch' \in Seq(Block \ {Genesis})
  <2>1. Height[y] + 1 - first \in Nat
    BY SMT, TreeAssumption
  <2>2. \A i \in 1..(Height[y] + 1 - first) : AncestorAt[y][first + i - 1] \in Block \ {Genesis}
    <3> SUFFICES ASSUME NEW i \in 1..(Height[y] + 1 - first)
                 PROVE  AncestorAt[y][first + i - 1] \in Block \ {Genesis}
      OBVIOUS
    <3>1. first + i - 1 \in 1..Height[y]
      BY SMT, <2>1, TreeAssumption
    <3> QED BY <3>1, AncestorParent
  <2>3. Segment(y, first) \in [1..(Height[y] + 1 - first) -> Block \ {Genesis}]
    BY <2>2 DEF Segment
  <2>4. Segment(y, first) \in Seq(Block \ {Genesis})
    BY SMT, <2>1, <2>3
  <2> QED BY <2>4 DEF HandleHeaders
<1>3. nowUnix' \in Nat /\ nowUnix' <= now'
  BY SMT, <1>1 DEF HandleHeaders, HeaderInv, TypeOK
<1>4. TypeOK'
  BY <1>1, <1>2, <1>3 DEF HeaderInv, TypeOK
<1> QED BY <1>1, <1>4 DEF HeaderInv, OwnValid

(* One header of a message: it is skipped, refused or entered, and what is *)
(* entered is valid on its own chain.                                      *)
LEMMA AddHeaderInv == HeaderInv /\ AddHeader => HeaderInv'
<1> SUFFICES ASSUME HeaderInv, AddHeader PROVE HeaderInv'
  OBVIOUS
<1> DEFINE b == Head(batch)
           p == Parent[b]
<1>1. UNCHANGED <<nowUnix, stored, tip, notify, now, offsets, known, median>>
  BY DEF AddHeader, chainVars, clockVars
<1>2. /\ batch \in Seq(Block \ {Genesis}) /\ batch # <<>> /\ rejected \in Seq(Block)
      /\ nowUnix \in Nat /\ now \in Nat /\ nowUnix <= now
      /\ byHash \subseteq Block /\ bestHeader \in Block
      /\ bestChainByHeight = AncestorAt[bestHeader]
  BY DEF AddHeader, HeaderInv, TypeOK
<1>3. b \in Block \ {Genesis} /\ Tail(batch) \in Seq(Block \ {Genesis})
  BY SMT, <1>2
<1>4. batch' \in Seq(Block \ {Genesis}) /\ rejected' \in Seq(Block)
  <2>1. batch' \in {Tail(batch), <<>>} /\ (UNCHANGED rejected \/ AddRejected(b))
    BY DEF AddHeader
  <2>2. <<>> \in Seq(Block \ {Genesis})
    BY SMT
  <2> QED BY <1>2, <1>3, <2>1, <2>2, RejectedType
<1>5. \/ UNCHANGED <<byHash, bestHeader, bestChainByHeight>>
      \/ p \in byHash /\ Valid(b, Ancestors(p), nowUnix) /\ Insert(b, TRUE)
  BY DEF AddHeader
<1>6. CASE UNCHANGED <<byHash, bestHeader, bestChainByHeight>>
  <2>1. TypeOK'
    BY <1>1, <1>4, <1>6 DEF HeaderInv, TypeOK
  <2> QED BY <1>1, <1>6, <2>1 DEF HeaderInv, OwnValid
<1>7. CASE p \in byHash /\ Valid(b, Ancestors(p), nowUnix) /\ Insert(b, TRUE)
  <2>1. /\ byHash' \subseteq byHash \cup {b} /\ bestHeader' \in Block
        /\ bestChainByHeight' = AncestorAt[bestHeader']
        /\ \A x \in byHash' : ChainWork[x] <= ChainWork[bestHeader']
    BY <1>3, <1>7, InsertKeeps
  <2>2. OwnValid(b, nowUnix)
    BY <1>2, <1>7, AncestorsAreOwn DEF OwnValid
  <2>3. OwnValid(b, now + MaxAllowedOffset)
    <3>1. nowUnix \in Int /\ now + MaxAllowedOffset \in Int /\ nowUnix <= now + MaxAllowedOffset
      BY SMT, <1>2, ClockAssumption
    <3> QED BY <1>3, <2>2, <3>1, ValidMonotone
  <2>4. \A x \in (byHash' \cup stored') \ {Genesis} : OwnValid(x, now' + MaxAllowedOffset)
    BY <1>1, <2>1, <2>3 DEF HeaderInv
  <2>5. TypeOK'
    BY <1>1, <1>2, <1>3, <1>4, <2>1, ChainType DEF HeaderInv, TypeOK
  <2> QED BY <1>1, <2>1, <2>4, <2>5 DEF HeaderInv, OwnValid
<1> QED BY <1>5, <1>6, <1>7

(* The chain manager stores a block: by the adjusted clock it may be up to *)
(* MaxAllowedOffset newer than by the local one.                           *)
LEMMA AcceptBlockInv ==
    ASSUME HeaderInv, NEW b \in Bodies, NEW announced \in BOOLEAN, AcceptBlock(b, announced)
    PROVE  HeaderInv'
<1>1. UNCHANGED <<byHash, bestHeader, bestChainByHeight, rejected, batch, nowUnix,
                  now, offsets, known, median>>
  BY DEF AcceptBlock, indexVars, clockVars
<1>2. b \in Block \ {Genesis} /\ Parent[b] \in stored /\ stored \subseteq Block /\ tip \in stored
  <2>1. b \in Block /\ Parent[b] \in Block
    BY HeaderAssumption DEF AcceptBlock, HeaderInv, TypeOK
  <2>2. b # Genesis
    BY <2>1, TreeAssumption
  <2> QED BY <2>1, <2>2 DEF AcceptBlock, HeaderInv, TypeOK
<1>3. /\ stored' = stored \cup {b} /\ tip' \in stored' /\ stored' \subseteq Block
      /\ notify' \subseteq stored' \ {Genesis}
  BY <1>2 DEF AcceptBlock, HeaderInv, TypeOK
<1>4. \A x \in stored' : ChainOf(x) \subseteq stored'
  <2>1. ChainOf(b) = ChainOf(Parent[b]) \cup {b}
    BY <1>2, ChildChain
  <2>2. \A x \in stored : ChainOf(x) \subseteq stored
    BY DEF HeaderInv
  <2> QED BY <1>2, <1>3, <2>1, <2>2
<1>5. OwnValid(b, now + MaxAllowedOffset)
  <2>1. OwnValid(b, now + median)
    BY DEF AcceptBlock, AdjustedNow, OwnValid
  <2>2. now \in Nat /\ median \in (-MaxAllowedOffset)..MaxAllowedOffset
    BY DEF HeaderInv, TypeOK
  <2>3. /\ now + median \in Int /\ now + MaxAllowedOffset \in Int
        /\ now + median <= now + MaxAllowedOffset
    BY SMT, <2>2, ClockAssumption
  <2> QED BY <1>2, <2>1, <2>3, ValidMonotone
<1>6. \A x \in (byHash' \cup stored') \ {Genesis} : OwnValid(x, now' + MaxAllowedOffset)
  BY <1>1, <1>3, <1>5 DEF HeaderInv
<1>7. TypeOK'
  BY <1>1, <1>3 DEF HeaderInv, TypeOK
<1> QED BY <1>1, <1>4, <1>6, <1>7 DEF HeaderInv

(* An accepted block's header is entered, unvalidated.                     *)
LEMMA NotifyInv ==
    ASSUME HeaderInv, NEW b \in notify, NotifyBlockAccepted(b)
    PROVE  HeaderInv'
<1>1. UNCHANGED <<rejected, batch, nowUnix, stored, tip, now, offsets, known, median>>
  BY DEF NotifyBlockAccepted, clockVars
<1>2. b \in Block \ {Genesis} /\ b \in stored /\ notify' \subseteq stored' \ {Genesis}
  BY <1>1 DEF NotifyBlockAccepted, HeaderInv, TypeOK
<1>3. CASE UNCHANGED <<byHash, bestHeader, bestChainByHeight>>
  <2>1. TypeOK'
    BY <1>1, <1>2, <1>3 DEF HeaderInv, TypeOK
  <2> QED BY <1>1, <1>3, <2>1 DEF HeaderInv, OwnValid
<1>4. CASE Insert(b, FALSE)
  <2>1. /\ byHash' \subseteq byHash \cup {b} /\ bestHeader' \in Block
        /\ bestChainByHeight' = AncestorAt[bestHeader']
        /\ \A x \in byHash' : ChainWork[x] <= ChainWork[bestHeader']
    BY <1>2, <1>4, InsertKeeps
  <2>2. \A x \in (byHash' \cup stored') \ {Genesis} : OwnValid(x, now' + MaxAllowedOffset)
    BY <1>1, <1>2, <2>1 DEF HeaderInv
  <2>3. TypeOK'
    BY <1>1, <1>2, <2>1, ChainType DEF HeaderInv, TypeOK
  <2> QED BY <1>1, <2>1, <2>2, <2>3 DEF HeaderInv, OwnValid
<1> QED BY <1>3, <1>4 DEF NotifyBlockAccepted

(* NewHeaderIndex enters the active chain, all of it stored blocks.        *)
LEMMA RestartInv == HeaderInv /\ Restart => HeaderInv'
<1> SUFFICES ASSUME HeaderInv, Restart PROVE HeaderInv'
  OBVIOUS
<1>1. UNCHANGED <<stored, tip, now, nowUnix>>
  BY DEF Restart
<1>2. tip \in Block /\ tip \in stored /\ stored \subseteq Block /\ ChainOf(tip) \subseteq stored
  BY DEF HeaderInv, TypeOK
<1>3. byHash' = ChainOf(tip) /\ bestHeader' = tip /\ bestChainByHeight' = AncestorAt[tip]
  BY DEF Restart
<1>4. \A x \in byHash' : ChainWork[x] <= ChainWork[bestHeader']
  BY <1>2, <1>3, AncestorFacts DEF ChainOf
<1>5. median' \in (-MaxAllowedOffset)..MaxAllowedOffset /\ median' \in Int
  BY SMT, ClockAssumption DEF Restart
<1>6. TypeOK'
  <2>1. /\ rejected' = <<>> /\ batch' = <<>> /\ notify' = {}
        /\ offsets' = <<0>> /\ known' = {}
    BY DEF Restart
  <2>2. <<>> \in Seq(Block) /\ <<>> \in Seq(Block \ {Genesis}) /\ <<0>> \in Seq(Int)
    BY SMT
  <2> QED BY <1>1, <1>2, <1>3, <1>5, <2>1, <2>2, ChainType DEF HeaderInv, TypeOK
<1>7. \A x \in (byHash' \cup stored') \ {Genesis} : OwnValid(x, now' + MaxAllowedOffset)
  BY <1>1, <1>2, <1>3 DEF HeaderInv
<1> QED BY <1>1, <1>3, <1>4, <1>5, <1>6, <1>7 DEF HeaderInv

(* Every step keeps the invariant.                                         *)
LEMMA StepInv == HeaderInv /\ [Next]_vars => HeaderInv'
<1> SUFFICES ASSUME HeaderInv, [Next]_vars PROVE HeaderInv'
  OBVIOUS
<1>1. CASE UNCHANGED vars
  BY <1>1 DEF vars, indexVars, chainVars, clockVars, HeaderInv, TypeOK, OwnValid
<1>2. CASE \E y \in Block \ {Genesis} : \E first \in 1..Height[y] :
              Height[y] - first < MaxBatch /\ HandleHeaders(y, first)
  BY <1>2, HandleHeadersInv
<1>3. CASE \E b \in Bodies, announced \in BOOLEAN : AcceptBlock(b, announced)
  BY <1>3, AcceptBlockInv
<1>4. CASE \E b \in notify : NotifyBlockAccepted(b)
  BY <1>4, NotifyInv
<1>5. CASE \E p \in Peer, offset \in Offsets : Handshake(p, offset)
  BY <1>5, HandshakeInv
<1> QED BY <1>1, <1>2, <1>3, <1>4, <1>5, AddHeaderInv, TickInv, RestartInv DEF Next

(* The block scheduler's list is a chain.                                  *)
LEMMA FetchListLinked ==
    ASSUME HeaderInv, NEW start \in 1..Height[bestHeader]
    PROVE  LET list == HeadersToFetch(start, MaxHeadersPerMsg)
           IN  /\ Parent[list[1]] = bestChainByHeight[start - 1]
               /\ \A i \in DOMAIN list \ {1} : Parent[list[i]] = list[i - 1]
<1> DEFINE top == Height[bestHeader]
           count == Lesser(MaxHeadersPerMsg, top + 1 - start)
           list == HeadersToFetch(start, MaxHeadersPerMsg)
<1>1. bestHeader \in Block /\ bestChainByHeight = AncestorAt[bestHeader] /\ top \in Nat
  BY TreeAssumption DEF HeaderInv, TypeOK
<1>2. count \in 1..(top + 1 - start)
  BY SMT, <1>1, HeaderAssumption DEF Lesser
<1>3. list = [i \in 1..count |-> AncestorAt[bestHeader][start + i - 1]]
  BY <1>1 DEF HeadersToFetch
<1>4. \A k \in 1..top : Parent[AncestorAt[bestHeader][k]] = AncestorAt[bestHeader][k - 1]
  BY <1>1, AncestorParent
<1>5. Parent[list[1]] = bestChainByHeight[start - 1]
  <2>1. 1 \in 1..count /\ start + 1 - 1 = start /\ start \in 1..top
    BY SMT, <1>1, <1>2
  <2> QED BY <1>1, <1>3, <1>4, <2>1
<1>6. ASSUME NEW i \in DOMAIN list \ {1}
      PROVE  Parent[list[i]] = list[i - 1]
  <2>1. /\ i \in 1..count /\ i - 1 \in 1..count /\ start + i - 1 \in 1..top
        /\ start + (i - 1) - 1 = (start + i - 1) - 1
    BY SMT, <1>1, <1>2, <1>3
  <2>2. list[i] = AncestorAt[bestHeader][start + i - 1]
        /\ list[i - 1] = AncestorAt[bestHeader][(start + i - 1) - 1]
    BY <1>3, <2>1
  <2> QED BY <1>4, <2>1, <2>2
<1> QED BY <1>5, <1>6

(* The height index is the chain of the heaviest header, and what the      *)
(* block scheduler is told to fetch is a chain: rebuildHeightIndex,        *)
(* pruneStaleForks, HeadersToFetch.                                        *)
THEOREM BestChainIndexedAlways == Spec => []BestChainIndexed
<1>1. HeaderInv => BestChainIndexed
  BY FetchListLinked DEF HeaderInv, BestChainIndexed
<1> QED BY <1>1, InitInv, StepInv, PTL DEF Spec

(* No header gets into the index that is not valid on its own chain, or    *)
(* that is too far ahead of the local clock: addHeaderLocked,              *)
(* buildAncestorLookup, InsertTrustedHeader, recalcMedian.                 *)
THEOREM IndexedAreValidAlways == Spec => []IndexedAreValid
<1>1. HeaderInv => IndexedAreValid
  BY DEF HeaderInv, IndexedAreValid, OwnValid
<1> QED BY <1>1, InitInv, StepInv, PTL DEF Spec

-----------------------------------------------------------------------------
(* The locator.                                                            *)

(* One turn of the loop of HeaderLocator, given the turns before it.       *)
Turn(f, n) ==
    IF n = 1 THEN [at |-> Height[bestHeader], step |-> 1]
    ELSE [at   |-> Greater(0, f[n - 1].at - f[n - 1].step),
          step |-> IF n - 1 > Dense THEN 2 * f[n - 1].step ELSE f[n - 1].step]

(* The loop can be run for any number of turns.                            *)
LEMMA LoopExists ==
    ASSUME NEW m \in Nat
    PROVE  \E f : f = [n \in 1..m |-> Turn(f, n)]
<1> DEFINE Runs(k) == \E f : f = [n \in 1..k |-> Turn(f, n)]
           never == {k \in Nat : ~Runs(k)}
<1>1. Runs(0)
  <2>1. 1..0 = {}
    BY SMT
  <2>2. [n \in {} |-> 0] = [n \in {} |-> Turn([i \in {} |-> 0], n)]
    BY SMT
  <2> QED
    BY <2>1, <2>2
<1>2. ASSUME NEW k \in Nat, k # 0, Runs(k - 1)
      PROVE  Runs(k)
  <2>1. PICK f : f = [n \in 1..(k - 1) |-> Turn(f, n)]
    BY <1>2
  <2> DEFINE g == [n \in 1..k |-> IF n = k THEN Turn(f, k) ELSE f[n]]
  <2>2. ASSUME NEW n \in 1..k
        PROVE  g[n] = Turn(g, n)
    <3>1. n # 1 => n - 1 \in 1..k /\ n - 1 # k
      BY SMT, <1>2
    <3>2. n # 1 => g[n - 1] = f[n - 1]
      BY <3>1
    <3>3. Turn(g, n) = Turn(f, n)
      BY <3>2 DEF Turn
    <3>4. n # k => n \in 1..(k - 1)
      BY SMT, <1>2
    <3>5. g[n] = Turn(f, n)
      BY <2>1, <3>4
    <3> QED
      BY <3>3, <3>5
  <2>3. g = [n \in 1..k |-> g[n]]
    OBVIOUS
  <2> HIDE DEF g
  <2>4. g = [n \in 1..k |-> Turn(g, n)]
    BY <2>2, <2>3
  <2> QED
    BY <2>4
<1>3. never = {}
  <2> SUFFICES ASSUME never # {} PROVE FALSE
    OBVIOUS
  <2>1. PICK k \in never : \A j \in never : k <= j
    BY Least
  <2>2. k \in Nat /\ ~Runs(k) /\ k # 0
    BY <1>1, <2>1
  <2>3. k - 1 \in Nat /\ ~(k <= k - 1)
    BY SMT, <2>2
  <2>4. Runs(k - 1)
    BY <2>1, <2>3
  <2> QED
    BY <1>2, <2>2, <2>4
<1> QED
  BY <1>3

(* The locator lists heights of the best chain.                            *)
LEMMA LocatorInChain ==
    ASSUME bestHeader \in Block
    PROVE  LocatorHeights \subseteq 0..Height[bestHeader]
<1> DEFINE top == Height[bestHeader]
           loop == CHOOSE f : f = [n \in 1..(top + 1) |-> Turn(f, n)]
           OK(n) == loop[n].at \in 0..top /\ loop[n].step \in Nat
           wrong == {n \in Nat : n \in 1..(top + 1) /\ ~OK(n)}
<1>1. top \in Nat /\ top + 1 \in Nat
  BY SMT, TreeAssumption
<1>2. loop = [n \in 1..(top + 1) |-> Turn(loop, n)]
  BY <1>1, LoopExists
<1>3. LocatorHeights = {loop[n].at : n \in DOMAIN loop}
  BY DEF LocatorHeights, Turn
<1> HIDE DEF loop, top
<1>4. wrong = {}
  <2> SUFFICES ASSUME wrong # {} PROVE FALSE
    OBVIOUS
  <2>1. PICK n \in wrong : \A j \in wrong : n <= j
    <3>1. wrong \subseteq Nat
      OBVIOUS
    <3> HIDE DEF wrong
    <3> QED
      BY <3>1, Least
  <2>2. n \in 1..(top + 1) /\ ~OK(n) /\ n \in Nat
    BY <2>1
  <2>3. loop[n] = Turn(loop, n)
    BY <1>2, <2>2
  <2>4. n # 1
    <3> SUFFICES ASSUME n = 1 PROVE FALSE
      OBVIOUS
    <3>1. loop[n].at = top /\ loop[n].step = 1
      <4>1. loop[n] = [at |-> top, step |-> 1]
        BY <2>3 DEF Turn, top
      <4> QED
        BY SMT, <4>1
    <3>2. top \in 0..top /\ 1 \in Nat
      BY SMT, <1>1
    <3> QED
      BY <2>2, <3>1, <3>2
  <2>5. n - 1 \in 1..(top + 1) /\ n - 1 \in Nat /\ ~(n <= n - 1)
    BY SMT, <1>1, <2>2, <2>4
  <2>6. OK(n - 1)
    BY <2>1, <2>5
  <2>7. /\ loop[n].at = Greater(0, loop[n - 1].at - loop[n - 1].step)
        /\ loop[n].step \in {2 * loop[n - 1].step, loop[n - 1].step}
    <3> DEFINE a == Greater(0, loop[n - 1].at - loop[n - 1].step)
               d == IF n - 1 > Dense THEN 2 * loop[n - 1].step ELSE loop[n - 1].step
    <3>1. loop[n] = [at |-> a, step |-> d]
      BY <2>3, <2>4 DEF Turn
    <3>2. d \in {2 * loop[n - 1].step, loop[n - 1].step}
      OBVIOUS
    <3> HIDE DEF a, d
    <3>3. loop[n].at = a /\ loop[n].step = d
      BY SMT, <3>1
    <3> QED
      BY <3>2, <3>3 DEF a
  <2>8. \A a \in 0..top, d \in Nat : Greater(0, a - d) \in 0..top /\ 2 * d \in Nat
    BY SMT, <1>1 DEF Greater
  <2> QED
    BY <2>2, <2>6, <2>7, <2>8
<1>5. \A n \in 1..(top + 1) : loop[n].at \in 0..top
  BY SMT, <1>1, <1>4
<1> QED
  BY <1>2, <1>3, <1>5 DEF top

(* Two chains have genesis in common.                                      *)
LEMMA CommonGenesis ==
    ASSUME NEW x \in Block
    PROVE  AncestorAt[x][0] = Genesis
<1>1. 0 \in 0..Height[x]
  BY SMT, OwnHeight
<1>2. AncestorAt[x][0] \in Block /\ Height[AncestorAt[x][0]] = 0
  BY <1>1, AncestorFacts
<1> QED
  BY SMT, <1>2, ParentFacts

(* The start of a peer's answer: a height where the two chains are one.    *)
LEMMA StartShared ==
    ASSUME bestHeader \in Block, NEW y \in Block, NEW locator \in SUBSET (0..Height[bestHeader])
    PROVE  LET shared == {h \in locator : FindMainChainHash(AncestorAt[bestHeader][h], y)}
               start == CHOOSE h \in shared \cup {0} : \A k \in shared : k <= h
           IN  /\ start \in 0..Height[bestHeader] /\ start \in 0..Height[y]
               /\ AncestorAt[y][start] = AncestorAt[bestHeader][start]
<1> DEFINE top == Height[bestHeader]
           shared == {h \in locator : FindMainChainHash(AncestorAt[bestHeader][h], y)}
           below == {n \in Nat : \E h \in shared \cup {0} : n = top - h}
           start == CHOOSE h \in shared \cup {0} : \A k \in shared : k <= h
<1>1. top \in Nat /\ Height[y] \in Nat
  BY TreeAssumption
<1>2. shared \subseteq 0..top
  OBVIOUS
<1>3. \A h \in shared \cup {0} : h \in Nat /\ top - h \in below
  BY SMT, <1>1, <1>2
<1>4. PICK n \in below : \A j \in below : n <= j
  <2>1. below \subseteq Nat /\ below # {}
    BY <1>3
  <2> QED
    BY <2>1, Least
<1>5. PICK h \in shared \cup {0} : n = top - h
  BY <1>4
<1>6. ASSUME NEW k \in shared
      PROVE  k <= h
  <2>1. k \in Nat /\ h \in Nat /\ top - h <= top - k
    BY <1>3, <1>4, <1>5
  <2> HIDE DEF top
  <2> QED
    BY SMT, <1>1, <2>1
<1>7. start \in shared \cup {0}
  BY <1>5, <1>6
<1>8. CASE start \in shared
  <2>1. start \in 0..top
    BY <1>2, <1>8
  <2>2. /\ Height[AncestorAt[bestHeader][start]] <= Height[y]
        /\ AncestorAt[y][Height[AncestorAt[bestHeader][start]]] = AncestorAt[bestHeader][start]
    BY <1>8 DEF FindMainChainHash
  <2>3. Height[AncestorAt[bestHeader][start]] = start
    BY <2>1, AncestorFacts
  <2>4. start \in 0..Height[y]
    <3>1. start <= Height[y]
      BY <2>2, <2>3
    <3> HIDE DEF start, top
    <3> QED
      BY SMT, <1>1, <2>1, <3>1
  <2> QED
    BY <2>1, <2>2, <2>3, <2>4
<1>9. CASE start = 0
  <2>1. 0 \in 0..top /\ 0 \in 0..Height[y]
    BY SMT, <1>1
  <2> QED
    BY <1>9, <2>1, CommonGenesis
<1> QED
  BY <1>7, <1>8, <1>9

(* The answer of a peer whose active chain ends in y.                      *)
LEMMA AnswerFindsFork ==
    ASSUME bestHeader \in Block, NEW y \in Block, NEW locator \in SUBSET (0..Height[bestHeader])
    PROVE  LET answer == GetHeaders(locator, y)
           IN  /\ answer # <<>> => Parent[answer[1]] \in ChainOf(bestHeader)
               /\ Len(answer) < MaxHeadersPerMsg =>
                     ChainOf(y) \ ChainOf(bestHeader) \subseteq Range(answer)
<1> DEFINE shared == {h \in locator : FindMainChainHash(AncestorAt[bestHeader][h], y)}
           start == CHOOSE h \in shared \cup {0} : \A k \in shared : k <= h
           count == Lesser(MaxHeadersPerMsg, Greater(0, Height[y] - start))
           answer == GetHeaders(locator, y)
<1>1. /\ start \in 0..Height[bestHeader] /\ start \in 0..Height[y]
      /\ AncestorAt[y][start] = AncestorAt[bestHeader][start]
  BY StartShared
<1>2. answer = [i \in 1..count |-> AncestorAt[y][start + i]]
  BY DEF GetHeaders
<1> HIDE DEF start, answer
<1>3. /\ Height[y] \in Nat /\ Height[bestHeader] \in Nat
      /\ MaxHeadersPerMsg \in Nat \ {0} /\ start \in Nat
  BY SMT, <1>1, TreeAssumption, HeaderAssumption
<1>4. count \in 0..(Height[y] - start) /\ (count < MaxHeadersPerMsg => count = Height[y] - start)
  BY SMT, <1>1, <1>3 DEF Lesser, Greater
<1> HIDE DEF count
<1>5. Len(answer) = count /\ (answer # <<>> => count # 0)
  BY SMT, <1>2, <1>3, <1>4
<1>6. ASSUME answer # <<>>
      PROVE  Parent[answer[1]] \in ChainOf(bestHeader)
  <2>1. 1 \in 1..count /\ start + 1 \in 1..Height[y] /\ (start + 1) - 1 = start
    BY SMT, <1>3, <1>4, <1>5, <1>6
  <2>2. Parent[answer[1]] = AncestorAt[bestHeader][start]
    BY <1>1, <1>2, <2>1, AncestorParent
  <2> QED
    BY <1>1, <2>2 DEF ChainOf
<1>7. ASSUME Len(answer) < MaxHeadersPerMsg, NEW x \in ChainOf(y) \ ChainOf(bestHeader)
      PROVE  x \in Range(answer)
  <2>1. PICK h \in 0..Height[y] : x = AncestorAt[y][h]
    BY <1>7 DEF ChainOf
  <2>2. ~(h <= start)
    <3> SUFFICES ASSUME h <= start PROVE FALSE
      OBVIOUS
    <3>1. h \in 0..start /\ h \in 0..Height[bestHeader]
      BY SMT, <1>1, <1>3, <2>1
    <3>2. start <= Height[y] /\ start <= Height[bestHeader]
      BY SMT, <1>1, <1>3
    <3>3. x = AncestorAt[bestHeader][h]
      <4>1. \A k \in 0..start : AncestorAt[y][k] = AncestorAt[bestHeader][k]
        BY <1>1, <1>3, <3>2, SharedPrefix
      <4> QED
        BY <2>1, <3>1, <4>1
    <3> QED
      BY <1>7, <3>1, <3>3 DEF ChainOf
  <2>3. h - start \in 1..count /\ start + (h - start) = h
    BY SMT, <1>3, <1>4, <1>5, <1>7, <2>1, <2>2
  <2>4. answer[h - start] = x /\ h - start \in DOMAIN answer
    BY <1>2, <2>1, <2>3
  <2> QED
    BY <2>4 DEF Range
<1> QED
  BY <1>6, <1>7 DEF answer

(* Header synchronisation never gets stuck: whatever tree of headers both  *)
(* sides have, the answer to our locator continues our best chain, and     *)
(* holds all that it lacks unless the message is full: HeaderLocator,      *)
(* FindMainChainHash, handleGetHeaders.                                    *)
THEOREM LocatorFindsForkAlways == Spec => []LocatorFindsFork
<1>1. HeaderInv => LocatorFindsFork
  BY LocatorInChain, AnswerFindsFork DEF HeaderInv, TypeOK, LocatorFindsFork
<1> QED BY <1>1, InitInv, StepInv, PTL DEF Spec

=============================================================================
