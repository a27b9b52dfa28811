----------------------------- MODULE SyncProofs ------------------------------
(***************************************************************************)
(* The block scheduler loses no block, asks no two peers for one and has   *)
(* each in one place; only senders of broken blocks are banned; and a      *)
(* scheduler that is through has connected what it was given: for any      *)
(* peers, chains, claims, limits and faults.                               *)
(*                                                                         *)
(* First the queues and each method of the scheduler, then the inductive   *)
(* invariant SyncInv with one lemma for each action, then the end of the   *)
(* block phase, and the places of a block.                                 *)
(***************************************************************************)
EXTENDS Sync, FiniteSetTheorems, SequenceTheorems, WellFoundedInduction, TLAPS

(* First-order steps; a leaf that needs arithmetic or functions cites SMT. *)
USE Zenon

-----------------------------------------------------------------------------
(* Numbers and queues.                                                     *)

(* The larger of two numbers.                                              *)
LEMMA MaxOfTwo ==
    ASSUME NEW a \in Int, NEW b \in Int
    PROVE  Max({a, b}) = IF a >= b THEN a ELSE b
  BY SMT DEF Max

(* The smaller of two numbers.                                             *)
LEMMA MinOfTwo ==
    ASSUME NEW a \in Int, NEW b \in Int
    PROVE  Min({a, b}) = IF a <= b THEN a ELSE b
  BY SMT DEF Min

(* The least of three numbers is no larger than the third.                 *)
LEMMA MinOfThree ==
    ASSUME NEW a \in Int, NEW b \in Int, NEW c \in Int
    PROVE  Min({a, b, c}) \in Int /\ Min({a, b, c}) <= c
<1>1. \E x \in {a, b, c} : \A y \in {a, b, c} : x <= y
  <2>1. CASE a <= b /\ a <= c
    BY SMT, <2>1
  <2>2. CASE b <= a /\ b <= c
    BY SMT, <2>2
  <2>3. CASE c <= a /\ c <= b
    BY SMT, <2>3
  <2> QED BY SMT, <2>1, <2>2, <2>3
<1>2. Min({a, b, c}) \in {a, b, c} /\ \A y \in {a, b, c} : Min({a, b, c}) <= y
  BY <1>1 DEF Min
<1> QED BY SMT, <1>2

(* Every inhabited set of natural numbers up to n has a largest element.   *)
LEMMA Largest ==
    ASSUME NEW n \in Nat, NEW S, S \subseteq 0..n, S # {}
    PROVE  Max(S) \in S /\ \A x \in S : x <= Max(S)
<1> DEFINE T == {n - x : x \in S}
<1>1. T \subseteq Nat /\ T # {}
  <2>1. \A x \in S : n - x \in Nat
    BY SMT
  <2> QED BY <2>1
<1>2. \E x \in T : \A y \in T : ~(<<y, x>> \in OpToRel(<, Nat))
  BY <1>1, WFMin, NatLessThanWellFounded
<1>3. PICK t \in T : \A y \in T : ~(<<y, t>> \in OpToRel(<, Nat))
  BY <1>2
<1>4. \A y \in T : ~(y < t)
  BY <1>1, <1>3 DEF OpToRel
<1>5. PICK m \in S : t = n - m
  OBVIOUS
<1>6. \A x \in S : n - x \in T
  OBVIOUS
<1>7. \A x \in S : ~(n - x < n - m)
  BY <1>4, <1>5, <1>6
<1> HIDE DEF T
<1>8. \A x \in S : m >= x
  <2>1. \A x \in S : x \in 0..n
    OBVIOUS
  <2> QED BY SMT, <1>7, <2>1
<1>9. Max(S) \in S /\ \A x \in S : Max(S) >= x
  BY <1>8 DEF Max
<1> QED BY SMT, <1>9

(* What a queue holds.                                                     *)
LEMMA InRange ==
    ASSUME NEW f, NEW x
    PROVE  x \in Range(f) <=> \E i \in DOMAIN f : f[i] = x
  BY SMT DEF Range

(* The range of a sequence, by its positions.                              *)
LEMMA RangeOn ==
    ASSUME NEW f, NEW D, DOMAIN f = D
    PROVE  /\ \A i \in D : f[i] \in Range(f)
           /\ \A x \in Range(f) : \E i \in D : f[i] = x
  BY DEF Range

(* The blocks of some entries.                                             *)
LEMMA InBlocks ==
    ASSUME NEW E, NEW b
    PROVE  b \in Blocks(E) <=> \E e \in E : e.block = b
  BY SMT DEF Blocks

(* A queue that is served from its head.                                   *)
LEMMA HeadTail ==
    ASSUME NEW S, NEW q \in Seq(S), q # <<>>
    PROVE  /\ Head(q) \in S /\ Tail(q) \in Seq(S)
           /\ \A x : x \in Range(q) <=> x = Head(q) \/ x \in Range(Tail(q))
<1> DEFINE n == Len(q) - 1
           s == Tail(q)
<1>1. Head(q) \in S /\ s \in Seq(S)
  BY SMT
<1>2. /\ n \in Nat /\ DOMAIN q = 1..(n + 1) /\ DOMAIN s = 1..n
      /\ q[1] = Head(q) /\ \A i \in 1..n : s[i] = q[i + 1]
  BY SMT
<1>3. Head(q) = q[1]
  BY <1>2
<1> HIDE DEF n, s
<1>4. /\ 1 \in 1..(n + 1) /\ \A i \in 1..n : i + 1 \in 1..(n + 1)
      /\ \A i \in 1..(n + 1) : i = 1 \/ (i - 1 \in 1..n /\ (i - 1) + 1 = i)
  BY SMT, <1>2
<1>5. /\ \A i \in 1..(n + 1) : q[i] \in Range(q)
      /\ \A x \in Range(q) : \E i \in 1..(n + 1) : q[i] = x
      /\ \A i \in 1..n : s[i] \in Range(s)
      /\ \A x \in Range(s) : \E i \in 1..n : s[i] = x
  <2>1. DOMAIN q = 1..(n + 1) /\ DOMAIN s = 1..n
    BY <1>2
  <2>2. /\ \A i \in 1..(n + 1) : q[i] \in Range(q)
        /\ \A x \in Range(q) : \E i \in 1..(n + 1) : q[i] = x
    BY <2>1, RangeOn
  <2>3. /\ \A i \in 1..n : s[i] \in Range(s)
        /\ \A x \in Range(s) : \E i \in 1..n : s[i] = x
    BY <2>1, RangeOn
  <2> QED BY <2>2, <2>3
<1>6. \A i \in 1..(n + 1) : q[i] = Head(q) \/ q[i] \in Range(s)
  <2>1. ASSUME NEW i \in 1..(n + 1), i # 1
        PROVE  q[i] \in Range(s)
    <3>1. i - 1 \in 1..n /\ (i - 1) + 1 = i
      BY <1>4, <2>1
    <3>2. s[i - 1] = q[i]
      BY <1>2, <3>1
    <3> QED BY <1>5, <3>1, <3>2
  <2> QED BY <1>3, <2>1
<1>7. \A i \in 1..n : s[i] \in Range(q)
  BY <1>2, <1>4, <1>5
<1>8. Head(q) \in Range(q)
  BY <1>3, <1>4, <1>5
<1>9. \A x \in Range(q) : x = Head(q) \/ x \in Range(s)
  BY <1>5, <1>6
<1>10. \A x \in Range(s) : x \in Range(q)
  BY <1>5, <1>7
<1> QED BY <1>1, <1>8, <1>9, <1>10 DEF s

(* The positions of a queue in order: the n-th is the one of rank n.       *)
LEMMA Ranks ==
    ASSUME NEW n \in Nat, NEW P \in SUBSET (1..n)
    PROVE  /\ IsFiniteSet(P) /\ Cardinality(P) \in Nat
           /\ \A i \in P : Rank(P, i) \in 1..Cardinality(P)
           /\ \A i, k \in P : Rank(P, i) = Rank(P, k) => i = k
           /\ \A m \in 1..Cardinality(P) : \E i \in P : Rank(P, i) = m
<1> DEFINE c == Cardinality(P)
           f == [i \in P |-> Rank(P, i)]
<1>1. IsFiniteSet(P) /\ c \in Nat
  <2>1. IsFiniteSet(1..n)
    BY FS_Interval, SMT
  <2> QED BY <2>1, FS_Subset, FS_CardinalityType
<1>2. ASSUME NEW i \in P
      PROVE  Rank(P, i) \in 1..c
  <2> DEFINE B == {j \in P : j <= i}
  <2>1. B \in SUBSET P /\ i \in B
    BY SMT
  <2>2. IsFiniteSet(B) /\ Cardinality(B) <= c
    BY <1>1, <2>1, FS_Subset
  <2>3. Cardinality(B) \in Nat
    BY <2>2, FS_CardinalityType
  <2>4. Cardinality(B) # 0
    <3>1. B # {}
      BY <2>1
    <3> HIDE DEF B
    <3> QED BY <2>2, <3>1, FS_EmptySet
  <2> HIDE DEF B, c
  <2>5. Cardinality(B) \in 1..c
    BY SMT, <1>1, <2>2, <2>3, <2>4
  <2> QED BY <2>5 DEF B, Rank
<1>3. ASSUME NEW i \in P, NEW k \in P, i < k
      PROVE  Rank(P, i) # Rank(P, k)
  <2> DEFINE A == {j \in P : j <= i}
             B == {j \in P : j <= k}
  <2>1. A \in SUBSET B /\ k \in B /\ k \notin A
    <3>1. k <= k /\ ~(k <= i) /\ \A j \in P : j <= i => j <= k
      BY SMT, <1>3
    <3> QED BY <3>1
  <2>2. IsFiniteSet(B)
    <3>1. B \in SUBSET P
      OBVIOUS
    <3> QED BY <1>1, <3>1, FS_Subset
  <2> HIDE DEF A, B
  <2>3. Cardinality(A) # Cardinality(B)
    BY <2>1, <2>2, FS_Subset
  <2> QED BY <2>3 DEF A, B, Rank
<1>4. \A i, k \in P : Rank(P, i) = Rank(P, k) => i = k
  <2>1. \A i, k \in P : i < k \/ k < i \/ i = k
    BY SMT
  <2> QED BY <1>3, <2>1
<1>5. f \in Injection(P, 1..c)
  <2>1. f \in [P -> 1..c]
    BY <1>2
  <2>2. IsInjective(f)
    BY <1>4 DEF IsInjective
  <2> QED BY <2>1, <2>2 DEF Injection
<1>6. IsFiniteSet(1..c) /\ Cardinality(1..c) = c
  <2>1. 1 \in Int /\ c \in Int
    BY SMT, <1>1
  <2>2. IsFiniteSet(1..c) /\ Cardinality(1..c) = IF 1 > c THEN 0 ELSE c - 1 + 1
    BY <2>1, FS_Interval
  <2> QED BY SMT, <1>1, <2>2
<1>7. f \in Surjection(P, 1..c)
  BY <1>5, <1>6, FS_Injection
<1>8. \A m \in 1..c : \E i \in P : Rank(P, i) = m
  BY <1>7 DEF Surjection
<1> QED BY <1>1, <1>2, <1>4, <1>8

(* What is at the given positions of a queue, one by one.                  *)
LEMMA AtFacts ==
    ASSUME NEW S, NEW q \in Seq(S), NEW P \in SUBSET DOMAIN q
    PROVE  /\ At(q, P) \in Seq(S) /\ IsFiniteSet(P)
           /\ Range(At(q, P)) = {q[i] : i \in P}
           /\ \A m, n \in DOMAIN At(q, P) : \E i, k \in P :
                 /\ At(q, P)[m] = q[i] /\ At(q, P)[n] = q[k]
                 /\ i = k => m = n
<1> DEFINE c == Cardinality(P)
           f(n) == CHOOSE i \in P : Rank(P, i) = n
           s == At(q, P)
<1>1. Len(q) \in Nat /\ P \in SUBSET (1..Len(q))
  BY LenProperties
<1>2. /\ IsFiniteSet(P) /\ c \in Nat
      /\ \A i \in P : Rank(P, i) \in 1..c
      /\ \A i, k \in P : Rank(P, i) = Rank(P, k) => i = k
      /\ \A m \in 1..c : \E i \in P : Rank(P, i) = m
  BY <1>1, Ranks
<1>3. \A n \in 1..c : f(n) \in P /\ Rank(P, f(n)) = n
  BY <1>2
<1>4. s = [n \in 1..c |-> q[f(n)]]
  BY DEF At
<1> HIDE DEF f, s, c
<1>5. \A i \in P : q[i] \in S
  BY <1>1, ElementOfSeq
<1>6. s \in Seq(S) /\ DOMAIN s = 1..c /\ \A n \in 1..c : s[n] = q[f(n)]
  <2>1. s \in [1..c -> S]
    BY <1>3, <1>4, <1>5
  <2>2. s \in Seq(S)
    BY SMT, <1>2, <2>1
  <2> QED BY <1>4, <2>1, <2>2
<1>7. \A i \in P : Rank(P, i) \in 1..c /\ f(Rank(P, i)) = i
  BY <1>2, <1>3
<1>8. Range(s) = {q[i] : i \in P}
  <2>1. /\ \A n \in 1..c : s[n] \in Range(s)
        /\ \A x \in Range(s) : \E n \in 1..c : s[n] = x
    BY <1>6, RangeOn
  <2>2. \A n \in 1..c : s[n] \in {q[i] : i \in P}
    BY <1>3, <1>6
  <2>3. \A i \in P : \E n \in 1..c : s[n] = q[i]
    BY <1>6, <1>7
  <2>4. \A i \in P : q[i] \in Range(s)
    BY <2>1, <2>3
  <2> QED BY <2>1, <2>2, <2>4
<1>9. \A m, n \in 1..c : f(m) = f(n) => m = n
  BY <1>3
<1>10. \A m, n \in 1..c : \E i, k \in P : s[m] = q[i] /\ s[n] = q[k] /\ (i = k => m = n)
  BY <1>3, <1>6, <1>9
<1>11. \A m, n \in DOMAIN s : \E i, k \in P : s[m] = q[i] /\ s[n] = q[k] /\ (i = k => m = n)
  BY SMT, <1>6, <1>10
<1> QED BY <1>2, <1>6, <1>8, <1>11 DEF s

(* A queue has each block once, and some entries have no block of others.  *)
OnlyOnce(q) == \A i, j \in DOMAIN q : q[i].block = q[j].block => i = j
Apart(A, B) == \A e \in A, f \in B : e.block # f.block

(* No block is in two places, where what was drained is a place of its own.*)
PlacedOK ==
    /\ OnlyOnce(needed) /\ OnlyOnce(ready) /\ Apart(Range(needed), inFlight)
    /\ Apart(Range(needed), staging) /\ Apart(Range(needed), Range(ready))
    /\ Apart(inFlight, staging) /\ Apart(inFlight, Range(ready)) /\ Apart(staging, Range(ready))

(* An empty place is apart from every other.                               *)
LEMMA NothingApart ==
    /\ OnlyOnce(<<>>) /\ Range(<<>>) = {} /\ Blocks({}) = {}
    /\ \A A : Apart(A, {}) /\ Apart({}, A)
<1>1. OnlyOnce(<<>>)
  BY SMT DEF OnlyOnce
<1>2. Range(<<>>) = {}
  BY SMT DEF Range
<1> QED BY <1>1, <1>2 DEF Blocks, Apart

(* The head of a queue that has each block once is in no other position.   *)
LEMMA TailOnce ==
    ASSUME NEW S, NEW q \in Seq(S), q # <<>>, OnlyOnce(q)
    PROVE  OnlyOnce(Tail(q)) /\ \A x \in Range(Tail(q)) : x.block # Head(q).block
<1> DEFINE n == Len(q) - 1
           s == Tail(q)
<1>1. /\ n \in Nat /\ DOMAIN q = 1..(n + 1) /\ DOMAIN s = 1..n
      /\ q[1] = Head(q) /\ \A i \in 1..n : s[i] = q[i + 1]
  BY SMT
<1> HIDE DEF n, s
<1>2. /\ 1 \in 1..(n + 1) /\ \A i \in 1..n : i + 1 \in 1..(n + 1) /\ i + 1 # 1
      /\ \A i, j \in 1..n : i + 1 = j + 1 => i = j
  BY SMT, <1>1
<1>3. \A i, j \in 1..(n + 1) : q[i].block = q[j].block => i = j
  BY <1>1 DEF OnlyOnce
<1>4. ASSUME NEW i \in 1..n, NEW j \in 1..n, s[i].block = s[j].block
      PROVE  i = j
  <2>1. q[i + 1].block = q[j + 1].block
    BY <1>1, <1>4
  <2>2. i + 1 = j + 1
    BY <1>2, <1>3, <2>1
  <2> QED BY <1>2, <2>2
<1>5. \A i \in 1..n : s[i].block # Head(q).block
  <2>1. q[1] = Head(q)
    BY <1>1
  <2>2. \A i \in 1..n : q[i + 1].block # q[1].block
    BY <1>2, <1>3
  <2> QED BY <1>1, <2>1, <2>2
<1>6. DOMAIN s = 1..n
  BY <1>1
<1>7. \A x \in Range(s) : \E i \in 1..n : s[i] = x
  BY <1>6, RangeOn
<1>8. OnlyOnce(s)
  BY <1>4, <1>6 DEF OnlyOnce
<1> QED BY <1>5, <1>7, <1>8 DEF s

(* Entries are put back: each once, after those there are.                 *)
LEMMA PutBackFacts ==
    ASSUME NEW S, needed \in Seq(S), NEW E \in SUBSET S, IsFiniteSet(E), PutBack(E)
    PROVE  /\ needed' \in Seq(S)
           /\ Range(needed') = Range(needed) \union E
           /\ (/\ OnlyOnce(needed) /\ Apart(Range(needed), E)
               /\ \A e, f \in E : e.block = f.block => e = f)
              => OnlyOnce(needed')
<1> DEFINE c == Cardinality(E)
           n == Len(needed)
<1>1. PICK order \in Bijection(1..c, E) : needed' = needed \o order
  BY DEF PutBack
<1>2. c \in Nat /\ n \in Nat /\ DOMAIN needed = 1..n
  BY FS_CardinalityType, LenProperties
<1>3. order \in [1..c -> E] /\ \A i, j \in 1..c : order[i] = order[j] => i = j
  BY <1>1 DEF Bijection, Injection, IsInjective
<1>4. order \in Surjection(1..c, E)
  BY <1>1 DEF Bijection
<1>5. order \in Seq(S) /\ Len(order) = c
  <2>1. order \in [1..c -> S]
    BY <1>3
  <2>2. order \in Seq(S)
    BY SMT, <1>2, <2>1
  <2>3. DOMAIN order = 1..c
    BY <2>1
  <2> QED BY <1>2, <2>2, <2>3, LenProperties, SMT
<1> HIDE DEF c, n
<1>6. /\ needed' \in Seq(S) /\ DOMAIN needed' = 1..(n + c)
      /\ \A i \in 1..n : needed'[i] = needed[i]
      /\ \A i \in (n + 1)..(n + c) : needed'[i] = order[i - n]
  BY SMT, <1>1, <1>2, <1>5 DEF n
<1>7. /\ \A i \in 1..(n + c) : i \in 1..n \/ (i \in (n + 1)..(n + c) /\ i - n \in 1..c)
      /\ \A i \in 1..n : i \in 1..(n + c)
      /\ \A i \in 1..c : n + i \in (n + 1)..(n + c) /\ n + i \in 1..(n + c) /\ n + i - n = i
      /\ \A i, j \in (n + 1)..(n + c) : i - n = j - n => i = j
  BY SMT, <1>2
<1>8. \A i \in 1..(n + c) : needed'[i] \in Range(needed) \union E
  <2>1. \A k \in 1..n : needed[k] \in Range(needed)
    BY <1>2, InRange
  <2>2. \A k \in 1..c : order[k] \in E
    BY <1>3
  <2> QED BY <1>6, <1>7, <2>1, <2>2
<1>9. \A x \in Range(needed) : \E i \in 1..(n + c) : needed'[i] = x
  <2>1. \A x \in Range(needed) : \E i \in 1..n : needed[i] = x
    BY SMT, <1>2, InRange
  <2> QED BY SMT, <1>6, <1>7, <2>1
<1>10. \A x \in E : \E i \in 1..(n + c) : needed'[i] = x
  <2>1. \A x \in E : \E k \in 1..c : order[k] = x
    BY <1>4 DEF Surjection
  <2>2. \A k \in 1..c : n + k \in 1..(n + c) /\ needed'[n + k] = order[k]
    BY SMT, <1>2, <1>6
  <2> QED BY <2>1, <2>2
<1>11. Range(needed') = Range(needed) \union E
  <2>1. /\ \A i \in 1..(n + c) : needed'[i] \in Range(needed')
        /\ \A x \in Range(needed') : \E i \in 1..(n + c) : needed'[i] = x
    <3>1. DOMAIN (needed') = 1..(n + c)
      BY <1>6
    <3> QED BY <3>1, RangeOn
  <2> QED BY <1>8, <1>9, <1>10, <2>1
<1>12. ASSUME OnlyOnce(needed), Apart(Range(needed), E),
              \A e, f \in E : e.block = f.block => e = f,
              NEW i \in 1..(n + c), NEW j \in 1..(n + c), needed'[i].block = needed'[j].block
       PROVE  i = j
  <2>1. \A x \in Range(needed), y \in E : x.block # y.block
    BY <1>12 DEF Apart
  <2>2. \A k \in 1..n : needed[k] \in Range(needed)
    BY <1>2, InRange
  <2>3. CASE i \in 1..n /\ j \in 1..n
    BY <1>2, <1>6, <1>12, <2>3 DEF OnlyOnce
  <2>4. CASE i \in 1..n /\ j \in (n + 1)..(n + c) /\ j - n \in 1..c
    BY <1>3, <1>6, <1>12, <2>1, <2>2, <2>4
  <2>5. CASE j \in 1..n /\ i \in (n + 1)..(n + c) /\ i - n \in 1..c
    BY <1>3, <1>6, <1>12, <2>1, <2>2, <2>5
  <2>6. CASE i \in (n + 1)..(n + c) /\ i - n \in 1..c /\ j \in (n + 1)..(n + c) /\ j - n \in 1..c
    <3>1. order[i - n].block = order[j - n].block
      BY <1>6, <1>12, <2>6
    <3>2. order[i - n] = order[j - n]
      BY <1>3, <1>12, <2>6, <3>1
    <3>3. i - n = j - n
      BY <1>3, <2>6, <3>2
    <3> QED BY <1>7, <2>6, <3>3
  <2> QED BY <1>7, <2>3, <2>4, <2>5, <2>6
<1>13. OnlyOnce(needed) /\ Apart(Range(needed), E) /\ (\A e, f \in E : e.block = f.block => e = f)
       => OnlyOnce(needed')
  BY <1>6, <1>12 DEF OnlyOnce
<1> QED BY <1>6, <1>11, <1>13

-----------------------------------------------------------------------------
(* The parts of the inductive invariant, one for each group of variables.  *)

Heights == 0..MaxHeight
Entry == [block : Heights, height : Nat]
Request == [block : Heights, height : Nat, peer : Peer]

(* What a peer has delivered; only a faulty peer delivers a broken block.  *)
Delivered ==
    {e \in [block : Heights, peer : Peer, good : BOOLEAN] : e.good \/ e.peer \in Faulty}

SchedOK ==
    /\ needed \in Seq(Entry)
    /\ inFlight \in SUBSET Request /\ IsFiniteSet(inFlight)
    /\ staging \in SUBSET Delivered /\ IsFiniteSet(staging)
    /\ statInFlight \in [Peer -> Int] /\ nextConnect \in Nat
    /\ OneRequest

(* What the scheduler has, block by block.                                 *)
LEMMA InExpected ==
    ASSUME NEW b
    PROVE  b \in ExpectedHashes <=> \/ b \in Blocks(Range(needed)) \/ b \in Blocks(inFlight)
                                     \/ b \in Blocks(staging)
  BY DEF ExpectedHashes

(* Populate queues the headers above the tip, and nothing else is left.    *)
LEMMA PopulateFacts ==
    ASSUME NEW t \in Nat, NEW b \in Nat, b <= MaxHeight \/ b <= t, Populate(t, b)
    PROVE  /\ SchedOK' /\ ExpectedHashes' = (t + 1)..b
           /\ ready' = <<>> => PlacedOK'
<1> DEFINE n == IF b > t THEN b - t ELSE 0
           New(i) == [block |-> t + i, height |-> t + i]
<1>1. /\ nextConnect' = t + 1 /\ inFlight' = {} /\ staging' = {}
      /\ statInFlight' = [p \in Peer |-> 0]
      /\ needed' = [i \in 1..(b - t) |-> New(i)]
  BY DEF Populate
<1>2. MaxHeight \in Nat /\ MaxGlobalInFlight \in Nat
  BY SchedulerAssumption
<1>3. n \in Nat /\ 1..(b - t) = 1..n
  BY SMT
<1>4. \A i \in 1..n : t + i \in Heights /\ t + i \in Nat
  BY SMT, <1>2 DEF Heights
<1>5. \A i \in 1..n : New(i) \in Entry
  BY <1>4 DEF Entry
<1>6. needed' = [i \in 1..n |-> New(i)]
  BY <1>1, <1>3
<1>7. \A x \in (t + 1)..b : x - t \in 1..n /\ t + (x - t) = x
  BY SMT
<1>8. \A i \in 1..n : t + i \in (t + 1)..b
  BY SMT
<1> HIDE DEF n
<1>9. needed' \in Seq(Entry) /\ DOMAIN needed' = 1..n /\ \A i \in 1..n : needed'[i] = New(i)
  <2>1. needed' \in [1..n -> Entry]
    BY <1>5, <1>6
  <2>2. needed' \in Seq(Entry)
    BY SMT, <1>3, <2>1
  <2> QED BY <1>6, <2>1, <2>2
<1>10. SchedOK'
  <2>1. IsFiniteSet({}) /\ Cardinality({}) = 0
    BY FS_EmptySet
  <2>2. 0 <= MaxGlobalInFlight /\ t + 1 \in Nat /\ 0 \in Int
    BY SMT, <1>2
  <2>3. Cardinality(inFlight') <= MaxGlobalInFlight
    BY <1>1, <2>1, <2>2
  <2>4. OneRequest'
    BY <1>1, <2>3 DEF OneRequest
  <2>5. IsFiniteSet(inFlight') /\ IsFiniteSet(staging')
    BY <1>1, <2>1
  <2>6. statInFlight' \in [Peer -> Int] /\ nextConnect' \in Nat
    BY <1>1, <2>2
  <2> QED BY <1>1, <1>9, <2>4, <2>5, <2>6 DEF SchedOK
<1>11. Blocks(inFlight') = {} /\ Blocks(staging') = {}
  BY <1>1 DEF Blocks
<1>12. Blocks(Range(needed')) = (t + 1)..b
  <2>1. /\ \A i \in 1..n : needed'[i] \in Range(needed')
        /\ \A x \in Range(needed') : \E i \in 1..n : needed'[i] = x
    <3>1. DOMAIN (needed') = 1..n
      BY <1>9
    <3> QED BY <3>1, RangeOn
  <2>2. \A i \in 1..n : needed'[i].block = t + i
    BY SMT, <1>9
  <2>3. ASSUME NEW x \in (t + 1)..b
        PROVE  x \in Blocks(Range(needed'))
    <3>1. needed'[x - t] \in Range(needed') /\ needed'[x - t].block = x
      BY <1>7, <2>1, <2>2
    <3> QED BY <3>1, InBlocks
  <2>4. \A e \in Range(needed') : e.block \in (t + 1)..b
    BY <1>8, <2>1, <2>2
  <2>5. \A x \in Blocks(Range(needed')) : x \in (t + 1)..b
    BY <2>4, InBlocks
  <2> QED BY <2>3, <2>5
<1>13. ASSUME ready' = <<>>
       PROVE  PlacedOK'
  <2>1. \A i, j \in 1..n : needed'[i].block = needed'[j].block => i = j
    <3>1. \A i \in 1..n : needed'[i].block = t + i
      BY SMT, <1>9
    <3>2. \A i, j \in 1..n : t + i = t + j => i = j
      BY SMT, <1>3
    <3> QED BY <3>1, <3>2
  <2>2. OnlyOnce(needed')
    BY <1>9, <2>1 DEF OnlyOnce
  <2> QED BY <1>1, <1>13, <2>2, NothingApart DEF PlacedOK
<1> QED BY <1>10, <1>11, <1>12, <1>13 DEF ExpectedHashes

(* AssignWork stays within what the global limit leaves.                   *)
LEMMA RoomFacts ==
    ASSUME SchedOK, NEW p \in Peer
    PROVE  /\ Cardinality(inFlight) \in Nat /\ Room(p) \in Int
           /\ Cardinality(inFlight) + Room(p) <= MaxGlobalInFlight
<1> DEFINE c == Cardinality(inFlight)
           a == MaxInFlightPerPeer - statInFlight[p]
           d == MaxGlobalInFlight - c
           m == Min({MaxInFlightPerPeer, a, d})
<1>1. c \in Nat /\ c <= MaxGlobalInFlight
  BY FS_CardinalityType DEF SchedOK, OneRequest
<1>2. statInFlight[p] \in Int /\ MaxInFlightPerPeer \in Nat /\ MaxGlobalInFlight \in Nat
  BY SchedulerAssumption DEF SchedOK
<1>3. a \in Int /\ d \in Int /\ MaxInFlightPerPeer \in Int
  BY SMT, <1>1, <1>2
<1>4. m \in Int /\ m <= d
  BY <1>3, MinOfThree
<1>5. Room(p) = IF Cardinality(staging) >= MaxStagingSize THEN 0 ELSE Max({0, m})
  BY DEF Room
<1> HIDE DEF m
<1>6. Max({0, m}) = IF 0 >= m THEN 0 ELSE m
  <2>1. 0 \in Int
    BY SMT
  <2> QED BY <1>4, <2>1, MaxOfTwo
<1>7. Room(p) \in {0, m} /\ (Room(p) = m => Room(p) = 0 \/ ~(0 >= m))
  BY <1>5, <1>6
<1> HIDE DEF c
<1>8. Room(p) \in Int /\ c + Room(p) <= MaxGlobalInFlight
  BY SMT, <1>1, <1>2, <1>4, <1>7
<1> QED BY <1>1, <1>8 DEF c

(* AssignWork moves entries from the queue into flight, within the limit.  *)
LEMMA AssignFacts ==
    ASSUME SchedOK, NEW p \in Peer, NEW best, NEW take \in SUBSET DOMAIN needed,
           AssignWork(p, best, take)
    PROVE  /\ SchedOK' /\ ExpectedHashes' = ExpectedHashes
           /\ PlacedOK /\ ready' = ready => PlacedOK'
<1> DEFINE New(i) == [block |-> needed[i].block, height |-> needed[i].height, peer |-> p]
           T == {New(i) : i \in take}
           rest == DOMAIN needed \ take
<1>1. /\ needed' = At(needed, rest) /\ inFlight' = inFlight \union T
      /\ statInFlight' = [statInFlight EXCEPT ![p] = @ + Cardinality(take)]
      /\ staging' = staging /\ nextConnect' = nextConnect
  BY DEF AssignWork
<1>2. /\ \A i \in take : needed[i].block \notin Blocks(inFlight)
      /\ \A i, j \in take : needed[i].block = needed[j].block => i = j
      /\ Cardinality(take) <= Room(p)
  BY DEF AssignWork, Taken
<1>3. needed \in Seq(Entry)
  BY DEF SchedOK
<1>4. \A i \in DOMAIN needed : needed[i].block \in Heights /\ needed[i].height \in Nat
  <2>1. \A i \in DOMAIN needed : needed[i] \in Entry
    BY SMT, <1>3
  <2>2. \A e \in Entry : e.block \in Heights /\ e.height \in Nat
    BY SMT DEF Entry
  <2> QED BY <2>1, <2>2
<1>5. needed' \in Seq(Entry) /\ Range(needed') = {needed[i] : i \in rest}
  <2>1. rest \in SUBSET DOMAIN needed
    OBVIOUS
  <2>2. At(needed, rest) \in Seq(Entry) /\ Range(At(needed, rest)) = {needed[i] : i \in rest}
    <3> HIDE DEF rest
    <3> QED BY SMT, <1>3, <2>1, AtFacts
  <2> QED BY <1>1, <2>2
<1>6. IsFiniteSet(take) /\ Cardinality(take) \in Nat
  <2>1. IsFiniteSet(take)
    BY <1>3, AtFacts
  <2> QED BY <2>1, FS_CardinalityType
<1>7. T \in SUBSET Request
  <2>1. ASSUME NEW i \in take
        PROVE  New(i) \in Request
    <3>1. i \in DOMAIN needed
      OBVIOUS
    <3>2. needed[i].block \in Heights /\ needed[i].height \in Nat
      BY <1>4, <3>1
    <3> QED BY <3>2 DEF Request
  <2> QED BY <2>1
<1>8. IsFiniteSet(T) /\ Cardinality(T) <= Cardinality(take) /\ Cardinality(T) \in Nat
  <2> DEFINE f == [i \in take |-> New(i)]
  <2>1. f \in Surjection(take, T)
    BY DEF Surjection
  <2> HIDE DEF f, T
  <2> QED BY <1>6, <2>1, FS_Surjection, FS_CardinalityType
<1>9. \A i \in take : New(i).block = needed[i].block
  BY SMT
<1> HIDE DEF New
<1>10. IsFiniteSet(inFlight') /\ Cardinality(inFlight') <= MaxGlobalInFlight
  <2>1. IsFiniteSet(inFlight) /\ IsFiniteSet(inFlight \intersect T)
    BY FS_Intersection DEF SchedOK
  <2> HIDE DEF T
  <2>2. /\ IsFiniteSet(inFlight')
        /\ Cardinality(inFlight') = Cardinality(inFlight) + Cardinality(T)
                                       - Cardinality(inFlight \intersect T)
    BY <1>1, <1>8, <2>1, FS_Union
  <2>3. Cardinality(inFlight \intersect T) \in Nat
    BY <2>1, FS_CardinalityType
  <2>4. /\ Cardinality(inFlight) \in Nat /\ Room(p) \in Int
        /\ Cardinality(inFlight) + Room(p) <= MaxGlobalInFlight
    BY RoomFacts
  <2>5. MaxGlobalInFlight \in Nat
    BY SchedulerAssumption
  <2> QED BY SMT, <1>2, <1>6, <1>8, <2>2, <2>3, <2>4, <2>5
<1>11. \A e, f \in inFlight' : e.block = f.block => e = f
  <2>1. \A e \in T : \E i \in take : e = New(i) /\ e.block = needed[i].block
    BY <1>9
  <2>2. \A e \in inFlight, f \in T : e.block # f.block
    BY <1>2, <2>1, InBlocks
  <2>3. ASSUME NEW e \in T, NEW f \in T, e.block = f.block
        PROVE  e = f
    <3>1. PICK i \in take : e = New(i) /\ e.block = needed[i].block
      BY <2>1
    <3>2. PICK j \in take : f = New(j) /\ f.block = needed[j].block
      BY <2>1
    <3> QED BY <1>2, <2>3, <3>1, <3>2
  <2>4. \A e, f \in inFlight : e.block = f.block => e = f
    BY DEF SchedOK, OneRequest
  <2> HIDE DEF T
  <2> QED BY <1>1, <2>2, <2>3, <2>4
<1>12. SchedOK'
  <2>1. statInFlight' \in [Peer -> Int]
    BY SMT, <1>1, <1>6 DEF SchedOK
  <2>2. OneRequest'
    BY <1>1, <1>10, <1>11 DEF SchedOK, OneRequest
  <2>3. inFlight' \in SUBSET Request
    BY <1>1, <1>7 DEF SchedOK
  <2> QED BY <1>1, <1>5, <1>10, <2>1, <2>2, <2>3 DEF SchedOK
<1>13. ASSUME NEW b
       PROVE  b \in Blocks(Range(needed)) \/ b \in Blocks(inFlight)
              <=> b \in Blocks(Range(needed')) \/ b \in Blocks(inFlight')
  <2>1. \A e \in Range(needed) : \E i \in DOMAIN needed : needed[i] = e
    BY InRange
  <2>2. \A i \in DOMAIN needed : i \in take \/ i \in rest
    OBVIOUS
  <2>3. \A i \in take : New(i) \in inFlight' /\ New(i).block = needed[i].block
    BY <1>1, <1>9
  <2>4. \A i \in rest : needed[i] \in Range(needed')
    BY <1>5
  <2>5. \A i \in DOMAIN needed : needed[i] \in Range(needed)
    BY InRange
  <2>6. \A e \in Range(needed') : e \in Range(needed)
    BY <1>5, <2>5
  <2>7. \A e \in inFlight' : e \in inFlight \/ \E i \in DOMAIN needed : e.block = needed[i].block
    BY <1>1, <1>9
  <2>8. \A e \in inFlight : e \in inFlight'
    BY <1>1
  <2>9. \A e \in Range(needed) : \/ e \in Range(needed')
                                   \/ \E f \in inFlight' : f.block = e.block
    BY <2>1, <2>2, <2>3, <2>4
  <2>10. \A e \in inFlight' : e \in inFlight \/ \E f \in Range(needed) : f.block = e.block
    BY <2>5, <2>7
  <2>11. (\E e \in Range(needed) : e.block = b) \/ (\E e \in inFlight : e.block = b)
         <=> (\E e \in Range(needed') : e.block = b) \/ (\E e \in inFlight' : e.block = b)
    BY <2>6, <2>8, <2>9, <2>10
  <2> QED BY <2>11, InBlocks
<1>14. ASSUME PlacedOK, ready' = ready
       PROVE  PlacedOK'
  <2>1. /\ OnlyOnce(needed) /\ OnlyOnce(ready) /\ Apart(Range(needed), inFlight)
        /\ Apart(Range(needed), staging) /\ Apart(Range(needed), Range(ready))
        /\ Apart(inFlight, staging) /\ Apart(inFlight, Range(ready)) /\ Apart(staging, Range(ready))
    BY <1>14 DEF PlacedOK
  <2>2. \A i \in DOMAIN needed : needed[i] \in Range(needed)
    BY InRange
  <2>3. \A e \in Range(needed') : \E i \in rest : e = needed[i] /\ e \in Range(needed)
    BY <1>5, <2>2
  <2>4. \A e \in T : \E i \in take : e.block = needed[i].block
    BY <1>9
  <2>5. OnlyOnce(needed')
    <3>1. ASSUME NEW m \in DOMAIN At(needed, rest), NEW k \in DOMAIN At(needed, rest),
                 At(needed, rest)[m].block = At(needed, rest)[k].block
          PROVE  m = k
      <4>1. rest \in SUBSET DOMAIN needed
        OBVIOUS
      <4> HIDE DEF rest
      <4>2. \A x, y \in DOMAIN At(needed, rest) : \E i, j \in rest :
               /\ At(needed, rest)[x] = needed[i] /\ At(needed, rest)[y] = needed[j]
               /\ i = j => x = y
        BY SMT, <1>3, <4>1, AtFacts
      <4>3. PICK i \in rest, j \in rest :
               /\ At(needed, rest)[m] = needed[i] /\ At(needed, rest)[k] = needed[j]
               /\ i = j => m = k
        BY <4>2
      <4>4. i \in DOMAIN needed /\ j \in DOMAIN needed
        BY <4>1
      <4> QED BY <2>1, <3>1, <4>3, <4>4 DEF OnlyOnce
    <3> QED BY <1>1, <3>1 DEF OnlyOnce
  <2>6. Apart(Range(needed'), T)
    <3>1. ASSUME NEW e \in Range(needed'), NEW f \in T, e.block = f.block
          PROVE  FALSE
      <4>1. PICK i \in rest : e = needed[i]
        BY <2>3
      <4>2. PICK j \in take : f.block = needed[j].block
        BY <2>4
      <4>3. i \in DOMAIN needed /\ j \in DOMAIN needed /\ i # j
        OBVIOUS
      <4> QED BY <2>1, <3>1, <4>1, <4>2, <4>3 DEF OnlyOnce
    <3> QED BY <3>1 DEF Apart
  <2>7. \A e \in T : \E f \in Range(needed) : e.block = f.block
    BY <2>2, <2>4
  <2>8. Apart(T, staging) /\ Apart(T, Range(ready))
    BY <2>1, <2>7 DEF Apart
  <2>9. /\ Apart(Range(needed'), inFlight) /\ Apart(Range(needed'), staging)
        /\ Apart(Range(needed'), Range(ready))
    BY <2>1, <2>3 DEF Apart
  <2> HIDE DEF T
  <2>10. Apart(Range(needed'), inFlight') /\ Apart(inFlight', staging) /\ Apart(inFlight', Range(ready))
    BY <1>1, <2>1, <2>6, <2>8, <2>9 DEF Apart
  <2> QED BY <1>1, <1>14, <2>1, <2>5, <2>9, <2>10 DEF PlacedOK
<1> QED BY <1>1, <1>12, <1>13, <1>14 DEF ExpectedHashes

(* BlockReceived moves a block from flight to staging.                     *)
LEMMA ReceivedFacts ==
    ASSUME SchedOK, NEW p \in Peer, NEW b, NEW good,
           [block |-> b, peer |-> p, good |-> good] \in Delivered, BlockReceived(b, p, good)
    PROVE  /\ SchedOK' /\ ExpectedHashes' = ExpectedHashes
           /\ PlacedOK /\ ready' = ready => PlacedOK'
<1> DEFINE new == [block |-> b, peer |-> p, good |-> good]
<1>1. /\ IsInFlight(b) /\ inFlight' = {e \in inFlight : e.block # b}
      /\ staging' = {e \in staging : e.block # b} \union {new}
      /\ statInFlight' = [statInFlight EXCEPT ![p] = @ - 1]
      /\ needed' = needed /\ nextConnect' = nextConnect
  BY DEF BlockReceived
<1>2. new.block = b /\ new \in Delivered
  BY SMT
<1> HIDE DEF new
<1>3. inFlight' \in SUBSET inFlight
  BY <1>1
<1>4. IsFiniteSet(inFlight') /\ Cardinality(inFlight') <= MaxGlobalInFlight
  <2>1. IsFiniteSet(inFlight) /\ Cardinality(inFlight) <= MaxGlobalInFlight
    BY DEF SchedOK, OneRequest
  <2>2. /\ IsFiniteSet(inFlight') /\ Cardinality(inFlight') <= Cardinality(inFlight)
    BY <1>3, <2>1, FS_Subset
  <2>3. Cardinality(inFlight') \in Nat /\ Cardinality(inFlight) \in Nat
    BY <2>1, <2>2, FS_CardinalityType
  <2> QED BY SMT, <2>1, <2>2, <2>3, SchedulerAssumption
<1>5. IsFiniteSet(staging')
  <2>1. {e \in staging : e.block # b} \in SUBSET staging /\ IsFiniteSet(staging)
    BY DEF SchedOK
  <2>2. IsFiniteSet({e \in staging : e.block # b})
    BY <2>1, FS_Subset
  <2> QED BY <1>1, <2>2, FS_AddElement
<1>6. SchedOK'
  <2>1. statInFlight' \in [Peer -> Int]
    BY SMT, <1>1 DEF SchedOK
  <2>2. \A e, f \in inFlight' : e.block = f.block => e = f
    BY <1>3 DEF SchedOK, OneRequest
  <2>3. \A e, f \in staging' : e.block = f.block => e = f
    BY <1>1, <1>2 DEF SchedOK, OneRequest
  <2>4. OneRequest'
    BY <1>4, <2>2, <2>3 DEF OneRequest
  <2>5. inFlight' \in SUBSET Request /\ staging' \in SUBSET Delivered
    BY <1>1, <1>2, <1>3 DEF SchedOK
  <2> QED BY <1>1, <1>4, <1>5, <2>1, <2>4, <2>5 DEF SchedOK
<1>7. ASSUME NEW x
      PROVE  x \in Blocks(inFlight) \/ x \in Blocks(staging)
              <=> x \in Blocks(inFlight') \/ x \in Blocks(staging')
  <2>1. \E e \in inFlight : e.block = b
    BY <1>1, InBlocks DEF IsInFlight
  <2>2. \A e \in inFlight : e \in inFlight' \/ (new \in staging' /\ new.block = e.block)
    BY <1>1, <1>2
  <2>3. \A e \in staging : e \in staging' \/ (new \in staging' /\ new.block = e.block)
    BY <1>1, <1>2
  <2>4. \A e \in staging' : e \in staging \/ \E f \in inFlight : f.block = e.block
    BY <1>1, <1>2, <2>1
  <2>5. (\E e \in inFlight : e.block = x) \/ (\E e \in staging : e.block = x)
        <=> (\E e \in inFlight' : e.block = x) \/ (\E e \in staging' : e.block = x)
    BY <1>3, <2>2, <2>3, <2>4
  <2> QED BY <2>5, InBlocks
<1>8. ASSUME PlacedOK, ready' = ready
      PROVE  PlacedOK'
  <2>1. PICK o \in inFlight : o.block = b
    BY <1>1, InBlocks DEF IsInFlight
  <2>2. \A e \in staging' : e \in staging \/ e.block = o.block
    BY <1>1, <1>2, <2>1
  <2>3. /\ Apart(Range(needed), staging) /\ Apart(Range(needed), inFlight)
        /\ Apart(inFlight, staging) /\ Apart(inFlight, Range(ready)) /\ Apart(staging, Range(ready))
    BY <1>8 DEF PlacedOK
  <2>4. Apart(Range(needed), staging') /\ Apart(staging', Range(ready))
    BY <2>1, <2>2, <2>3 DEF Apart
  <2>5. Apart(inFlight', staging')
    <3>1. \A e \in inFlight' : e \in inFlight /\ e.block # o.block
      BY <1>1, <2>1
    <3> QED BY <2>2, <2>3, <3>1 DEF Apart
  <2>6. Apart(Range(needed), inFlight') /\ Apart(inFlight', Range(ready))
    BY <1>3, <2>3 DEF Apart
  <2> QED BY <1>1, <1>8, <2>4, <2>5, <2>6 DEF PlacedOK
<1> QED BY <1>1, <1>6, <1>7, <1>8 DEF ExpectedHashes

(* Requests that are given up go back to the queue.                        *)
LEMMA GivenUpFacts ==
    ASSUME SchedOK, NEW E \in SUBSET inFlight, inFlight' = inFlight \ E, PutBack(Requeued(E)),
           statInFlight' \in [Peer -> Int], staging' = staging, nextConnect' = nextConnect
    PROVE  /\ SchedOK' /\ ExpectedHashes' = ExpectedHashes
           /\ PlacedOK /\ ready' = ready => PlacedOK'
<1> DEFINE New(e) == [block |-> e.block, height |-> e.height]
           T == Requeued(E)
<1>1. IsFiniteSet(E) /\ inFlight \in SUBSET Request /\ needed \in Seq(Entry)
  BY FS_Subset DEF SchedOK
<1>2. \A e \in Request : New(e) \in Entry /\ New(e).block = e.block
  BY SMT DEF Entry, Request
<1>3. T = {New(e) : e \in E}
  BY DEF Requeued
<1> HIDE DEF New, T
<1>4. T \in SUBSET Entry
  BY <1>1, <1>2, <1>3
<1>5. IsFiniteSet(T)
  <2> DEFINE f == [e \in E |-> New(e)]
  <2>1. f \in Surjection(E, T)
    BY <1>3 DEF Surjection
  <2> HIDE DEF f
  <2> QED BY <1>1, <2>1, FS_Surjection
<1>6. needed' \in Seq(Entry) /\ Range(needed') = Range(needed) \union T
  BY <1>1, <1>4, <1>5, PutBackFacts DEF T
<1>7. IsFiniteSet(inFlight') /\ Cardinality(inFlight') <= MaxGlobalInFlight
  <2>1. IsFiniteSet(inFlight) /\ Cardinality(inFlight) <= MaxGlobalInFlight
    BY DEF SchedOK, OneRequest
  <2>2. IsFiniteSet(inFlight') /\ Cardinality(inFlight') <= Cardinality(inFlight)
    <3>1. inFlight \ E \in SUBSET inFlight
      OBVIOUS
    <3> QED BY <2>1, <3>1, FS_Subset
  <2>3. Cardinality(inFlight') \in Nat /\ Cardinality(inFlight) \in Nat
    BY <2>1, <2>2, FS_CardinalityType
  <2> QED BY SMT, <2>1, <2>2, <2>3, SchedulerAssumption
<1>8. SchedOK'
  <2>1. OneRequest'
    BY <1>7 DEF SchedOK, OneRequest
  <2> QED BY <1>1, <1>6, <1>7, <2>1 DEF SchedOK
<1>9. ASSUME NEW b
      PROVE  b \in Blocks(Range(needed)) \/ b \in Blocks(inFlight)
             <=> b \in Blocks(Range(needed')) \/ b \in Blocks(inFlight')
  <2>1. \A e \in inFlight : e \in inFlight' \/ (New(e) \in Range(needed') /\ New(e).block = e.block)
    BY <1>1, <1>2, <1>3, <1>6
  <2>2. \A e \in Range(needed') : e \in Range(needed) \/ \E f \in inFlight : f.block = e.block
    BY <1>1, <1>2, <1>3, <1>6
  <2>3. \A e \in Range(needed) : e \in Range(needed')
    BY <1>6
  <2>4. (\E e \in Range(needed) : e.block = b) \/ (\E e \in inFlight : e.block = b)
        <=> (\E e \in Range(needed') : e.block = b) \/ (\E e \in inFlight' : e.block = b)
    BY <2>1, <2>2, <2>3
  <2> QED BY <2>4, InBlocks
<1>10. ASSUME PlacedOK, ready' = ready
       PROVE  PlacedOK'
  <2>1. /\ OnlyOnce(needed) /\ Apart(Range(needed), inFlight)
        /\ Apart(Range(needed), staging) /\ Apart(Range(needed), Range(ready))
        /\ Apart(inFlight, staging) /\ Apart(inFlight, Range(ready))
    BY <1>10 DEF PlacedOK
  <2>2. \A x \in T : \E e \in E : x = New(e) /\ x.block = e.block
    BY <1>1, <1>2, <1>3
  <2>3. /\ Apart(Range(needed), T) /\ Apart(T, staging) /\ Apart(T, Range(ready))
    BY <2>1, <2>2 DEF Apart
  <2>4. \A e, f \in inFlight : e.block = f.block => e = f
    BY DEF SchedOK, OneRequest
  <2>5. ASSUME NEW x \in T, NEW y \in T, x.block = y.block
        PROVE  x = y
    <3>1. PICK e \in E : x = New(e) /\ x.block = e.block
      BY <2>2
    <3>2. PICK f \in E : y = New(f) /\ y.block = f.block
      BY <2>2
    <3> QED BY <2>4, <2>5, <3>1, <3>2
  <2>6. OnlyOnce(needed')
    BY <1>1, <1>4, <1>5, <2>1, <2>3, <2>5, PutBackFacts DEF T
  <2>7. Apart(T, inFlight')
    <3>1. ASSUME NEW x \in T, NEW f \in inFlight', x.block = f.block
          PROVE  FALSE
      <4>1. PICK e \in E : x.block = e.block
        BY <2>2
      <4> QED BY <2>4, <3>1, <4>1
    <3> QED BY <3>1 DEF Apart
  <2>8. /\ Apart(Range(needed'), inFlight') /\ Apart(Range(needed'), staging)
        /\ Apart(Range(needed'), Range(ready))
    BY <1>6, <2>1, <2>3, <2>7 DEF Apart
  <2>9. Apart(inFlight', staging) /\ Apart(inFlight', Range(ready))
    BY <2>1 DEF Apart
  <2> QED BY <1>10, <2>6, <2>8, <2>9 DEF PlacedOK
<1> QED BY <1>8, <1>9, <1>10 DEF ExpectedHashes

(* How many requests of a peer there are among some.                       *)
LEMMA TimeoutFacts ==
    ASSUME SchedOK, NEW E \in SUBSET inFlight, HandleTimeout(E)
    PROVE  /\ SchedOK' /\ ExpectedHashes' = ExpectedHashes
           /\ PlacedOK /\ ready' = ready => PlacedOK'
<1>1. /\ inFlight' = inFlight \ E /\ PutBack(Requeued(E))
      /\ statInFlight' = [p \in Peer |-> statInFlight[p] - Cardinality({e \in E : e.peer = p})]
      /\ staging' = staging /\ nextConnect' = nextConnect
  BY DEF HandleTimeout
<1>2. ASSUME NEW p \in Peer
      PROVE  statInFlight[p] - Cardinality({e \in E : e.peer = p}) \in Int
  <2>1. {e \in E : e.peer = p} \in SUBSET inFlight /\ IsFiniteSet(inFlight)
    BY DEF SchedOK
  <2>2. IsFiniteSet({e \in E : e.peer = p})
    BY <2>1, FS_Subset
  <2>3. Cardinality({e \in E : e.peer = p}) \in Nat
    BY <2>2, FS_CardinalityType
  <2>4. statInFlight[p] \in Int
    BY DEF SchedOK
  <2> QED BY SMT, <2>3, <2>4
<1>3. statInFlight' \in [Peer -> Int]
  BY <1>1, <1>2
<1> QED BY <1>1, <1>3, GivenUpFacts

(* What a leaving peer was asked for is queued again.                      *)
LEMMA RemoveFacts ==
    ASSUME SchedOK, NEW p \in Peer, RemovePeer(p)
    PROVE  /\ SchedOK' /\ ExpectedHashes' = ExpectedHashes
           /\ PlacedOK /\ ready' = ready => PlacedOK'
<1> DEFINE E == RequestsOf(p)
<1>1. /\ inFlight' = inFlight \ E /\ PutBack(Requeued(E))
      /\ statInFlight' = [statInFlight EXCEPT ![p] = 0]
      /\ staging' = staging /\ nextConnect' = nextConnect
  BY DEF RemovePeer
<1>2. E \in SUBSET inFlight
  BY DEF RequestsOf
<1>3. statInFlight' \in [Peer -> Int]
  BY SMT, <1>1 DEF SchedOK
<1> QED BY <1>1, <1>2, <1>3, GivenUpFacts

(* A rejected block goes back to the queue.                                *)
LEMMA RequeueFacts ==
    ASSUME SchedOK, NEW b \in Heights, RequeueBlock(b)
    PROVE  /\ SchedOK' /\ ExpectedHashes' = ExpectedHashes \union {b}
           /\ (/\ PlacedOK /\ ready \in Seq(Delivered) /\ ready # <<>>
               /\ Head(ready).block = b /\ ready' = Tail(ready)) => PlacedOK'
<1> DEFINE new == [block |-> b, height |-> 0]
           n == Len(needed)
<1>1. /\ staging' = {e \in staging : e.block # b} /\ needed' = Append(needed, new)
      /\ inFlight' = inFlight /\ statInFlight' = statInFlight /\ nextConnect' = nextConnect
  BY DEF RequeueBlock
<1>2. new \in Entry /\ new.block = b /\ needed \in Seq(Entry)
  BY SMT DEF SchedOK, Entry
<1> HIDE DEF new
<1>3. n \in Nat /\ DOMAIN needed = 1..n
  BY <1>2, LenProperties
<1>4. /\ needed' \in Seq(Entry) /\ DOMAIN needed' = 1..(n + 1)
      /\ \A i \in 1..n : needed'[i] = needed[i]
      /\ needed'[n + 1] = new
  BY SMT, <1>1, <1>2
<1> HIDE DEF n
<1>5. /\ \A i \in 1..(n + 1) : i \in 1..n \/ i = n + 1
      /\ \A i \in 1..n : i \in 1..(n + 1)
      /\ n + 1 \in 1..(n + 1)
  BY SMT, <1>3
<1>6. /\ \A x \in Range(needed') : x \in Range(needed) \/ x = new
      /\ \A x \in Range(needed) : x \in Range(needed')
      /\ new \in Range(needed')
  <2>1. DOMAIN (needed') = 1..(n + 1)
    BY <1>4
  <2>2. /\ \A i \in 1..(n + 1) : needed'[i] \in Range(needed')
        /\ \A x \in Range(needed') : \E i \in 1..(n + 1) : needed'[i] = x
    BY <2>1, RangeOn
  <2>3. /\ \A i \in 1..n : needed[i] \in Range(needed)
        /\ \A x \in Range(needed) : \E i \in 1..n : needed[i] = x
    BY <1>3, RangeOn
  <2>4. \A i \in 1..(n + 1) : needed'[i] \in Range(needed) \/ needed'[i] = new
    BY <1>4, <1>5, <2>3
  <2>5. \A i \in 1..n : needed[i] \in Range(needed')
    <3>1. \A i \in 1..n : needed'[i] \in Range(needed')
      BY <1>5, <2>2
    <3> QED BY <1>4, <3>1
  <2>6. new \in Range(needed')
    BY <1>4, <1>5, <2>2
  <2> QED BY <2>2, <2>3, <2>4, <2>5, <2>6
<1>7. SchedOK'
  <2>1. staging' \in SUBSET staging
    BY <1>1
  <2>2. IsFiniteSet(staging')
    BY <2>1, FS_Subset DEF SchedOK
  <2>3. OneRequest'
    BY <1>1, <2>1 DEF SchedOK, OneRequest
  <2> QED BY <1>1, <1>4, <2>1, <2>2, <2>3 DEF SchedOK
<1>8. ASSUME NEW x
      PROVE  (x \in Blocks(Range(needed')) \/ x \in Blocks(staging'))
             <=> (x \in Blocks(Range(needed)) \/ x \in Blocks(staging) \/ x = b)
  <2>1. (\E e \in Range(needed') : e.block = x) \/ (\E e \in staging' : e.block = x)
        <=> (\E e \in Range(needed) : e.block = x) \/ (\E e \in staging : e.block = x) \/ x = b
    BY <1>1, <1>2, <1>6
  <2> QED BY <2>1, InBlocks
<1>9. ASSUME PlacedOK, ready \in Seq(Delivered), ready # <<>>, Head(ready).block = b,
             ready' = Tail(ready)
      PROVE  PlacedOK'
  <2>1. /\ OnlyOnce(needed) /\ OnlyOnce(ready) /\ Apart(Range(needed), inFlight)
        /\ Apart(Range(needed), staging) /\ Apart(Range(needed), Range(ready))
        /\ Apart(inFlight, staging) /\ Apart(inFlight, Range(ready)) /\ Apart(staging, Range(ready))
    BY <1>9 DEF PlacedOK
  <2>2. Head(ready) \in Range(ready) /\ \A x \in Range(ready') : x \in Range(ready)
    BY <1>9, HeadTail
  <2>3. OnlyOnce(ready') /\ \A x \in Range(ready') : x.block # b
    BY <1>9, <2>1, TailOnce
  <2>4. \A x \in Range(needed) : x.block # b
    BY <1>9, <2>1, <2>2 DEF Apart
  <2>5. \A x \in inFlight : x.block # b
    BY <1>9, <2>1, <2>2 DEF Apart
  <2>6. OnlyOnce(needed')
    <3>1. \A i \in 1..n : needed[i].block # b
      BY <1>3, <2>4, InRange
    <3>2. \A i, j \in 1..n : needed[i].block = needed[j].block => i = j
      BY <1>3, <2>1 DEF OnlyOnce
    <3>3. \A i \in 1..n : needed'[i].block = needed[i].block
      BY <1>4
    <3>4. needed'[n + 1].block = b
      BY <1>2, <1>4
    <3>5. ASSUME NEW i \in 1..(n + 1), NEW j \in 1..(n + 1), needed'[i].block = needed'[j].block
          PROVE  i = j
      <4>1. CASE i \in 1..n /\ j \in 1..n
        BY <3>2, <3>3, <3>5, <4>1
      <4>2. CASE i \in 1..n /\ j = n + 1
        BY <3>1, <3>3, <3>4, <3>5, <4>2
      <4>3. CASE i = n + 1 /\ j \in 1..n
        BY <3>1, <3>3, <3>4, <3>5, <4>3
      <4> QED BY <1>5, <4>1, <4>2, <4>3
    <3> QED BY <1>4, <3>5 DEF OnlyOnce
  <2>7. \A e \in staging' : e \in staging /\ e.block # b
    BY <1>1
  <2>8. Apart(Range(needed'), inFlight)
    BY <1>2, <1>6, <2>1, <2>5 DEF Apart
  <2>9. Apart(Range(needed'), staging')
    BY <1>2, <1>6, <2>1, <2>7 DEF Apart
  <2>10. Apart(Range(needed'), Range(ready'))
    BY <1>2, <1>6, <2>1, <2>2, <2>3 DEF Apart
  <2>11. Apart(inFlight, staging') /\ Apart(inFlight, Range(ready')) /\ Apart(staging', Range(ready'))
    BY <2>1, <2>2, <2>7 DEF Apart
  <2> QED BY <1>1, <2>3, <2>6, <2>8, <2>9, <2>10, <2>11 DEF PlacedOK
<1> QED BY <1>1, <1>7, <1>8, <1>9 DEF ExpectedHashes

(* The heights that are ready are a stretch from nextConnect on.           *)
LEMMA ReadyStretch ==
    ASSUME SchedOK, NEW h \in Nat
    PROVE  /\ Cardinality(ReadyHeights(h)) \in Nat
           /\ ReadyHeights(h) = nextConnect..(nextConnect + Cardinality(ReadyHeights(h)) - 1)
           /\ ReadyHeights(h) \subseteq Blocks(staging)
<1> DEFINE R == ReadyHeights(h)
           c == nextConnect
           B == Blocks(staging)
<1>1. c \in Nat
  BY DEF SchedOK
<1>2. \A x : x \in R <=> x \in c..h /\ c..x \subseteq B
  BY DEF ReadyHeights
<1> HIDE DEF R, c, B
<1>3. CASE R = {}
  <2>1. Cardinality(R) = 0
    BY <1>3, FS_EmptySet
  <2>2. c..(c + 0 - 1) = {} /\ 0 \in Nat
    BY SMT, <1>1
  <2> QED BY <1>3, <2>1, <2>2 DEF R, c, B
<1>4. CASE R # {}
  <2> DEFINE m == Max(R)
  <2>1. R \subseteq 0..h
    <3>1. \A x \in c..h : x \in 0..h
      BY SMT, <1>1
    <3> QED BY <1>2, <3>1
  <2>2. m \in R /\ \A x \in R : x <= m
    BY <1>4, <2>1, Largest
  <2> HIDE DEF m
  <2>3. m \in c..h /\ c..m \subseteq B
    BY <1>2, <2>2
  <2>4. \A x \in c..m : x \in c..h /\ \A y \in c..x : y \in c..m
    BY SMT, <1>1, <2>3
  <2>5. \A x \in c..m : x \in R
    BY <1>2, <2>3, <2>4
  <2>6. \A x \in R : x \in c..m
    <3>1. \A x \in c..h : x <= m => x \in c..m
      BY SMT, <1>1, <2>3
    <3> QED BY <1>2, <2>2, <3>1
  <2>7. R = c..m
    BY <2>5, <2>6
  <2>8. c \in Int /\ m \in Int /\ c <= m
    BY SMT, <1>1, <2>3
  <2>9. Cardinality(R) = IF c > m THEN 0 ELSE m - c + 1
    BY <2>7, <2>8, FS_Interval
  <2>10. Cardinality(R) \in Nat /\ c + Cardinality(R) - 1 = m
    BY SMT, <2>8, <2>9
  <2> QED BY <2>3, <2>7, <2>10 DEF R, c, B
<1> QED BY <1>3, <1>4

(* What DrainReady returns.                                                *)
Drained(h) ==
    [i \in 1..Cardinality(ReadyHeights(h)) |-> CHOOSE e \in staging : e.block = nextConnect + i - 1]

(* What is drained goes to the sync loop, what is flushed to the queue.    *)
LEMMA DrainFacts ==
    ASSUME SchedOK, NEW h \in Nat, DrainReady(h), ready' = Drained(h)
    PROVE  /\ SchedOK' /\ ready' \in Seq(Delivered)
           /\ ExpectedHashes' \union Blocks(Range(ready')) = ExpectedHashes
           /\ PlacedOK => PlacedOK'
<1> DEFINE R == ReadyHeights(h)
           n == Cardinality(R)
           c == nextConnect
           left == {e \in staging : e.block \notin R}
           flush == c + n <= h /\ Cardinality(left) > MaxStagingSize \div 2
           New(e) == [block |-> e.block, height |-> 0]
           E == IF flush THEN {New(e) : e \in left} ELSE {}
           Staged(x) == CHOOSE e \in staging : e.block = x
<1>1. /\ nextConnect' = c + n /\ staging' = (IF flush THEN {} ELSE left) /\ PutBack(E)
      /\ inFlight' = inFlight /\ statInFlight' = statInFlight
      /\ ready' = [i \in 1..n |-> Staged(c + i - 1)]
  BY DEF DrainReady, Drained
<1>2. n \in Nat /\ c \in Nat /\ R = c..(c + n - 1) /\ R \subseteq Blocks(staging)
  BY ReadyStretch DEF SchedOK
<1>3. \A x \in R : Staged(x) \in staging /\ Staged(x).block = x
  BY <1>2, InBlocks
<1>4. staging \in SUBSET Delivered /\ IsFiniteSet(staging) /\ needed \in Seq(Entry)
  BY DEF SchedOK
<1>5. \A e \in Delivered : New(e) \in Entry /\ New(e).block = e.block
  <2>1. 0 \in Nat
    BY SMT
  <2> QED BY <2>1 DEF Entry, Delivered
<1>6. left \in SUBSET staging /\ \A e \in staging : e \in left \/ e.block \in R
  OBVIOUS
<1>7. flush \in BOOLEAN
  OBVIOUS
<1> HIDE DEF R, n, c, New, Staged, flush, left
<1>8. IsFiniteSet(left)
  BY <1>4, <1>6, FS_Subset
<1>9. IsFiniteSet(E) /\ E \in SUBSET Entry
  <2> DEFINE f == [e \in left |-> New(e)]
             T == {New(e) : e \in left}
  <2>1. f \in Surjection(left, T) /\ IsFiniteSet({})
    BY FS_EmptySet DEF Surjection
  <2> HIDE DEF f
  <2>2. IsFiniteSet(T)
    BY <1>8, <2>1, FS_Surjection
  <2>3. T \in SUBSET Entry
    BY <1>4, <1>5, <1>6
  <2> QED BY <2>1, <2>2, <2>3
<1>10. needed' \in Seq(Entry) /\ Range(needed') = Range(needed) \union E
  BY <1>1, <1>4, <1>9, PutBackFacts
<1>11. SchedOK'
  <2>1. staging' \in SUBSET staging
    BY <1>1, <1>6
  <2>2. IsFiniteSet(staging')
    BY <1>4, <2>1, FS_Subset
  <2>3. OneRequest'
    BY <1>1, <2>1 DEF SchedOK, OneRequest
  <2>4. nextConnect' \in Nat
    BY SMT, <1>1, <1>2
  <2> QED BY <1>1, <1>10, <2>1, <2>2, <2>3, <2>4 DEF SchedOK
<1>12. \A i \in 1..n : c + i - 1 \in R
  BY SMT, <1>2
<1>13. \A x \in R : x - c + 1 \in 1..n /\ c + (x - c + 1) - 1 = x
  BY SMT, <1>2
<1>14. ready' \in Seq(Delivered) /\ DOMAIN ready' = 1..n /\ \A i \in 1..n : ready'[i] = Staged(c + i - 1)
  <2>1. ready' \in [1..n -> Delivered]
    BY <1>1, <1>3, <1>4, <1>12
  <2>2. ready' \in Seq(Delivered)
    BY SMT, <1>2, <2>1
  <2> QED BY <1>1, <2>1, <2>2
<1>15. /\ \A e \in Range(ready') : e \in staging /\ e.block \in R
       /\ \A x \in R : \E e \in Range(ready') : e.block = x
  <2>1. DOMAIN (ready') = 1..n
    BY <1>14
  <2>2. /\ \A i \in 1..n : ready'[i] \in Range(ready')
        /\ \A x \in Range(ready') : \E i \in 1..n : ready'[i] = x
    BY <2>1 DEF Range
  <2>3. \A e \in Range(ready') : e \in staging /\ e.block \in R
    <3>1. \A i \in 1..n : ready'[i] \in staging /\ ready'[i].block \in R
      BY <1>3, <1>12, <1>14
    <3> QED BY <2>2, <3>1
  <2>4. ASSUME NEW x \in R
        PROVE  \E e \in Range(ready') : e.block = x
    <3>1. ready'[x - c + 1] = Staged(x) /\ ready'[x - c + 1] \in Range(ready')
      BY <1>13, <1>14, <2>2
    <3> QED BY <1>3, <3>1
  <2> QED BY <2>3, <2>4
<1>16. ASSUME NEW b
       PROVE  (\/ b \in Blocks(Range(needed')) \/ b \in Blocks(staging') \/ b \in Blocks(Range(ready')))
              <=> (b \in Blocks(Range(needed)) \/ b \in Blocks(staging))
  <2>1. ASSUME NEW e \in staging
        PROVE  \/ e \in staging'
               \/ \E f \in Range(needed') : f.block = e.block
               \/ \E f \in Range(ready') : f.block = e.block
    <3>1. CASE e.block \in R
      BY <1>15, <3>1
    <3>2. CASE e \in left /\ flush
      <4>1. New(e) \in Range(needed') /\ New(e).block = e.block
        BY <1>4, <1>5, <1>10, <3>2
      <4> QED BY <4>1
    <3>3. CASE e \in left /\ ~flush
      BY <1>1, <3>3
    <3> QED BY <1>6, <3>1, <3>2, <3>3
  <2>2. \A e \in Range(needed) : e \in Range(needed')
    BY <1>10
  <2>3. \A e \in Range(needed') : e \in Range(needed) \/ \E f \in staging : f.block = e.block
    <3>1. \A e \in E : \E f \in left : e = New(f)
      OBVIOUS
    <3> QED BY <1>4, <1>5, <1>6, <1>10, <3>1
  <2>4. \A e \in staging' : e \in staging
    BY <1>1, <1>6
  <2>5. \A e \in Range(ready') : e \in staging
    BY <1>15
  <2>6. (\/ \E e \in Range(needed') : e.block = b
         \/ \E e \in staging' : e.block = b
         \/ \E e \in Range(ready') : e.block = b)
        <=> ((\E e \in Range(needed) : e.block = b) \/ (\E e \in staging : e.block = b))
    BY <2>1, <2>2, <2>3, <2>4, <2>5
  <2> QED BY <2>6, InBlocks
<1>17. ASSUME PlacedOK
       PROVE  PlacedOK'
  <2>1. /\ OnlyOnce(needed) /\ Apart(Range(needed), inFlight) /\ Apart(Range(needed), staging)
        /\ Apart(inFlight, staging)
    BY <1>17 DEF PlacedOK
  <2>2. \A e, f \in staging : e.block = f.block => e = f
    BY DEF SchedOK, OneRequest
  <2>3. \A x \in E : \E e \in left : x = New(e) /\ x.block = e.block
    BY <1>4, <1>5, <1>6
  <2>4. \A e \in left : e \in staging /\ e.block \notin R
    BY DEF left
  <2>5. ASSUME NEW x \in E, NEW y \in E, x.block = y.block
        PROVE  x = y
    <3>1. PICK e \in left : x = New(e) /\ x.block = e.block
      BY <2>3
    <3>2. PICK f \in left : y = New(f) /\ y.block = f.block
      BY <2>3
    <3> QED BY <2>2, <2>4, <2>5, <3>1, <3>2
  <2>6. /\ Apart(Range(needed), E) /\ Apart(E, inFlight) /\ Apart(E, Range(ready'))
    <3>1. Apart(Range(needed), E)
      BY <2>1, <2>3, <2>4 DEF Apart
    <3>2. Apart(E, inFlight)
      BY <2>1, <2>3, <2>4 DEF Apart
    <3>3. \A x \in E : x.block \notin R
      BY <2>3, <2>4
    <3>4. \A y \in Range(ready') : y.block \in R
      BY <1>15
    <3>5. Apart(E, Range(ready'))
      BY <3>3, <3>4 DEF Apart
    <3> QED BY <3>1, <3>2, <3>5
  <2>7. OnlyOnce(needed')
    <3> HIDE DEF E
    <3> QED BY <1>1, <1>4, <1>9, <2>1, <2>5, <2>6, PutBackFacts
  <2>8. OnlyOnce(ready')
    <3>1. \A i \in 1..n : ready'[i].block = c + i - 1
      BY <1>3, <1>12, <1>14
    <3>2. \A i, j \in 1..n : c + i - 1 = c + j - 1 => i = j
      BY SMT, <1>2
    <3>3. ASSUME NEW i \in 1..n, NEW j \in 1..n, ready'[i].block = ready'[j].block
          PROVE  i = j
      <4>1. c + i - 1 = c + j - 1
        BY <3>1, <3>3
      <4> QED BY <3>2, <4>1
    <3> QED BY <1>14, <3>3 DEF OnlyOnce
  <2>9. Apart(Range(needed'), staging')
    <3>1. CASE flush
      BY <1>1, <3>1 DEF Apart
    <3>2. CASE ~flush
      <4>1. Range(needed') = Range(needed) /\ \A e \in staging' : e \in staging
        BY <1>1, <1>6, <1>10, <3>2
      <4> QED BY <2>1, <4>1 DEF Apart
    <3> QED BY <3>1, <3>2
  <2> HIDE DEF E
  <2>10. Apart(Range(needed'), inFlight)
    BY <1>10, <2>1, <2>6 DEF Apart
  <2>11. Apart(Range(needed'), Range(ready'))
    BY <1>10, <1>15, <2>1, <2>6 DEF Apart
  <2>12. \A e \in staging' : e \in staging /\ e.block \notin R
    BY <1>1, <2>4
  <2>13. Apart(inFlight, staging') /\ Apart(inFlight, Range(ready')) /\ Apart(staging', Range(ready'))
    BY <1>15, <2>1, <2>12 DEF Apart
  <2> QED BY <1>1, <2>7, <2>8, <2>9, <2>10, <2>11, <2>13 DEF PlacedOK
<1> QED BY <1>1, <1>11, <1>14, <1>16, <1>17 DEF ExpectedHashes

-----------------------------------------------------------------------------
(* The chain and the network.                                              *)

ChainOK == conn \in Heights /\ headers \in Heights

(* The best block and the best header, now and after a step.               *)
LEMMA TipFacts ==
    ASSUME ChainOK
    PROVE  /\ TipHeight = IF conn >= StartTip THEN conn ELSE StartTip
           /\ BestHeaderHeight = IF headers >= StartTip THEN headers ELSE StartTip
           /\ TipHeight \in Nat /\ BestHeaderHeight \in Nat
           /\ BestHeaderHeight <= MaxHeight \/ BestHeaderHeight <= TipHeight
<1>1. /\ MaxHeight \in Nat /\ StartTip \in Nat /\ conn \in 0..MaxHeight /\ headers \in 0..MaxHeight
  BY SchedulerAssumption, SyncAssumption DEF ChainOK, Heights
<1>2. conn \in Int /\ headers \in Int /\ StartTip \in Int
  BY SMT, <1>1
<1>3. /\ TipHeight = IF conn >= StartTip THEN conn ELSE StartTip
      /\ BestHeaderHeight = IF headers >= StartTip THEN headers ELSE StartTip
  BY <1>2, MaxOfTwo DEF TipHeight, BestHeaderHeight
<1> QED BY SMT, <1>1, <1>3

(* The tip and the best header only rise.                                  *)
LEMMA TipNext ==
    ASSUME ChainOK, ChainOK', conn <= conn', headers <= headers'
    PROVE  /\ TipHeight' \in Nat /\ TipHeight <= TipHeight' /\ conn' <= TipHeight'
           /\ BestHeaderHeight' \in Nat /\ BestHeaderHeight <= BestHeaderHeight'
<1>1. /\ MaxHeight \in Nat /\ StartTip \in Nat /\ conn \in 0..MaxHeight /\ headers \in 0..MaxHeight
      /\ conn' \in 0..MaxHeight /\ headers' \in 0..MaxHeight
  BY SchedulerAssumption, SyncAssumption DEF ChainOK, Heights
<1>2. conn' \in Int /\ headers' \in Int /\ StartTip \in Int
  BY SMT, <1>1
<1>3. /\ TipHeight' = IF conn' >= StartTip THEN conn' ELSE StartTip
      /\ BestHeaderHeight' = IF headers' >= StartTip THEN headers' ELSE StartTip
  BY <1>2, MaxOfTwo DEF TipHeight, BestHeaderHeight
<1> QED BY SMT, <1>1, <1>3, TipFacts

(* What ProcessBlock returns, and what that says of the chain.             *)
LEMMA ProcessFacts ==
    ASSUME ChainOK, NEW b \in Heights, NEW good \in BOOLEAN, ProcessBlock(b, good)
    PROVE  /\ conn' \in Heights /\ conn <= conn'
           /\ Outcome(b, good) \in {"ok", "side chain", "already in chain", "orphan", "invalid"}
           /\ Outcome(b, good) \in {"ok", "side chain", "already in chain"} => b <= conn'
           /\ Outcome(b, good) \in {"orphan", "invalid"} => conn' = conn
           /\ Outcome(b, good) = "orphan" => b - 1 \in Nat
           /\ Outcome(b, good) = "invalid" => ~good
<1> DEFINE r == Outcome(b, good)
           S == {m \in b..MaxHeight : \A c \in (b + 1)..m : [block |-> c, good |-> TRUE] \in pool}
<1>1. MaxHeight \in Nat /\ conn \in 0..MaxHeight /\ b \in 0..MaxHeight
  BY SchedulerAssumption DEF ChainOK, Heights
<1>2. conn' = IF r \in {"ok", "side chain"} THEN Connected(b) ELSE conn
  BY DEF ProcessBlock
<1>3. Connected(b) \in b..MaxHeight
  <2>1. b \in b..MaxHeight /\ (b + 1)..b = {} /\ \A x \in b..MaxHeight : x \in 0..MaxHeight
    BY SMT, <1>1
  <2>2. b \in S /\ S \subseteq 0..MaxHeight
    BY <2>1
  <2>3. Max(S) \in S
    <3> HIDE DEF S
    <3> QED BY <1>1, <2>2, Largest
  <2> QED BY <2>3 DEF Connected
<1>4. r = IF b <= conn THEN "already in chain"
          ELSE IF b > conn + 1 THEN "orphan"
          ELSE IF ~good THEN "invalid"
          ELSE IF b <= TipHeight THEN "side chain" ELSE "ok"
  BY DEF Outcome
<1> HIDE DEF r
<1>5. /\ r \in {"ok", "side chain", "already in chain", "orphan", "invalid"}
      /\ r = "invalid" => ~good
      /\ r = "already in chain" => b <= conn
      /\ r = "orphan" => b > conn + 1
      /\ r \in {"ok", "side chain"} => ~(b <= conn)
  <2>1. CASE b <= conn
    BY <1>4, <2>1
  <2>2. CASE ~(b <= conn) /\ b > conn + 1
    BY <1>4, <2>2
  <2>3. CASE ~(b <= conn) /\ ~(b > conn + 1) /\ ~good
    BY <1>4, <2>3
  <2>4. CASE ~(b <= conn) /\ ~(b > conn + 1) /\ good
    BY <1>4, <2>4
  <2> QED BY <2>1, <2>2, <2>3, <2>4
<1>6. r \in {"ok", "side chain"} => conn' \in 0..MaxHeight /\ conn <= conn' /\ b <= conn'
  <2>1. \A x \in b..MaxHeight : ~(b <= conn) => x \in 0..MaxHeight /\ conn <= x /\ b <= x
    BY SMT, <1>1
  <2> QED BY <1>2, <1>3, <1>5, <2>1
<1>7. r \in {"already in chain", "orphan", "invalid"} => conn' = conn
  BY <1>2
<1>8. r = "orphan" => b - 1 \in Nat
  BY SMT, <1>1, <1>5
<1>9. conn <= conn
  BY SMT, <1>1
<1> QED BY <1>1, <1>5, <1>6, <1>7, <1>8, <1>9 DEF r, Heights

(* NotifyBlockAccepted.                                                    *)
LEMMA NotifyFacts ==
    ASSUME ChainOK, NEW b \in Heights, NotifyBlockAccepted(b)
    PROVE  headers' \in Heights /\ headers <= headers'
  BY SMT, SchedulerAssumption DEF ChainOK, Heights, NotifyBlockAccepted

NetOK == blocksDue \in [Peer -> Seq(Heights)] /\ headersDue \in [Peer -> Int]

(* A peer answers with blocks that it has.                                 *)
LEMMA GetdataFacts ==
    ASSUME NetOK, NEW p \in Peer, NEW bs \in Seq(Nat), Getdata(p, bs)
    PROVE  blocksDue' \in [Peer -> Seq(Heights)]
<1> DEFINE sent == {i \in DOMAIN bs : p \in peers /\ bs[i] <= Has[p]
                                       /\ bs[i] \notin Range(blocksDue[p])}
           s == At(bs, sent)
<1>1. blocksDue' = [blocksDue EXCEPT ![p] = @ \o s]
  BY DEF Getdata
<1>2. s \in Seq(Nat) /\ Range(s) = {bs[i] : i \in sent}
  <2>1. sent \in SUBSET DOMAIN bs
    OBVIOUS
  <2> HIDE DEF sent
  <2> QED BY SMT, <2>1, AtFacts
<1>3. MaxHeight \in Nat /\ Has[p] \in 0..MaxHeight
  BY SchedulerAssumption, SyncAssumption
<1>4. \A i \in sent : bs[i] \in Heights
  <2>1. \A i \in DOMAIN bs : bs[i] \in Nat
    BY SMT
  <2>2. \A x \in Nat : x <= Has[p] => x \in Heights
    BY SMT, <1>3 DEF Heights
  <2> QED BY <2>1, <2>2
<1> HIDE DEF s
<1>5. \A x \in Range(s) : x \in Heights
  BY <1>2, <1>4
<1>6. s \in Seq(Heights)
  <2> DEFINE n == Len(s)
  <2>1. n \in Nat /\ DOMAIN s = 1..n /\ s \in [1..n -> Nat]
    BY <1>2, LenProperties
  <2>2. \A i \in 1..n : s[i] \in Heights
    BY <1>5, <2>1, InRange
  <2> HIDE DEF n
  <2>3. s \in [1..n -> Heights]
    BY <2>1, <2>2
  <2> QED BY SMT, <2>1, <2>3
<1>7. blocksDue[p] \in Seq(Heights)
  BY DEF NetOK
<1>8. blocksDue[p] \o s \in Seq(Heights)
  BY SMT, <1>6, <1>7
<1> QED BY <1>1, <1>8 DEF NetOK

(* A stretch of blocks, in order.                                          *)
LEMMA AscendingFacts ==
    ASSUME NEW a \in Nat, NEW z \in Int
    PROVE  Ascending(a, z) \in Seq(Nat)
<1> DEFINE n == IF z >= a THEN z - a + 1 ELSE 0
<1>1. n \in Nat /\ 1..(z - a + 1) = 1..n /\ \A i \in 1..n : a + i - 1 \in Nat
  BY SMT
<1> HIDE DEF n
<1>2. Ascending(a, z) \in [1..n -> Nat]
  BY <1>1 DEF Ascending
<1> QED BY SMT, <1>1, <1>2

-----------------------------------------------------------------------------
(* The rest of the inductive invariant.                                    *)

(* Blocks are drained, handled and queued with who delivered them.         *)
ReadyOK == ready \in Seq(Delivered) /\ (tpc # "process" => ready = <<>>)
Handled ==
    [route : {"idle", "fast", "sched", "assign", "direct"}, block : Heights, good : BOOLEAN]
HandOK ==
    /\ handler \in [Peer -> Handled]
    /\ \A p \in Peer : handler[p].good \/ p \in Faulty
QueueOK == ibdQueue \in Seq(Delivered)

(* Only peers connect and are served, and only the guilty are sent away.   *)
PeerOK ==
    /\ peers \in SUBSET Peer /\ expected \in SUBSET Peer /\ todo \in SUBSET Peer
    /\ leaving \in SUBSET (Faulty \union MayLeave)

(* Nothing is tracked beyond the headers, and no block below one that is.  *)
TrackOK == NoHoles /\ \A b \in Tracked : b <= BestHeaderHeight

SyncInv ==
    /\ SchedOK /\ ReadyOK /\ HandOK /\ QueueOK /\ ChainOK /\ NetOK /\ PeerOK /\ TrackOK
    /\ fastSyncNext \in Nat

(* A step that leaves the variables of a part alone keeps the part.        *)
LEMMA SameSched ==
    ASSUME UNCHANGED schedVars
    PROVE  (SchedOK => SchedOK') /\ ExpectedHashes' = ExpectedHashes
  BY DEF schedVars, SchedOK, OneRequest, ExpectedHashes

(* The other parts likewise.                                               *)
LEMMA SameRest ==
    /\ UNCHANGED <<ready, tpc>> => (ReadyOK => ReadyOK')
    /\ UNCHANGED handler => (HandOK => HandOK')
    /\ UNCHANGED ibdQueue => (QueueOK => QueueOK')
    /\ UNCHANGED <<conn, headers>> => (ChainOK => ChainOK' /\ conn <= conn' /\ headers <= headers')
    /\ UNCHANGED <<blocksDue, headersDue>> => (NetOK => NetOK')
    /\ UNCHANGED <<peers, expected, todo, leaving>> => (PeerOK => PeerOK')
<1>1. UNCHANGED <<ready, tpc>> => (ReadyOK => ReadyOK')
  BY DEF ReadyOK
<1>2. UNCHANGED handler => (HandOK => HandOK')
  BY DEF HandOK
<1>3. UNCHANGED ibdQueue => (QueueOK => QueueOK')
  BY DEF QueueOK
<1>4. UNCHANGED <<conn, headers>> => (ChainOK => ChainOK' /\ conn <= conn' /\ headers <= headers')
  <2>1. \A x \in Heights : x <= x
    BY SMT, SchedulerAssumption DEF Heights
  <2> QED BY <2>1 DEF ChainOK
<1>5. UNCHANGED <<blocksDue, headersDue>> => (NetOK => NetOK')
  BY DEF NetOK
<1>6. UNCHANGED <<peers, expected, todo, leaving>> => (PeerOK => PeerOK')
  BY DEF PeerOK
<1> QED BY <1>1, <1>2, <1>3, <1>4, <1>5, <1>6

(* The blocks that are tracked are heights.                                *)
LEMMA TrackedNat ==
    ASSUME SchedOK, ReadyOK
    PROVE  \A b \in Tracked : b \in Nat
<1>1. \A e \in Range(needed) : e.block \in Heights
  <2>1. \A i \in DOMAIN needed : needed[i] \in Entry
    BY SMT DEF SchedOK
  <2>2. \A e \in Range(needed) : e \in Entry
    BY <2>1, InRange
  <2> QED BY <2>2 DEF Entry
<1>2. \A e \in Range(ready) : e.block \in Heights
  <2>1. \A i \in DOMAIN ready : ready[i] \in Delivered
    BY SMT DEF ReadyOK
  <2>2. \A e \in Range(ready) : e \in Delivered
    BY <2>1, InRange
  <2> QED BY <2>2 DEF Delivered
<1>3. \A e \in inFlight : e.block \in Heights
  BY DEF SchedOK, Request
<1>4. \A e \in staging : e.block \in Heights
  BY DEF SchedOK, Delivered
<1>5. \A b \in Heights : b \in Nat
  BY SMT, SchedulerAssumption DEF Heights
<1>6. ASSUME NEW b \in Tracked
      PROVE  b \in Heights
  <2>1. \/ b \in Blocks(Range(needed)) \/ b \in Blocks(inFlight) \/ b \in Blocks(staging)
        \/ b \in Blocks(Range(ready))
    BY DEF Tracked, ExpectedHashes
  <2>2. b \in Blocks(Range(needed)) => b \in Heights
    BY <1>1, InBlocks
  <2>3. b \in Blocks(inFlight) => b \in Heights
    BY <1>3, InBlocks
  <2>4. b \in Blocks(staging) => b \in Heights
    BY <1>4, InBlocks
  <2>5. b \in Blocks(Range(ready)) => b \in Heights
    BY <1>2, InBlocks
  <2> QED BY <2>1, <2>2, <2>3, <2>4, <2>5
<1> QED BY <1>5, <1>6

(* No hole appears when blocks are let go only once the tip is above them. *)
LEMMA HolesKept ==
    ASSUME ChainOK, ChainOK', conn <= conn', headers <= headers', SchedOK, ReadyOK, TrackOK,
           \A b \in Tracked' : b \in Tracked,
           \A b \in Tracked : b \in Tracked' \/ b <= conn'
    PROVE  TrackOK'
<1>1. /\ TipHeight \in Nat /\ TipHeight' \in Nat /\ TipHeight <= TipHeight' /\ conn' <= TipHeight'
      /\ BestHeaderHeight \in Nat /\ BestHeaderHeight' \in Nat
      /\ BestHeaderHeight <= BestHeaderHeight' /\ conn' \in Nat
  <2>1. conn' \in Nat
    BY SMT, SchedulerAssumption DEF ChainOK, Heights
  <2> QED BY <2>1, TipFacts, TipNext
<1>2. \A b \in Tracked : b \in Nat
  BY TrackedNat
<1>3. ASSUME NEW b \in Tracked', NEW x \in (TipHeight' + 1)..b
      PROVE  x \in Tracked'
  <2>1. b \in Tracked /\ b \in Nat
    BY <1>2
  <2>2. x \in (TipHeight + 1)..b /\ ~(x <= conn')
    <3>1. \A t, u, c, n \in Nat : \A y \in (u + 1)..n :
             t <= u /\ c <= u => y \in (t + 1)..n /\ ~(y <= c)
      BY SMT
    <3> QED BY <1>1, <2>1, <3>1
  <2>3. x \in Tracked
    BY <2>1, <2>2 DEF TrackOK, NoHoles
  <2> QED BY <2>2, <2>3
<1>4. ASSUME NEW b \in Tracked'
      PROVE  b <= BestHeaderHeight'
  <2>1. b \in Nat /\ b <= BestHeaderHeight
    BY <1>2 DEF TrackOK
  <2> QED BY SMT, <1>1, <2>1
<1> QED BY <1>3, <1>4 DEF TrackOK, NoHoles

(* The common case: what is tracked stays the same.                        *)
LEMMA SameTracked ==
    ASSUME ChainOK, ChainOK', conn <= conn', headers <= headers', SchedOK, ReadyOK, TrackOK,
           Tracked' = Tracked
    PROVE  TrackOK'
  BY HolesKept

(* A step in BLOCK_SYNC lets go only of what the tip has reached, or fills *)
(* the scheduler anew.                                                     *)
Kept ==
    /\ conn <= conn' /\ headers <= headers'
    /\ \/ \A b \in Tracked : b \in Tracked' \/ b <= conn'
       \/ conn' = conn /\ \A b \in (TipHeight + 1)..BestHeaderHeight : b \in Tracked'
       \/ syncState' # "BLOCK_SYNC"

(* The parts together, when what is tracked stays the same.                *)
LEMMA PartsKept ==
    ASSUME SyncInv, SchedOK', ReadyOK', HandOK', QueueOK', ChainOK', NetOK', PeerOK',
           conn <= conn', headers <= headers', Tracked' = Tracked, fastSyncNext' \in Nat
    PROVE  SyncInv' /\ Kept
  BY SameTracked DEF SyncInv, Kept

(* A step that touches neither the scheduler nor the chain nor the loops.  *)
LEMMA IdleStep ==
    ASSUME SyncInv, UNCHANGED <<schedVars, tpc, ready, todo, handler, ibdQueue>>,
           UNCHANGED <<peers, leaving, expected, conn, headers>>, NetOK', fastSyncNext' \in Nat
    PROVE  SyncInv' /\ Kept
<1>1. UNCHANGED schedVars /\ UNCHANGED ready
  OBVIOUS
<1>2. SchedOK' /\ Tracked' = Tracked
  BY <1>1, SameSched DEF SyncInv, Tracked
<1>3. ReadyOK' /\ HandOK' /\ QueueOK' /\ ChainOK' /\ PeerOK' /\ conn <= conn' /\ headers <= headers'
  BY SameRest DEF SyncInv
<1> QED BY <1>2, <1>3, PartsKept

(* A request for headers.                                                  *)
LEMMA HeadersFacts ==
    ASSUME ChainOK, NetOK, NEW p, RequestHeaders(p)
    PROVE  headersDue' \in [Peer -> Int]
<1>1. LocatorHeight \in Int
  <2>1. headers \in Int /\ ForkHeight \in Int
    BY SMT, SchedulerAssumption, SyncAssumption DEF ChainOK, Heights
  <2> QED BY <2>1 DEF LocatorHeight
<1>2. headersDue' = [headersDue EXCEPT ![p] = LocatorHeight]
  BY DEF RequestHeaders
<1> QED BY <1>1, <1>2 DEF NetOK

-----------------------------------------------------------------------------
(* The initial state, and the steps of the sync loop one by one.           *)

(* A node that starts has an empty scheduler, and nothing under way.       *)
LEMMA InitSync == Init => SyncInv
<1> SUFFICES ASSUME Init PROVE SyncInv
  OBVIOUS
<1>1. /\ needed = <<>> /\ inFlight = {} /\ staging = {} /\ statInFlight = [p \in Peer |-> 0]
      /\ nextConnect = 0 /\ fastSyncNext = 0 /\ tpc = "idle" /\ ready = <<>> /\ todo = {}
      /\ handler = [p \in Peer |-> Idle] /\ ibdQueue = <<>> /\ peers = Peer \ Late /\ leaving = {}
      /\ expected = Late /\ conn = ForkHeight /\ headers = ForkHeight
      /\ blocksDue = [p \in Peer |-> <<>>] /\ headersDue = [p \in Peer |-> -1]
  BY DEF Init, NoScheduler
<1>2. 0 \in Nat /\ 0 \in Int /\ -1 \in Int /\ 0 \in Heights /\ 0 <= MaxGlobalInFlight
  BY SMT, SchedulerAssumption DEF Heights
<1>3. IsFiniteSet({}) /\ Cardinality({}) = 0
  BY FS_EmptySet
<1>4. SchedOK
  <2>1. needed \in Seq(Entry)
    BY SMT, <1>1
  <2>2. OneRequest
    BY <1>1, <1>2, <1>3 DEF OneRequest
  <2> QED BY <1>1, <1>2, <1>3, <2>1, <2>2 DEF SchedOK
<1>5. ReadyOK /\ QueueOK
  BY SMT, <1>1 DEF ReadyOK, QueueOK
<1>6. HandOK
  <2>1. Idle \in Handled
    BY <1>2 DEF Idle, Handled
  <2>2. Idle.good
    BY DEF Idle
  <2> QED BY <1>1, <2>1, <2>2 DEF HandOK
<1>7. ChainOK
  BY <1>1, SyncAssumption DEF ChainOK, Heights
<1>8. NetOK
  <2>1. <<>> \in Seq(Heights)
    BY SMT
  <2> QED BY <1>1, <1>2, <2>1 DEF NetOK
<1>9. PeerOK
  BY <1>1, SyncAssumption DEF PeerOK
<1>10. TrackOK
  <2>1. Range(<<>>) = {}
    BY SMT DEF Range
  <2>2. Blocks({}) = {}
    BY DEF Blocks
  <2>3. Tracked = {}
    BY <1>1, <2>1, <2>2 DEF Tracked, ExpectedHashes
  <2> QED BY <2>3 DEF TrackOK, NoHoles
<1> QED BY <1>1, <1>2, <1>4, <1>5, <1>6, <1>7, <1>8, <1>9, <1>10 DEF SyncInv

(* The ticks that only change the sync state or ask for headers.           *)
LEMMA InitialStep ==
    ASSUME SyncInv, InitialTick
    PROVE  SyncInv' /\ Kept
<1>1. /\ UNCHANGED <<schedVars, tpc, ready, todo, handler, ibdQueue>>
      /\ UNCHANGED <<peers, leaving, expected, conn, headers>> /\ fastSyncNext' = fastSyncNext
      /\ blocksDue' = blocksDue
  BY DEF InitialTick, tickVars, peerVars, chainVars, fastVars, netVars
<1>2. headersDue' = headersDue \/ \E p : RequestHeaders(p)
  BY DEF InitialTick, StartHeaderSync, netVars
<1>3. headersDue' \in [Peer -> Int]
  BY <1>2, HeadersFacts DEF SyncInv, NetOK
<1> QED BY <1>1, <1>3, IdleStep DEF SyncInv, NetOK

(* A header sync peer is chosen.                                           *)
LEMMA HeaderPeerStep ==
    ASSUME SyncInv, HeaderPeerTick
    PROVE  SyncInv' /\ Kept
<1>1. /\ UNCHANGED <<schedVars, tpc, ready, todo, handler, ibdQueue>>
      /\ UNCHANGED <<peers, leaving, expected, conn, headers>> /\ fastSyncNext' = fastSyncNext
      /\ blocksDue' = blocksDue
  BY DEF HeaderPeerTick, tickVars, peerVars, chainVars, fastVars
<1>2. PICK p : RequestHeaders(p)
  BY DEF HeaderPeerTick, StartHeaderSync
<1>3. headersDue' \in [Peer -> Int]
  BY <1>2, HeadersFacts DEF SyncInv
<1> QED BY <1>1, <1>3, IdleStep DEF SyncInv, NetOK

(* New headers are noted.                                                  *)
LEMMA HeaderProgressStep ==
    ASSUME SyncInv, HeaderProgressTick
    PROVE  SyncInv' /\ Kept
<1>1. /\ UNCHANGED <<schedVars, tpc, ready, todo, handler, ibdQueue>>
      /\ UNCHANGED <<peers, leaving, expected, conn, headers>> /\ fastSyncNext' = fastSyncNext
      /\ blocksDue' = blocksDue /\ headersDue' = headersDue
  BY DEF HeaderProgressTick, tickVars, peerVars, chainVars, fastVars, netVars
<1> QED BY <1>1, IdleStep DEF SyncInv, NetOK

(* A stalled header sync asks again, or drops its peer.                    *)
LEMMA HeaderStallStep ==
    ASSUME SyncInv, HeaderStallTick
    PROVE  SyncInv' /\ Kept
<1>1. /\ UNCHANGED <<schedVars, tpc, ready, todo, handler, ibdQueue>>
      /\ UNCHANGED <<peers, leaving, expected, conn, headers>> /\ fastSyncNext' = fastSyncNext
      /\ blocksDue' = blocksDue
  BY DEF HeaderStallTick, tickVars, peerVars, chainVars, fastVars
<1>2. headersDue' = headersDue \/ \E p : RequestHeaders(p)
  BY DEF HeaderStallTick
<1>3. headersDue' \in [Peer -> Int]
  BY <1>2, HeadersFacts DEF SyncInv, NetOK
<1> QED BY <1>1, <1>3, IdleStep DEF SyncInv, NetOK

(* Fast sync ends at the best header.                                      *)
LEMMA FastDoneStep ==
    ASSUME SyncInv, FastDoneTick
    PROVE  SyncInv' /\ Kept
<1>1. /\ UNCHANGED <<schedVars, tpc, ready, todo, handler, ibdQueue>>
      /\ UNCHANGED <<peers, leaving, expected, conn, headers>> /\ fastSyncNext' = fastSyncNext
      /\ blocksDue' = blocksDue /\ headersDue' = headersDue
  BY DEF FastDoneTick, tickVars, peerVars, chainVars, netVars
<1> QED BY <1>1, IdleStep DEF SyncInv, NetOK

(* The legacy path only asks for inventory.                                *)
LEMMA LegacyStep ==
    ASSUME SyncInv, LegacyTick
    PROVE  SyncInv' /\ Kept
<1>1. /\ UNCHANGED <<schedVars, tpc, ready, todo, handler, ibdQueue>>
      /\ UNCHANGED <<peers, leaving, expected, conn, headers>> /\ fastSyncNext' = fastSyncNext
      /\ blocksDue' = blocksDue /\ headersDue' = headersDue
  BY DEF LegacyTick, tickVars, peerVars, chainVars, fastVars
<1> QED BY <1>1, IdleStep DEF SyncInv, NetOK

(* A scheduler that is filled anew tracks all that is above the tip.       *)
LEMMA FreshFacts ==
    ASSUME SyncInv, Populate(TipHeight, BestHeaderHeight), UNCHANGED <<ready, conn, headers>>
    PROVE  /\ SchedOK' /\ TrackOK' /\ Kept
           /\ \A b \in (TipHeight + 1)..BestHeaderHeight : b \in Tracked'
           /\ ready = <<>> => PlacedOK'
<1> DEFINE t == TipHeight
           h == BestHeaderHeight
<1>1. SchedOK /\ ReadyOK /\ ChainOK /\ TrackOK
  BY DEF SyncInv
<1>2. t \in Nat /\ h \in Nat /\ (h <= MaxHeight \/ h <= t)
  BY <1>1, TipFacts
<1>3. TipHeight' = t /\ BestHeaderHeight' = h
  BY DEF TipHeight, BestHeaderHeight
<1> HIDE DEF t, h
<1>4. SchedOK' /\ ExpectedHashes' = (t + 1)..h /\ (ready' = <<>> => PlacedOK')
  <2>1. Populate(t, h)
    BY DEF t, h
  <2> QED BY <1>2, <2>1, PopulateFacts
<1>5. Tracked' = ((t + 1)..h) \union Blocks(Range(ready))
  BY <1>4 DEF Tracked
<1>6. \A b \in Blocks(Range(ready)) : b \in Nat /\ b <= h
  BY <1>1, TrackedNat DEF Tracked, TrackOK, h
<1>7. \A b \in (t + 1)..h : b \in Nat /\ b <= h
  BY SMT, <1>2
<1>8. \A b \in Tracked' : b \in Nat /\ b <= h
  BY <1>5, <1>6, <1>7
<1>9. \A b \in Nat : b <= h => \A x \in (t + 1)..b : x \in (t + 1)..h
  BY SMT, <1>2
<1>10. ASSUME NEW b \in Tracked'
       PROVE  (t + 1)..b \subseteq Tracked'
  BY <1>5, <1>8, <1>9
<1>11. TrackOK'
  BY <1>3, <1>8, <1>10 DEF TrackOK, NoHoles
<1>12. conn <= conn' /\ headers <= headers'
  BY <1>1, SameRest
<1>13. \A b \in (TipHeight + 1)..BestHeaderHeight : b \in Tracked'
  BY <1>5 DEF t, h
<1> QED BY <1>4, <1>11, <1>12, <1>13 DEF Kept

(* The end of the header phase.                                            *)
LEMMA HeadersDoneStep ==
    ASSUME SyncInv, HeadersDoneTick
    PROVE  SyncInv' /\ Kept
<1>1. /\ UNCHANGED <<tpc, ready, todo, handler, ibdQueue>>
      /\ UNCHANGED <<peers, leaving, expected, conn, headers>>
      /\ blocksDue' = blocksDue /\ headersDue' = headersDue
  BY DEF HeadersDoneTick, tickVars, peerVars, chainVars, netVars
<1>2. CASE NewScheduler /\ fastSyncNext' = fastSyncNext
  <2>1. SchedOK' /\ TrackOK' /\ Kept
    BY <1>1, <1>2, FreshFacts DEF NewScheduler
  <2> QED BY <1>1, <1>2, <2>1, SameRest DEF SyncInv
<1>3. CASE UNCHANGED schedVars /\ fastSyncNext' = TipHeight + 1
  <2>1. TipHeight \in Nat
    BY TipFacts DEF SyncInv
  <2>2. fastSyncNext' \in Nat
    BY SMT, <1>3, <2>1
  <2> QED BY <1>1, <1>3, <2>2, IdleStep DEF SyncInv, NetOK
<1> QED BY <1>2, <1>3 DEF HeadersDoneTick

(* A node that has fallen behind drops its scheduler.                      *)
LEMMA SyncedStep ==
    ASSUME SyncInv, SyncedTick
    PROVE  SyncInv' /\ Kept
<1>1. /\ UNCHANGED <<tpc, ready, todo, handler, ibdQueue>> /\ tpc = "idle"
      /\ UNCHANGED <<peers, leaving, expected, conn, headers>>
      /\ blocksDue' = blocksDue /\ headersDue' = headersDue /\ fastSyncNext' = fastSyncNext
  BY DEF SyncedTick, tickVars, peerVars, chainVars
<1>2. CASE UNCHANGED schedVars
  BY <1>1, <1>2, IdleStep DEF SyncInv, NetOK
<1>3. CASE /\ needed' = <<>> /\ inFlight' = {} /\ staging' = {}
           /\ statInFlight' = [p \in Peer |-> 0] /\ nextConnect' = 0 /\ syncState' = "INITIAL"
  <2>1. 0 \in Nat /\ 0 \in Int /\ 0 <= MaxGlobalInFlight
    BY SMT, SchedulerAssumption
  <2>2. IsFiniteSet({}) /\ Cardinality({}) = 0
    BY FS_EmptySet
  <2>3. SchedOK'
    <3>1. needed' \in Seq(Entry)
      BY SMT, <1>3
    <3>2. OneRequest'
      BY <1>3, <2>1, <2>2 DEF OneRequest
    <3> QED BY <1>3, <2>1, <2>2, <3>1, <3>2 DEF SchedOK
  <2>4. TrackOK'
    <3>1. Range(<<>>) = {}
      BY SMT DEF Range
    <3>2. Blocks({}) = {}
      BY DEF Blocks
    <3>3. ready' = <<>>
      BY <1>1 DEF SyncInv, ReadyOK
    <3>4. Tracked' = {}
      BY <1>3, <3>1, <3>2, <3>3 DEF Tracked, ExpectedHashes
    <3> QED BY <3>4 DEF TrackOK, NoHoles
  <2> QED BY <1>1, <1>3, <2>3, <2>4, SameRest DEF SyncInv, Kept
<1> QED BY <1>2, <1>3 DEF SyncedTick

(* Fast sync.                                                              *)
LEMMA FastFallbackStep ==
    ASSUME SyncInv, FastFallbackTick
    PROVE  SyncInv' /\ Kept
<1>1. /\ UNCHANGED <<tpc, ready, todo, handler, ibdQueue>>
      /\ UNCHANGED <<peers, leaving, expected, conn, headers>>
      /\ blocksDue' = blocksDue /\ headersDue' = headersDue /\ fastSyncNext' = fastSyncNext
      /\ Populate(TipHeight, BestHeaderHeight)
  BY DEF FastFallbackTick, NewScheduler, tickVars, peerVars, chainVars, netVars
<1>2. SchedOK' /\ TrackOK' /\ Kept
  BY <1>1, FreshFacts
<1> QED BY <1>1, <1>2, SameRest DEF SyncInv

(* Fast sync asks for the next batch.                                      *)
LEMMA FastRequestStep ==
    ASSUME SyncInv, FastRequestTick
    PROVE  SyncInv' /\ Kept
<1> DEFINE n == Min({FastBatchSize, BestHeaderHeight - fastSyncNext + 1})
           bs == Ascending(fastSyncNext, fastSyncNext + n - 1)
<1>1. /\ UNCHANGED <<schedVars, tpc, ready, todo, handler, ibdQueue>>
      /\ UNCHANGED <<peers, leaving, expected, conn, headers>> /\ headersDue' = headersDue
      /\ fastSyncNext' = fastSyncNext + n /\ Getdata(fastSyncPeer, bs)
      /\ fastSyncPeer \in peers /\ fastSyncNext <= BestHeaderHeight
  BY DEF FastRequestTick, tickVars, peerVars, chainVars
<1>2. BestHeaderHeight \in Nat /\ fastSyncNext \in Nat /\ FastBatchSize \in Nat
  BY TipFacts, SyncAssumption DEF SyncInv
<1>3. n \in Nat
  <2>1. FastBatchSize \in Int /\ BestHeaderHeight - fastSyncNext + 1 \in Nat
    BY SMT, <1>1, <1>2
  <2>2. BestHeaderHeight - fastSyncNext + 1 \in Int
    BY SMT, <2>1
  <2>3. n = IF FastBatchSize <= BestHeaderHeight - fastSyncNext + 1 THEN FastBatchSize
            ELSE BestHeaderHeight - fastSyncNext + 1
    BY <2>1, <2>2, MinOfTwo
  <2> QED BY <1>2, <2>1, <2>3
<1> HIDE DEF n
<1>4. fastSyncNext + n - 1 \in Int /\ fastSyncNext' \in Nat
  BY SMT, <1>1, <1>2, <1>3
<1>5. bs \in Seq(Nat)
  BY <1>2, <1>4, AscendingFacts
<1> HIDE DEF bs
<1>6. fastSyncPeer \in Peer
  BY <1>1 DEF SyncInv, PeerOK
<1>7. blocksDue' \in [Peer -> Seq(Heights)]
  BY <1>1, <1>5, <1>6, GetdataFacts DEF SyncInv
<1> QED BY <1>1, <1>4, <1>7, IdleStep DEF SyncInv, NetOK

(* The scheduler's own ticks.                                              *)
LEMMA TimeoutStep ==
    ASSUME SyncInv, TimeoutTick
    PROVE  SyncInv' /\ Kept
<1>1. /\ UNCHANGED <<ready, todo, handler, ibdQueue>> /\ tpc = "idle"
      /\ UNCHANGED <<peers, leaving, expected, conn, headers>>
      /\ blocksDue' = blocksDue /\ headersDue' = headersDue /\ fastSyncNext' = fastSyncNext
  BY DEF TimeoutTick, peerVars, chainVars, fastVars, netVars
<1>2. PICK overdue \in SUBSET inFlight : HandleTimeout(overdue)
  BY DEF TimeoutTick
<1>3. SchedOK' /\ Tracked' = Tracked
  BY <1>1, <1>2, TimeoutFacts DEF SyncInv, Tracked
<1>4. ReadyOK'
  BY <1>1 DEF SyncInv, ReadyOK
<1> QED BY <1>1, <1>3, <1>4, SameRest, PartsKept DEF SyncInv

(* What is drained is still tracked.                                       *)
LEMMA DrainStep ==
    ASSUME SyncInv, DrainTick
    PROVE  SyncInv' /\ Kept
<1>1. /\ UNCHANGED <<todo, handler, ibdQueue>> /\ tpc = "drain" /\ tpc' = "process"
      /\ UNCHANGED <<peers, leaving, expected, conn, headers>>
      /\ blocksDue' = blocksDue /\ headersDue' = headersDue /\ fastSyncNext' = fastSyncNext
      /\ DrainReady(headers) /\ ready' = Drained(headers)
  BY DEF DrainTick, Drained, peerVars, chainVars, fastVars, netVars
<1>2. headers \in Nat
  BY SMT, SchedulerAssumption DEF SyncInv, ChainOK, Heights
<1>3. /\ SchedOK' /\ ready' \in Seq(Delivered)
      /\ ExpectedHashes' \union Blocks(Range(ready')) = ExpectedHashes
  BY <1>1, <1>2, DrainFacts DEF SyncInv
<1>4. ReadyOK'
  BY <1>1, <1>3 DEF ReadyOK
<1>5. Tracked' = Tracked
  <2>1. Range(<<>>) = {}
    BY SMT DEF Range
  <2>2. Blocks({}) = {}
    BY DEF Blocks
  <2>3. ready = <<>>
    BY <1>1 DEF SyncInv, ReadyOK
  <2> QED BY <1>3, <2>1, <2>2, <2>3 DEF Tracked
<1> QED BY <1>1, <1>3, <1>4, <1>5, SameRest, PartsKept DEF SyncInv

(* The tip passes a drained block, or the block goes back to the queue.    *)
LEMMA ProcessReadyStep ==
    ASSUME SyncInv, ProcessReady
    PROVE  SyncInv' /\ Kept
<1> DEFINE e == Head(ready)
           b == e.block
           r == Outcome(e.block, e.good)
<1>1. /\ UNCHANGED <<todo, handler, ibdQueue, peers, expected>> /\ tpc = "process" /\ tpc' = tpc
      /\ blocksDue' = blocksDue /\ headersDue' = headersDue /\ fastSyncNext' = fastSyncNext
      /\ ready # <<>> /\ ready' = Tail(ready) /\ ProcessBlock(b, e.good)
  BY DEF ProcessReady, fastVars, netVars
<1>2. /\ SchedOK /\ ChainOK /\ ready \in Seq(Delivered) /\ ReadyOK
  BY DEF SyncInv, ReadyOK
<1>3. /\ e \in Delivered /\ ready' \in Seq(Delivered)
      /\ \A x : x \in Range(ready) <=> x = e \/ x \in Range(ready')
  BY <1>1, <1>2, HeadTail
<1>4. b \in Heights /\ e.good \in BOOLEAN /\ e.peer \in Peer /\ (e.good \/ e.peer \in Faulty)
  BY <1>3 DEF Delivered
<1>5. /\ \/ r \in {"side chain", "already in chain"} /\ UNCHANGED <<schedVars, leaving, headers>>
         \/ /\ r = "ok" /\ NotifyBlockAccepted(b) /\ UpdateNextConnectHeight(b)
            /\ UNCHANGED <<needed, inFlight, staging, statInFlight, leaving>>
         \/ /\ r \in {"orphan", "invalid"} /\ RequeueBlock(b)
            /\ leaving' = leaving \/ (r = "invalid" /\ Misbehaved(e.peer))
            /\ UNCHANGED headers
  BY DEF ProcessReady
<1> HIDE DEF e
<1>6. /\ conn' \in Heights /\ conn <= conn'
      /\ r \in {"ok", "side chain", "already in chain"} => b <= conn'
      /\ r = "invalid" => ~e.good
  BY <1>1, <1>2, <1>4, ProcessFacts
<1> HIDE DEF r
<1>7. headers' \in Heights /\ headers <= headers'
  <2>1. headers <= headers /\ headers \in Heights
    BY SMT, <1>2, SchedulerAssumption DEF ChainOK, Heights
  <2> QED BY <1>2, <1>4, <1>5, <2>1, NotifyFacts
<1>8. ChainOK' /\ ReadyOK'
  BY <1>1, <1>3, <1>6, <1>7 DEF ChainOK, ReadyOK
<1>9. PeerOK'
  <2>1. leaving' \in SUBSET (Faulty \union MayLeave)
    <3>1. CASE leaving' = leaving
      BY <3>1 DEF SyncInv, PeerOK
    <3>2. CASE r = "invalid" /\ Misbehaved(e.peer)
      BY <1>4, <1>6, <3>2 DEF SyncInv, PeerOK, Misbehaved
    <3> QED BY <1>5, <3>1, <3>2
  <2> QED BY <1>1, <2>1 DEF SyncInv, PeerOK
<1>10. SchedOK' /\ (ExpectedHashes' = ExpectedHashes \/ ExpectedHashes' = ExpectedHashes \union {b})
       /\ (ExpectedHashes' = ExpectedHashes \union {b} \/ b <= conn')
  <2>1. CASE r \in {"side chain", "already in chain"} /\ UNCHANGED schedVars
    BY <1>2, <1>6, <2>1, SameSched
  <2>2. CASE /\ r = "ok" /\ UpdateNextConnectHeight(b)
             /\ UNCHANGED <<needed, inFlight, staging, statInFlight>>
    <3>1. ExpectedHashes' = ExpectedHashes
      BY <2>2 DEF ExpectedHashes
    <3>2. nextConnect \in Nat /\ b \in Nat
      BY SMT, <1>2, <1>4, SchedulerAssumption DEF SchedOK, Heights
    <3>3. nextConnect \in Int /\ b + 1 \in Int /\ b + 1 \in Nat
      BY SMT, <3>2
    <3>4. nextConnect' \in Nat
      BY <2>2, <3>2, <3>3, MaxOfTwo DEF UpdateNextConnectHeight
    <3>5. SchedOK'
      BY <1>2, <2>2, <3>4 DEF SchedOK, OneRequest
    <3> QED BY <1>6, <2>2, <3>1, <3>5
  <2>3. CASE RequeueBlock(b)
    BY <1>2, <1>4, <2>3, RequeueFacts
  <2> QED BY <1>5, <2>1, <2>2, <2>3
<1>11. TrackOK' /\ Kept
  <2>1. \A x : x \in Blocks(Range(ready)) <=> x = b \/ x \in Blocks(Range(ready'))
    <3>1. ASSUME NEW x
          PROVE  (\E y \in Range(ready) : y.block = x)
                 <=> (x = b \/ \E y \in Range(ready') : y.block = x)
      BY <1>3
    <3> QED BY <3>1, InBlocks
  <2>2. \A x \in Tracked' : x \in Tracked
    BY <1>10, <2>1 DEF Tracked
  <2>3. \A x \in Tracked : x \in Tracked' \/ x <= conn'
    BY <1>10, <2>1 DEF Tracked
  <2> QED BY <1>2, <1>6, <1>7, <1>8, <2>2, <2>3, HolesKept DEF SyncInv, Kept
<1> QED BY <1>1, <1>8, <1>9, <1>10, <1>11, SameRest DEF SyncInv

(* The progress check moves no block.                                      *)
LEMMA ProgressStep ==
    ASSUME SyncInv, ProgressTick
    PROVE  SyncInv' /\ Kept
<1>1. /\ UNCHANGED schedVars /\ UNCHANGED <<ready, handler, ibdQueue>> /\ todo' = peers
      /\ UNCHANGED <<peers, leaving, expected, conn, headers>> /\ ready = <<>>
      /\ blocksDue' = blocksDue /\ headersDue' = headersDue /\ fastSyncNext' = fastSyncNext
  BY DEF ProgressTick, peerVars, chainVars, fastVars, netVars
<1>2. SchedOK' /\ Tracked' = Tracked
  BY <1>1, SameSched DEF SyncInv, Tracked
<1>3. ReadyOK' /\ PeerOK'
  BY <1>1 DEF SyncInv, ReadyOK, PeerOK
<1> QED BY <1>1, <1>2, <1>3, SameRest, PartsKept DEF SyncInv

(* After a stall the scheduler is filled again.                            *)
LEMMA StallStep ==
    ASSUME SyncInv, StallTick
    PROVE  SyncInv' /\ Kept
<1>1. /\ UNCHANGED <<ready, handler, ibdQueue>> /\ todo' = peers
      /\ UNCHANGED <<peers, leaving, expected, conn, headers>> /\ ready = <<>>
      /\ blocksDue' = blocksDue /\ headersDue' = headersDue /\ fastSyncNext' = fastSyncNext
      /\ Populate(TipHeight, BestHeaderHeight)
  BY DEF StallTick, peerVars, chainVars, fastVars, netVars
<1>2. SchedOK' /\ TrackOK' /\ Kept
  BY <1>1, FreshFacts
<1>3. ReadyOK' /\ PeerOK'
  BY <1>1 DEF SyncInv, ReadyOK, PeerOK
<1> QED BY <1>1, <1>2, <1>3, SameRest DEF SyncInv

(* The end of a tick.                                                      *)
LEMMA CompleteStep ==
    ASSUME SyncInv, CompleteTick
    PROVE  SyncInv' /\ Kept
<1>1. /\ UNCHANGED schedVars /\ UNCHANGED <<ready, todo, handler, ibdQueue>> /\ tpc = "assign"
      /\ UNCHANGED <<peers, leaving, expected, conn, headers>>
      /\ blocksDue' = blocksDue /\ headersDue' = headersDue /\ fastSyncNext' = fastSyncNext
  BY DEF CompleteTick, peerVars, chainVars, fastVars, netVars
<1>2. SchedOK' /\ Tracked' = Tracked
  BY <1>1, SameSched DEF SyncInv, Tracked
<1>3. ReadyOK'
  BY <1>1 DEF SyncInv, ReadyOK
<1> QED BY <1>1, <1>2, <1>3, SameRest, PartsKept DEF SyncInv

(* Work for a peer: blocks leave the queue and are asked for.              *)
LEMMA AssignParts ==
    ASSUME SyncInv, NEW p \in Peer, Assign(p)
    PROVE  /\ SchedOK' /\ ExpectedHashes' = ExpectedHashes
           /\ blocksDue' \in [Peer -> Seq(Heights)]
           /\ PlacedOK /\ ready' = ready => PlacedOK'
<1>1. PICK take \in SUBSET DOMAIN needed :
         /\ AssignWork(p, bestHeight[p], take)
         /\ Getdata(p, [i \in DOMAIN At(needed, take) |-> At(needed, take)[i].block])
  BY DEF Assign
<1> DEFINE picked == At(needed, take)
           bs == [i \in DOMAIN picked |-> picked[i].block]
           n == Len(picked)
<1>2. /\ SchedOK' /\ ExpectedHashes' = ExpectedHashes
      /\ PlacedOK /\ ready' = ready => PlacedOK'
  BY <1>1, AssignFacts DEF SyncInv
<1>3. picked \in Seq(Entry)
  BY SMT, AtFacts DEF SyncInv, SchedOK
<1> HIDE DEF picked
<1>4. n \in Nat /\ DOMAIN picked = 1..n /\ \A i \in 1..n : picked[i] \in Entry
  BY SMT, <1>3
<1>5. \A e \in Entry : e.block \in Nat
  <2>1. \A b \in Heights : b \in Nat
    BY SMT, SchedulerAssumption DEF Heights
  <2> QED BY <2>1 DEF Entry
<1> HIDE DEF n
<1>6. bs \in [1..n -> Nat]
  BY <1>4, <1>5
<1> HIDE DEF bs
<1>7. bs \in Seq(Nat)
  BY SMT, <1>4, <1>6
<1>8. Getdata(p, bs)
  BY <1>1 DEF bs, picked
<1> QED BY <1>2, <1>7, <1>8, GetdataFacts DEF SyncInv

(* The tick assigns work to one peer.                                      *)
LEMMA AssignStep ==
    ASSUME SyncInv, AssignTick
    PROVE  SyncInv' /\ Kept
<1>1. /\ UNCHANGED <<tpc, ready, handler, ibdQueue>>
      /\ UNCHANGED <<peers, leaving, expected, conn, headers>>
      /\ headersDue' = headersDue /\ fastSyncNext' = fastSyncNext
  BY DEF AssignTick, peerVars, chainVars, fastVars
<1>2. PICK p \in todo : Assign(p) /\ todo' = todo \ {p}
  BY DEF AssignTick
<1>3. p \in Peer /\ PeerOK'
  BY <1>1, <1>2 DEF SyncInv, PeerOK
<1>4. SchedOK' /\ ExpectedHashes' = ExpectedHashes /\ blocksDue' \in [Peer -> Seq(Heights)]
  BY <1>2, <1>3, AssignParts
<1>5. Tracked' = Tracked
  BY <1>1, <1>4 DEF Tracked
<1>6. NetOK'
  BY <1>1, <1>4 DEF SyncInv, NetOK
<1> QED BY <1>1, <1>3, <1>4, <1>5, <1>6, SameRest, PartsKept DEF SyncInv

-----------------------------------------------------------------------------
(* The message loops of the peers.                                         *)

(* The block that a loop handles.                                          *)
LEMMA HandlerFacts ==
    ASSUME HandOK, NEW p \in Peer
    PROVE  /\ handler[p] \in Handled /\ handler[p].block \in Heights /\ handler[p].good \in BOOLEAN
           /\ handler[p].good \/ p \in Faulty
<1>1. handler[p] \in Handled
  BY DEF HandOK
<1> QED BY <1>1 DEF HandOK, Handled

(* A loop that takes up or lays down a block.                              *)
LEMMA HandlerNext ==
    ASSUME HandOK, NEW p \in Peer, NEW x \in Handled, x.good \/ p \in Faulty,
           handler' = [handler EXCEPT ![p] = x]
    PROVE  HandOK'
<1>1. handler' \in [Peer -> Handled]
  BY DEF HandOK
<1>2. ASSUME NEW q \in Peer
      PROVE  handler'[q].good \/ q \in Faulty
  <2>1. CASE q = p
    BY <2>1 DEF HandOK
  <2>2. CASE q # p
    BY <2>2 DEF HandOK
  <2> QED BY <2>1, <2>2
<1> QED BY <1>1, <1>2 DEF HandOK

(* A loop that is through with its block.                                  *)
LEMMA HandlerIdle ==
    ASSUME HandOK, NEW p \in Peer, handler' = [handler EXCEPT ![p] = Idle]
    PROVE  HandOK'
<1>1. 0 \in Heights
  BY SMT, SchedulerAssumption DEF Heights
<1>2. Idle \in Handled
  BY <1>1 DEF Idle, Handled
<1>3. Idle.good
  BY DEF Idle
<1> QED BY <1>2, <1>3, HandlerNext

(* A block arrives: it is dropped, queued, or taken up by the loop.        *)
LEMMA ReceiveStep ==
    ASSUME SyncInv, NEW p \in Peer, NEW good \in BOOLEAN, Receive(p, good)
    PROVE  SyncInv' /\ Kept
<1> DEFINE b == Head(blocksDue[p])
           route == IF Dropped(b) THEN "idle" ELSE Route(p)
<1>1. /\ UNCHANGED schedVars /\ UNCHANGED <<tpc, ready, todo>>
      /\ UNCHANGED <<peers, leaving, expected, conn, headers>>
      /\ headersDue' = headersDue /\ fastSyncNext' = fastSyncNext
      /\ blocksDue[p] # <<>> /\ blocksDue' = [blocksDue EXCEPT ![p] = Tail(@)]
  BY DEF Receive, tickVars, peerVars, chainVars, fastVars
<1>2. good \/ p \in Faulty
  BY DEF Receive
<1>3. blocksDue[p] \in Seq(Heights)
  BY DEF SyncInv, NetOK
<1>4. b \in Heights /\ Tail(blocksDue[p]) \in Seq(Heights)
  BY <1>1, <1>3, HeadTail
<1>5. handler' = IF route \in {"idle", "queue"} THEN handler
                 ELSE [handler EXCEPT ![p] = [route |-> route, block |-> b, good |-> good]]
  BY DEF Receive
<1>6. ibdQueue' = IF route = "queue" THEN Append(ibdQueue, [block |-> b, good |-> good, peer |-> p])
                  ELSE ibdQueue
  BY DEF Receive
<1>7. route \in {"idle", "fast", "sched", "queue", "direct"}
  BY DEF Route
<1> HIDE DEF b, route
<1>8. HandOK'
  <2> DEFINE x == [route |-> route, block |-> b, good |-> good]
  <2>1. CASE handler' = handler
    BY <2>1, SameRest DEF SyncInv
  <2>2. CASE route \notin {"idle", "queue"} /\ handler' = [handler EXCEPT ![p] = x]
    <3>1. x \in Handled
      BY <1>4, <1>7, <2>2 DEF Handled
    <3>2. x.good \/ p \in Faulty
      BY <1>2
    <3> HIDE DEF x
    <3> QED BY <2>2, <3>1, <3>2, HandlerNext DEF SyncInv
  <2> QED BY <1>5, <2>1, <2>2
<1>9. QueueOK'
  <2> DEFINE x == [block |-> b, good |-> good, peer |-> p]
  <2>1. x \in Delivered
    <3>1. x \in [block : Heights, peer : Peer, good : BOOLEAN]
      BY <1>4
    <3>2. x.good \/ x.peer \in Faulty
      BY <1>2
    <3> QED BY <3>1, <3>2 DEF Delivered
  <2>2. ibdQueue \in Seq(Delivered)
    BY DEF SyncInv, QueueOK
  <2>3. ibdQueue' = ibdQueue \/ ibdQueue' = Append(ibdQueue, x)
    BY <1>6
  <2> HIDE DEF x
  <2>4. Append(ibdQueue, x) \in Seq(Delivered)
    BY <2>1, <2>2, AppendProperties
  <2> QED BY <2>2, <2>3, <2>4 DEF QueueOK
<1>10. NetOK'
  BY <1>1, <1>4 DEF SyncInv, NetOK
<1>11. SchedOK' /\ Tracked' = Tracked
  BY <1>1, SameSched DEF SyncInv, Tracked
<1> QED BY <1>1, <1>8, <1>9, <1>10, <1>11, SameRest, PartsKept DEF SyncInv

(* A fast sync block: straight to the chain, or on to the scheduler.       *)
LEMMA FastBlockStep ==
    ASSUME SyncInv, NEW p \in Peer, FastBlock(p)
    PROVE  SyncInv' /\ Kept
<1> DEFINE b == handler[p].block
           good == handler[p].good
           r == Outcome(b, good)
<1>1. /\ UNCHANGED <<tpc, ready, todo, ibdQueue, peers, expected, headers>>
      /\ blocksDue' = blocksDue /\ headersDue' = headersDue /\ fastSyncNext' = fastSyncNext
      /\ ProcessBlock(b, good) /\ handler' = [handler EXCEPT ![p] = Idle]
  BY DEF FastBlock, tickVars, netVars
<1>2. \/ /\ r \in {"ok", "side chain", "already in chain"} /\ UNCHANGED schedVars /\ leaving' = leaving
      \/ /\ r \in {"orphan", "invalid"} /\ Populate(TipHeight, BestHeaderHeight)
         /\ leaving' = leaving \/ (r = "invalid" /\ Misbehaved(p))
  BY DEF FastBlock, NewScheduler
<1>3. b \in Heights /\ good \in BOOLEAN /\ (good \/ p \in Faulty) /\ ChainOK
  BY HandlerFacts DEF SyncInv
<1> HIDE DEF b, good
<1>4. /\ conn' \in Heights /\ conn <= conn'
      /\ r \in {"orphan", "invalid"} => conn' = conn
      /\ r = "invalid" => ~good
  BY <1>1, <1>3, ProcessFacts
<1> HIDE DEF r
<1>5. headers <= headers'
  BY SMT, <1>1, <1>3, SchedulerAssumption DEF ChainOK, Heights
<1>6. ChainOK' /\ HandOK'
  BY <1>1, <1>3, <1>4, HandlerIdle DEF ChainOK, SyncInv
<1>7. PeerOK'
  <2>1. leaving' \in SUBSET (Faulty \union MayLeave)
    <3>1. CASE leaving' = leaving
      BY <3>1 DEF SyncInv, PeerOK
    <3>2. CASE r = "invalid" /\ Misbehaved(p)
      BY <1>3, <1>4, <3>2 DEF SyncInv, PeerOK, Misbehaved
    <3> QED BY <1>2, <3>1, <3>2
  <2> QED BY <1>1, <2>1 DEF SyncInv, PeerOK
<1>8. SchedOK' /\ TrackOK' /\ Kept
  <2>1. CASE UNCHANGED schedVars
    <3>1. SchedOK' /\ Tracked' = Tracked
      BY <1>1, <2>1, SameSched DEF SyncInv, Tracked
    <3> QED BY <1>3, <1>4, <1>5, <1>6, <3>1, SameTracked DEF SyncInv, Kept
  <2>2. CASE r \in {"orphan", "invalid"} /\ Populate(TipHeight, BestHeaderHeight)
    BY <1>1, <1>4, <2>2, FreshFacts
  <2> QED BY <1>2, <2>1, <2>2
<1> QED BY <1>1, <1>6, <1>7, <1>8, SameRest DEF SyncInv

(* A block for the scheduler.                                              *)
LEMMA HandedOver ==
    ASSUME SyncInv, NEW p \in Peer, BlockReceived(handler[p].block, p, handler[p].good)
    PROVE  /\ SchedOK' /\ ExpectedHashes' = ExpectedHashes
           /\ PlacedOK /\ ready' = ready => PlacedOK'
<1> DEFINE b == handler[p].block
           good == handler[p].good
           x == [block |-> b, peer |-> p, good |-> good]
<1>1. b \in Heights /\ good \in BOOLEAN /\ (good \/ p \in Faulty)
  BY HandlerFacts DEF SyncInv
<1>2. x \in [block : Heights, peer : Peer, good : BOOLEAN]
  BY <1>1
<1>3. x.good \/ x.peer \in Faulty
  BY <1>1
<1>4. x \in Delivered
  BY <1>2, <1>3 DEF Delivered
<1>5. BlockReceived(b, p, good) /\ SchedOK
  BY DEF SyncInv
<1> HIDE DEF b, good
<1> QED BY <1>4, <1>5, ReceivedFacts

(* The loop hands its block over, or goes the direct way.                  *)
LEMMA SchedBlockStep ==
    ASSUME SyncInv, NEW p \in Peer, SchedBlock(p)
    PROVE  SyncInv' /\ Kept
<1> DEFINE b == handler[p].block
           good == handler[p].good
<1>1. /\ UNCHANGED <<tpc, ready, todo, ibdQueue>>
      /\ UNCHANGED <<peers, leaving, expected, conn, headers>>
      /\ blocksDue' = blocksDue /\ headersDue' = headersDue /\ fastSyncNext' = fastSyncNext
  BY DEF SchedBlock, tickVars, peerVars, chainVars, netVars, fastVars
<1>2. \/ BlockReceived(b, p, good) /\ handler' = [handler EXCEPT ![p].route = "assign"]
      \/ UNCHANGED schedVars /\ handler' = [handler EXCEPT ![p].route = "direct"]
  BY DEF SchedBlock
<1>3. /\ handler[p] \in Handled /\ b \in Heights /\ good \in BOOLEAN /\ (good \/ p \in Faulty)
  BY HandlerFacts DEF SyncInv
<1>4. ASSUME NEW route \in {"assign", "direct"}, handler' = [handler EXCEPT ![p].route = route]
      PROVE  HandOK'
  <2> DEFINE x == [handler[p] EXCEPT !.route = route]
  <2>1. x \in Handled
    BY <1>3 DEF Handled
  <2>2. x.good = good
    BY <1>3 DEF Handled
  <2>3. handler' = [handler EXCEPT ![p] = x]
    BY <1>4
  <2> HIDE DEF x
  <2> QED BY <1>3, <2>1, <2>2, <2>3, HandlerNext DEF SyncInv
<1>5. HandOK'
  BY <1>2, <1>4
<1>6. SchedOK' /\ Tracked' = Tracked
  <2>1. CASE UNCHANGED schedVars
    BY <1>1, <2>1, SameSched DEF SyncInv, Tracked
  <2>2. CASE BlockReceived(b, p, good)
    BY <1>1, <2>2, HandedOver DEF Tracked
  <2> QED BY <1>2, <2>1, <2>2
<1> QED BY <1>1, <1>5, <1>6, SameRest, PartsKept DEF SyncInv

(* The loop asks its peer for more.                                        *)
LEMMA AssignBlockStep ==
    ASSUME SyncInv, NEW p \in Peer, AssignBlock(p)
    PROVE  SyncInv' /\ Kept
<1>1. /\ UNCHANGED <<tpc, ready, todo, ibdQueue>>
      /\ UNCHANGED <<peers, leaving, expected, conn, headers>>
      /\ headersDue' = headersDue /\ fastSyncNext' = fastSyncNext
      /\ Assign(p) /\ handler' = [handler EXCEPT ![p] = Idle]
  BY DEF AssignBlock, tickVars, peerVars, chainVars, fastVars
<1>2. SchedOK' /\ ExpectedHashes' = ExpectedHashes /\ blocksDue' \in [Peer -> Seq(Heights)]
  BY <1>1, AssignParts
<1>3. Tracked' = Tracked
  BY <1>1, <1>2 DEF Tracked
<1>4. NetOK' /\ HandOK'
  BY <1>1, <1>2, HandlerIdle DEF SyncInv, NetOK
<1> QED BY <1>1, <1>2, <1>3, <1>4, SameRest, PartsKept DEF SyncInv

(* The missing parent of an orphan is asked for.                           *)
LEMMA ParentFacts ==
    ASSUME NetOK, NEW p \in Peer, NEW b, b - 1 \in Nat, Getdata(p, <<b - 1>>)
    PROVE  blocksDue' \in [Peer -> Seq(Heights)]
<1>1. <<b - 1>> \in Seq(Nat)
  BY SMT
<1> QED BY <1>1, GetdataFacts

(* The last stretch of handleBlock.                                        *)
LEMMA DirectBlockStep ==
    ASSUME SyncInv, NEW p \in Peer, DirectBlock(p)
    PROVE  SyncInv' /\ Kept
<1> DEFINE b == handler[p].block
           good == handler[p].good
           r == Outcome(b, good)
<1>1. /\ UNCHANGED schedVars /\ UNCHANGED <<tpc, ready, todo, ibdQueue, peers, expected>>
      /\ headersDue' = headersDue /\ fastSyncNext' = fastSyncNext
      /\ ProcessBlock(b, good) /\ handler' = [handler EXCEPT ![p] = Idle]
  BY DEF DirectBlock, tickVars, fastVars
<1>2. /\ leaving' = leaving \/ (r = "invalid" /\ Misbehaved(p))
      /\ headers' = headers \/ NotifyBlockAccepted(b)
      /\ blocksDue' = blocksDue \/ (r = "orphan" /\ Getdata(p, <<b - 1>>))
  BY DEF DirectBlock, Accepted
<1>3. b \in Heights /\ good \in BOOLEAN /\ (good \/ p \in Faulty) /\ ChainOK
  BY HandlerFacts DEF SyncInv
<1> HIDE DEF b, good
<1>4. /\ conn' \in Heights /\ conn <= conn'
      /\ r = "orphan" => b - 1 \in Nat
      /\ r = "invalid" => ~good
  BY <1>1, <1>3, ProcessFacts
<1> HIDE DEF r
<1>5. headers' \in Heights /\ headers <= headers'
  <2>1. headers <= headers /\ headers \in Heights
    BY SMT, <1>3, SchedulerAssumption DEF ChainOK, Heights
  <2> QED BY <1>2, <1>3, <2>1, NotifyFacts
<1>6. ChainOK' /\ HandOK'
  BY <1>1, <1>4, <1>5, HandlerIdle DEF ChainOK, SyncInv
<1>7. PeerOK'
  <2>1. leaving' \in SUBSET (Faulty \union MayLeave)
    <3>1. CASE leaving' = leaving
      BY <3>1 DEF SyncInv, PeerOK
    <3>2. CASE r = "invalid" /\ Misbehaved(p)
      BY <1>3, <1>4, <3>2 DEF SyncInv, PeerOK, Misbehaved
    <3> QED BY <1>2, <3>1, <3>2
  <2> QED BY <1>1, <2>1 DEF SyncInv, PeerOK
<1>8. NetOK'
  <2>1. blocksDue' \in [Peer -> Seq(Heights)]
    BY <1>2, <1>4, ParentFacts DEF SyncInv, NetOK
  <2> QED BY <1>1, <2>1 DEF SyncInv, NetOK
<1>9. SchedOK' /\ Tracked' = Tracked
  BY <1>1, SameSched DEF SyncInv, Tracked
<1> QED BY <1>1, <1>4, <1>5, <1>6, <1>7, <1>8, <1>9, SameRest, PartsKept DEF SyncInv

(* The queue of the legacy path.                                           *)
LEMMA QueueStep ==
    ASSUME SyncInv, ProcessIBDBlock
    PROVE  SyncInv' /\ Kept
<1> DEFINE e == Head(ibdQueue)
           r == Outcome(e.block, e.good)
<1>1. /\ UNCHANGED schedVars /\ UNCHANGED <<tpc, ready, todo, handler, peers, expected>>
      /\ headersDue' = headersDue /\ fastSyncNext' = fastSyncNext
      /\ ProcessBlock(e.block, e.good) /\ ibdQueue # <<>> /\ ibdQueue' = Tail(ibdQueue)
  BY DEF ProcessIBDBlock, tickVars, fastVars
<1>2. /\ leaving' = leaving \/ (r = "invalid" /\ Misbehaved(e.peer))
      /\ headers' = headers \/ NotifyBlockAccepted(e.block)
      /\ blocksDue' = blocksDue \/ (r = "orphan" /\ Getdata(e.peer, <<e.block - 1>>))
  BY DEF ProcessIBDBlock, Accepted
<1>3. e \in Delivered /\ ibdQueue' \in Seq(Delivered) /\ ChainOK
  BY <1>1, HeadTail DEF SyncInv, QueueOK
<1> HIDE DEF e
<1>4. e.block \in Heights /\ e.good \in BOOLEAN /\ e.peer \in Peer /\ (e.good \/ e.peer \in Faulty)
  BY <1>3 DEF Delivered
<1>5. /\ conn' \in Heights /\ conn <= conn'
      /\ r = "orphan" => e.block - 1 \in Nat
      /\ r = "invalid" => ~e.good
  BY <1>1, <1>3, <1>4, ProcessFacts
<1> HIDE DEF r
<1>6. headers' \in Heights /\ headers <= headers'
  <2>1. headers <= headers /\ headers \in Heights
    BY SMT, <1>3, SchedulerAssumption DEF ChainOK, Heights
  <2> QED BY <1>2, <1>3, <1>4, <2>1, NotifyFacts
<1>7. ChainOK' /\ QueueOK'
  BY <1>3, <1>5, <1>6 DEF ChainOK, QueueOK
<1>8. PeerOK'
  <2>1. leaving' \in SUBSET (Faulty \union MayLeave)
    <3>1. CASE leaving' = leaving
      BY <3>1 DEF SyncInv, PeerOK
    <3>2. CASE r = "invalid" /\ Misbehaved(e.peer)
      BY <1>4, <1>5, <3>2 DEF SyncInv, PeerOK, Misbehaved
    <3> QED BY <1>2, <3>1, <3>2
  <2> QED BY <1>1, <2>1 DEF SyncInv, PeerOK
<1>9. NetOK'
  <2>1. blocksDue' \in [Peer -> Seq(Heights)]
    BY <1>2, <1>4, <1>5, ParentFacts DEF SyncInv, NetOK
  <2> QED BY <1>1, <2>1 DEF SyncInv, NetOK
<1>10. SchedOK' /\ Tracked' = Tracked
  BY <1>1, SameSched DEF SyncInv, Tracked
<1> QED BY <1>1, <1>5, <1>6, <1>7, <1>8, <1>9, <1>10, SameRest, PartsKept DEF SyncInv

(* Headers arrive.                                                         *)
LEMMA HandleHeadersStep ==
    ASSUME SyncInv, NEW p \in Peer, HandleHeaders(p)
    PROVE  SyncInv' /\ Kept
<1> DEFINE loc == headersDue[p]
           top == Min({Has[p], loc + HeadersPerMsg})
<1>1. /\ UNCHANGED schedVars /\ UNCHANGED <<tpc, ready, todo, handler, ibdQueue>>
      /\ UNCHANGED <<peers, leaving, expected, conn>> /\ fastSyncNext' = fastSyncNext
      /\ headers' = Max({headers, top}) /\ loc >= 0
  BY DEF HandleHeaders, tickVars, peerVars, chainVars, fastVars
<1>2. \E d \in {LocatorHeight', -1} : headersDue' = [headersDue EXCEPT ![p] = d]
  <2>1. headersDue' = [headersDue EXCEPT ![p] = LocatorHeight'] \/ headersDue' = [headersDue EXCEPT ![p] = -1]
    BY DEF HandleHeaders
  <2> QED BY <2>1
<1>3. blocksDue' = blocksDue \/ Getdata(p, <<TipHeight + 1>>)
  BY DEF HandleHeaders
<1>4. /\ MaxHeight \in Nat /\ Has[p] \in 0..MaxHeight /\ HeadersPerMsg \in Nat /\ loc \in Int
      /\ headers \in 0..MaxHeight /\ ForkHeight \in 0..MaxHeight
  BY SchedulerAssumption, SyncAssumption DEF SyncInv, ChainOK, NetOK, Heights
<1> HIDE DEF loc
<1>5. top = IF Has[p] <= loc + HeadersPerMsg THEN Has[p] ELSE loc + HeadersPerMsg
  <2>1. Has[p] \in Int /\ loc + HeadersPerMsg \in Int
    BY SMT, <1>4
  <2> QED BY <2>1, MinOfTwo
<1> HIDE DEF top
<1>6. top \in 0..MaxHeight
  BY SMT, <1>1, <1>4, <1>5
<1>7. headers' = IF headers >= top THEN headers ELSE top
  <2>1. headers \in Int /\ top \in Int
    BY SMT, <1>4, <1>6
  <2> QED BY <1>1, <2>1, MaxOfTwo
<1>8. headers' \in 0..MaxHeight /\ headers <= headers' /\ conn <= conn'
  <2>1. conn \in 0..MaxHeight /\ conn' = conn
    BY <1>1 DEF SyncInv, ChainOK, Heights
  <2> QED BY SMT, <1>4, <1>6, <1>7, <2>1
<1>9. ChainOK'
  BY <1>1, <1>8 DEF SyncInv, ChainOK, Heights
<1>10. NetOK'
  <2>1. LocatorHeight' \in Int /\ -1 \in Int
    <3>1. headers' \in Int /\ ForkHeight \in Int /\ -1 \in Int
      BY SMT, <1>4, <1>8
    <3> QED BY <3>1 DEF LocatorHeight
  <2>2. PICK d \in {LocatorHeight', -1} : headersDue' = [headersDue EXCEPT ![p] = d]
    BY <1>2
  <2>3. d \in Int
    BY <2>1
  <2>4. headersDue' \in [Peer -> Int]
    BY <2>2, <2>3 DEF SyncInv, NetOK
  <2>5. <<TipHeight + 1>> \in Seq(Nat)
    <3>1. TipHeight \in Nat
      BY TipFacts DEF SyncInv
    <3> QED BY SMT, <3>1
  <2>6. blocksDue' \in [Peer -> Seq(Heights)]
    BY <1>3, <2>5, GetdataFacts DEF SyncInv, NetOK
  <2> QED BY <2>4, <2>6 DEF NetOK
<1>11. SchedOK' /\ Tracked' = Tracked
  BY <1>1, SameSched DEF SyncInv, Tracked
<1> QED BY <1>1, <1>8, <1>9, <1>10, <1>11, SameRest, PartsKept DEF SyncInv

(* Blocks are asked for after an inventory.                                *)
LEMMA HandleInvStep ==
    ASSUME SyncInv, NEW p \in Peer, HandleInv(p)
    PROVE  SyncInv' /\ Kept
<1>1. /\ UNCHANGED <<schedVars, tpc, ready, todo, handler, ibdQueue>>
      /\ UNCHANGED <<peers, leaving, expected, conn, headers>> /\ headersDue' = headersDue
      /\ fastSyncNext' = fastSyncNext
      /\ blocksDue' = blocksDue \/ Getdata(p, Ascending(MainHeight + 1, Has[p]))
  BY DEF HandleInv, tickVars, peerVars, chainVars, fastVars
<1>2. conn \in Nat /\ ForkHeight \in Nat /\ Has[p] \in Int
  <2>1. /\ MaxHeight \in Nat /\ conn \in 0..MaxHeight /\ ForkHeight \in 0..MaxHeight
        /\ Has[p] \in 0..MaxHeight
    BY SchedulerAssumption, SyncAssumption DEF SyncInv, ChainOK, Heights
  <2> QED BY SMT, <2>1
<1>3. MainHeight \in Nat
  BY <1>2 DEF MainHeight
<1>4. MainHeight + 1 \in Nat
  BY SMT, <1>3
<1>5. Ascending(MainHeight + 1, Has[p]) \in Seq(Nat)
  BY <1>2, <1>4, AscendingFacts
<1>6. blocksDue' \in [Peer -> Seq(Heights)]
  BY <1>1, <1>5, GetdataFacts DEF SyncInv, NetOK
<1> QED BY <1>1, <1>6, IdleStep DEF SyncInv, NetOK

(* Peers come and go, and messages are lost.                               *)
LEMMA ConnectStep ==
    ASSUME SyncInv, NEW p \in Peer, Connect(p)
    PROVE  SyncInv' /\ Kept
<1>1. /\ UNCHANGED schedVars /\ UNCHANGED <<tpc, ready, todo, handler, ibdQueue>>
      /\ UNCHANGED <<leaving, conn, headers>> /\ blocksDue' = blocksDue /\ headersDue' = headersDue
      /\ fastSyncNext' = fastSyncNext /\ expected' = expected \ {p} /\ peers' = peers \union {p}
  BY DEF Connect, tickVars, chainVars, fastVars, netVars
<1>2. PeerOK'
  BY <1>1 DEF SyncInv, PeerOK
<1>3. SchedOK' /\ Tracked' = Tracked
  BY <1>1, SameSched DEF SyncInv, Tracked
<1> QED BY <1>1, <1>2, <1>3, SameRest, PartsKept DEF SyncInv

(* A peer goes off the map.                                                *)
LEMMA DisconnectStep ==
    ASSUME SyncInv, NEW p \in Peer, Disconnect(p)
    PROVE  SyncInv' /\ Kept
<1>1. /\ UNCHANGED schedVars /\ UNCHANGED <<tpc, ready, todo, handler, ibdQueue>>
      /\ UNCHANGED <<expected, conn, headers>> /\ fastSyncNext' = fastSyncNext
      /\ blocksDue' = [blocksDue EXCEPT ![p] = <<>>] /\ headersDue' = [headersDue EXCEPT ![p] = -1]
      /\ peers' = peers \ {p} /\ leaving' = leaving \union {p} /\ p \in leaving \union MayLeave
  BY DEF Disconnect, tickVars, chainVars, fastVars
<1>2. PeerOK'
  BY <1>1 DEF SyncInv, PeerOK
<1>3. NetOK'
  <2>1. <<>> \in Seq(Heights) /\ -1 \in Int
    BY SMT
  <2> QED BY <1>1, <2>1 DEF SyncInv, NetOK
<1>4. SchedOK' /\ Tracked' = Tracked
  BY <1>1, SameSched DEF SyncInv, Tracked
<1> QED BY <1>1, <1>2, <1>3, <1>4, SameRest, PartsKept DEF SyncInv

(* A peer that left is removed from the scheduler.                         *)
LEMMA CleanupStep ==
    ASSUME SyncInv, NEW p \in Peer, Cleanup(p)
    PROVE  SyncInv' /\ Kept
<1>1. /\ UNCHANGED <<tpc, ready, todo, handler, ibdQueue>>
      /\ UNCHANGED <<peers, expected, conn, headers>> /\ fastSyncNext' = fastSyncNext
      /\ blocksDue' = blocksDue /\ headersDue' = headersDue /\ leaving' = leaving \ {p}
      /\ RemovePeer(p) \/ UNCHANGED schedVars
  BY DEF Cleanup, tickVars, chainVars, netVars
<1>2. PeerOK'
  BY <1>1 DEF SyncInv, PeerOK
<1>3. SchedOK' /\ Tracked' = Tracked
  BY <1>1, SameSched, RemoveFacts DEF SyncInv, Tracked
<1> QED BY <1>1, <1>2, <1>3, SameRest, PartsKept DEF SyncInv

(* A message is lost.                                                      *)
LEMMA LoseStep ==
    ASSUME SyncInv, NEW p \in Peer, Lose(p)
    PROVE  SyncInv' /\ Kept
<1>1. /\ UNCHANGED <<schedVars, tpc, ready, todo, handler, ibdQueue>>
      /\ UNCHANGED <<peers, leaving, expected, conn, headers>> /\ fastSyncNext' = fastSyncNext
      /\ headersDue' = headersDue \/ headersDue' = [headersDue EXCEPT ![p] = -1]
      /\ \/ blocksDue' = blocksDue
         \/ \E i \in DOMAIN blocksDue[p] : blocksDue' = [blocksDue EXCEPT ![p] = At(@, DOMAIN @ \ {i})]
  BY DEF Lose, tickVars, peerVars, chainVars, fastVars
<1>2. headersDue' \in [Peer -> Int]
  <2>1. -1 \in Int
    BY SMT
  <2> QED BY <1>1, <2>1 DEF SyncInv, NetOK
<1>3. blocksDue' \in [Peer -> Seq(Heights)]
  <2>1. ASSUME NEW i \in DOMAIN blocksDue[p],
               blocksDue' = [blocksDue EXCEPT ![p] = At(@, DOMAIN @ \ {i})]
        PROVE  blocksDue' \in [Peer -> Seq(Heights)]
    <3> DEFINE s == blocksDue[p]
    <3>1. s \in Seq(Heights)
      BY DEF SyncInv, NetOK
    <3> HIDE DEF s
    <3>2. At(s, DOMAIN s \ {i}) \in Seq(Heights)
      BY SMT, <3>1, AtFacts
    <3> QED BY <2>1, <3>2 DEF SyncInv, NetOK, s
  <2> QED BY <1>1, <2>1 DEF SyncInv, NetOK
<1> QED BY <1>1, <1>2, <1>3, IdleStep DEF SyncInv, NetOK

-----------------------------------------------------------------------------
(* The inductive invariant.                                                *)

(* Every step keeps the invariant, and drops only what the tip has passed. *)
LEMMA NextSync ==
    ASSUME SyncInv, [Next]_vars
    PROVE  SyncInv' /\ Kept
<1>1. CASE Tick
  BY <1>1, InitialStep, HeaderPeerStep, HeaderProgressStep, HeadersDoneStep, SyncedStep,
     FastDoneStep, FastRequestStep, LegacyStep, TimeoutStep, DrainStep, ProcessReadyStep,
     ProgressStep, AssignStep, CompleteStep DEF Tick
<1>2. CASE TimedTick
  BY <1>2, HeaderStallStep, FastFallbackStep, StallStep DEF TimedTick
<1>3. CASE ProcessIBDBlock
  BY <1>3, QueueStep
<1>4. ASSUME NEW p \in Peer, PeerStep(p)
      PROVE  SyncInv' /\ Kept
  BY <1>4, ReceiveStep, FastBlockStep, SchedBlockStep, AssignBlockStep, DirectBlockStep,
     HandleHeadersStep, HandleInvStep, ConnectStep, DisconnectStep, CleanupStep, LoseStep
     DEF PeerStep, BlockStep
<1>5. CASE UNCHANGED vars
  <2>1. /\ UNCHANGED <<schedVars, tpc, ready, todo, handler, ibdQueue>>
        /\ UNCHANGED <<peers, leaving, expected, conn, headers>>
        /\ blocksDue' = blocksDue /\ headersDue' = headersDue /\ fastSyncNext' = fastSyncNext
    BY <1>5 DEF vars, tickVars, peerVars, chainVars, netVars, fastVars
  <2> QED BY <2>1, IdleStep DEF SyncInv, NetOK
<1> QED BY <1>1, <1>2, <1>3, <1>4, <1>5 DEF Next

(* The invariant holds in every behaviour.                                 *)
LEMMA SyncInvariant == Spec => []SyncInv
<1>1. Init => SyncInv
  BY InitSync
<1>2. SyncInv /\ [Next]_vars => SyncInv'
  BY NextSync
<1> QED BY <1>1, <1>2, PTL DEF Spec

(* The scheduler never loses a block: as long as it, or the tick that      *)
(* drained it, has block b, it has every block between the tip and b, for  *)
(* any peers, limits, timeouts, departures and faults.                     *)
THEOREM SchedulerNoHoles == Spec => []NoHoles
<1>1. SyncInv => NoHoles
  BY DEF SyncInv, TrackOK
<1> QED BY <1>1, SyncInvariant, PTL

(* However the sync loop and the message loops interleave, no block is     *)
(* asked of two peers or staged twice, and maxGlobalInFlight holds.        *)
THEOREM SchedulerOneRequest == Spec => []OneRequest
<1>1. SyncInv => OneRequest
  BY DEF SyncInv, SchedOK
<1> QED BY <1>1, SyncInvariant, PTL

(* Only a peer that sent a broken block is banned for it, whichever path   *)
(* the block took and however late it was processed.                       *)
THEOREM OnlyGuiltyLeave == Spec => []HonestPeersStay
<1>1. SyncInv => HonestPeersStay
  BY DEF SyncInv, PeerOK, HonestPeersStay
<1> QED BY <1>1, SyncInvariant, PTL

-----------------------------------------------------------------------------
(* The end of the block phase.                                             *)

(* In the block phase the scheduler still has every block between the tip  *)
(* and the header that the phase began with.                               *)
Covered ==
    hasScheduler /\ syncState = "BLOCK_SYNC" =>
        \A b \in (TipHeight + 1)..lastHeaderHeight : b \in Tracked

PhaseOK ==
    /\ lastHeaderHeight \in Nat /\ lastHeaderHeight <= BestHeaderHeight
    /\ hasScheduler => fastSyncFallback
    /\ tpc # "idle" => syncState = "BLOCK_SYNC" /\ hasScheduler
    /\ Covered

(* The kinds of step, for the phases: within one, into one that has no     *)
(* scheduler or does not use it, and to a new scheduler.                   *)
Within ==
    /\ UNCHANGED <<lastHeaderHeight, syncState, hasScheduler, fastSyncFallback>>
    /\ tpc' # "idle" => tpc # "idle" \/ (syncState = "BLOCK_SYNC" /\ hasScheduler)
Outside ==
    /\ lastHeaderHeight' \in {lastHeaderHeight, BestHeaderHeight}
    /\ syncState' # "BLOCK_SYNC" \/ ~hasScheduler'
    /\ hasScheduler' => fastSyncFallback'
    /\ tpc' = "idle"
    /\ syncState = "BLOCK_SYNC" => FastDoneTick \/ LegacyTick \/ CompleteTick
Anew ==
    /\ lastHeaderHeight' \in {lastHeaderHeight, BestHeaderHeight}
    /\ hasScheduler' /\ fastSyncFallback' /\ tpc' = tpc
    /\ syncState' = syncState \/ (tpc = "idle" /\ syncState' = "BLOCK_SYNC")
    /\ conn' = conn /\ \A b \in (TipHeight + 1)..BestHeaderHeight : b \in Tracked'

(* Every step is of one of these kinds.                                    *)
LEMMA PhaseSteps ==
    ASSUME SyncInv, PhaseOK, [Next]_vars
    PROVE  Within \/ Outside \/ Anew
<1> USE DEF headerVars, fastVars, tickVars
<1>1. ASSUME InitialTick \/ HeaderPeerTick \/ HeaderProgressTick
      PROVE  Outside
  <2>1. CASE InitialTick
    BY <2>1 DEF InitialTick, StartHeaderSync, Outside, PhaseOK
  <2>2. CASE HeaderPeerTick
    BY <2>2 DEF HeaderPeerTick, StartHeaderSync, Outside, PhaseOK
  <2>3. CASE HeaderProgressTick
    BY <2>3 DEF HeaderProgressTick, Outside, PhaseOK
  <2> QED BY <1>1, <2>1, <2>2, <2>3
<1>2. ASSUME HeadersDoneTick
      PROVE  Outside \/ Anew
  <2>1. /\ lastHeaderHeight' \in {lastHeaderHeight, BestHeaderHeight} /\ tpc = "idle" /\ tpc' = tpc
        /\ UNCHANGED <<ready, conn, headers>> /\ syncState = "HEADER_SYNC" /\ syncState' = "BLOCK_SYNC"
    BY <1>2 DEF HeadersDoneTick, chainVars
  <2>2. CASE NewScheduler /\ fastSyncFallback' = TRUE
    BY <2>1, <2>2, FreshFacts DEF NewScheduler, Anew
  <2>3. CASE ~fastSyncFallback /\ UNCHANGED <<fastSyncFallback, hasScheduler>>
    BY <2>1, <2>3 DEF Outside, PhaseOK
  <2> QED BY <1>2, <2>2, <2>3 DEF HeadersDoneTick
<1>3. ASSUME SyncedTick \/ FastDoneTick \/ LegacyTick
      PROVE  Within \/ Outside
  <2>1. CASE SyncedTick
    BY <2>1 DEF SyncedTick, Within, Outside, PhaseOK
  <2>2. CASE FastDoneTick
    BY <2>2 DEF FastDoneTick, FastTick, Outside, PhaseOK
  <2>3. CASE LegacyTick
    BY <2>3 DEF LegacyTick, Within, Outside, PhaseOK
  <2> QED BY <1>3, <2>1, <2>2, <2>3
<1>4. ASSUME FastRequestTick \/ TimeoutTick \/ DrainTick \/ ProcessReady \/ ProgressTick \/ AssignTick
      PROVE  Within
  <2>1. CASE FastRequestTick
    BY <2>1 DEF FastRequestTick, Within
  <2>2. CASE TimeoutTick
    BY <2>2 DEF TimeoutTick, Within
  <2>3. CASE DrainTick
    BY <2>3 DEF DrainTick, Within
  <2>4. CASE ProcessReady
    BY <2>4 DEF ProcessReady, Within
  <2>5. CASE ProgressTick
    BY <2>5 DEF ProgressTick, Within
  <2>6. CASE AssignTick
    BY <2>6 DEF AssignTick, Within
  <2> QED BY <1>4, <2>1, <2>2, <2>3, <2>4, <2>5, <2>6
<1>5. ASSUME CompleteTick
      PROVE  Within \/ Outside
  BY <1>5 DEF CompleteTick, Within, Outside, PhaseOK
<1>6. ASSUME FastFallbackTick
      PROVE  Anew
  <2>1. /\ lastHeaderHeight' = lastHeaderHeight /\ syncState' = syncState /\ tpc' = tpc
        /\ UNCHANGED <<ready, conn, headers>> /\ fastSyncFallback' = TRUE /\ NewScheduler
    BY <1>6 DEF FastFallbackTick, FastTick, chainVars
  <2> QED BY <2>1, FreshFacts DEF NewScheduler, Anew
<1>7. ASSUME HeaderStallTick \/ StallTick \/ ProcessIBDBlock
      PROVE  Within
  <2>1. CASE HeaderStallTick
    BY <2>1 DEF HeaderStallTick, Within
  <2>2. CASE StallTick
    BY <2>2 DEF StallTick, Within
  <2>3. CASE ProcessIBDBlock
    BY <2>3 DEF ProcessIBDBlock, Within
  <2> QED BY <1>7, <2>1, <2>2, <2>3
<1>8. ASSUME NEW p \in Peer, FastBlock(p)
      PROVE  Within \/ Anew
  <2> DEFINE r == Outcome(handler[p].block, handler[p].good)
  <2>1. /\ UNCHANGED <<lastHeaderHeight, syncState, tpc, ready, headers>>
        /\ ProcessBlock(handler[p].block, handler[p].good)
    BY <1>8 DEF FastBlock
  <2>2. CASE UNCHANGED <<fastSyncFallback, hasScheduler>>
    BY <2>1, <2>2 DEF Within
  <2>3. CASE r \in {"orphan", "invalid"} /\ fastSyncFallback' = TRUE /\ NewScheduler
    <3>1. conn' = conn
      BY <2>1, <2>3, HandlerFacts, ProcessFacts DEF SyncInv
    <3> QED BY <2>1, <2>3, <3>1, FreshFacts DEF NewScheduler, Anew
  <2> QED BY <1>8, <2>2, <2>3 DEF FastBlock
<1>9. ASSUME NEW p \in Peer, SchedBlock(p) \/ AssignBlock(p) \/ DirectBlock(p)
      PROVE  Within
  <2>1. CASE SchedBlock(p)
    BY <2>1 DEF SchedBlock, Within
  <2>2. CASE AssignBlock(p)
    BY <2>2 DEF AssignBlock, Within
  <2>3. CASE DirectBlock(p)
    BY <2>3 DEF DirectBlock, Within
  <2> QED BY <1>9, <2>1, <2>2, <2>3
<1>10. ASSUME NEW p \in Peer, \/ \E good \in BOOLEAN : Receive(p, good)
                              \/ HandleHeaders(p) \/ HandleInv(p)
       PROVE  Within
  <2>1. CASE \E good \in BOOLEAN : Receive(p, good)
    BY <2>1 DEF Receive, Within
  <2>2. CASE HandleHeaders(p)
    BY <2>2 DEF HandleHeaders, Within
  <2>3. CASE HandleInv(p)
    BY <2>3 DEF HandleInv, Within
  <2> QED BY <1>10, <2>1, <2>2, <2>3
<1>11. ASSUME NEW p \in Peer, Connect(p) \/ Disconnect(p) \/ Cleanup(p) \/ Lose(p)
       PROVE  Within
  <2>1. CASE Connect(p)
    BY <2>1 DEF Connect, Within
  <2>2. CASE Disconnect(p)
    BY <2>2 DEF Disconnect, Within
  <2>3. CASE Cleanup(p)
    BY <2>3 DEF Cleanup, Within
  <2>4. CASE Lose(p)
    BY <2>4 DEF Lose, Within
  <2> QED BY <1>11, <2>1, <2>2, <2>3, <2>4
<1>12. CASE UNCHANGED vars
  BY <1>12 DEF vars, Within
<1> QED BY <1>1, <1>2, <1>3, <1>4, <1>5, <1>6, <1>7, <1>8, <1>9, <1>10, <1>11, <1>12
        DEF Next, Tick, TimedTick, PeerStep, BlockStep

(* Every step keeps the scheduler's hold on the phase.                     *)
LEMMA NextPhase ==
    ASSUME SyncInv, PhaseOK, [Next]_vars
    PROVE  PhaseOK'
<1>1. SyncInv' /\ Kept
  BY NextSync
<1>2. /\ ChainOK /\ ChainOK' /\ conn <= conn' /\ headers <= headers'
  BY <1>1 DEF SyncInv, Kept
<1>3. /\ TipHeight \in Nat /\ TipHeight' \in Nat /\ TipHeight <= TipHeight' /\ conn' <= TipHeight'
      /\ BestHeaderHeight \in Nat /\ BestHeaderHeight' \in Nat
      /\ BestHeaderHeight <= BestHeaderHeight' /\ conn' \in Nat
      /\ lastHeaderHeight \in Nat /\ lastHeaderHeight <= BestHeaderHeight
  <2>1. conn' \in Nat
    BY SMT, <1>2, SchedulerAssumption DEF ChainOK, Heights
  <2> QED BY <1>2, <2>1, TipFacts, TipNext DEF PhaseOK
<1>4. lastHeaderHeight' \in {lastHeaderHeight, BestHeaderHeight} =>
         /\ lastHeaderHeight' \in Nat /\ lastHeaderHeight' <= BestHeaderHeight
         /\ lastHeaderHeight' <= BestHeaderHeight'
  BY SMT, <1>3
<1>5. ASSUME NEW l \in Nat, l <= BestHeaderHeight, NEW b \in (TipHeight' + 1)..l
      PROVE  /\ b \in (TipHeight + 1)..l /\ b \in (TipHeight + 1)..BestHeaderHeight
             /\ ~(b <= conn')
  <2> DEFINE t == TipHeight
             u == TipHeight'
             c == conn'
             h == BestHeaderHeight
  <2>1. /\ t \in Nat /\ u \in Nat /\ c \in Nat /\ h \in Nat /\ t <= u /\ c <= u /\ l <= h
        /\ b \in (u + 1)..l
    BY <1>3, <1>5
  <2> HIDE DEF t, u, c, h
  <2>2. b \in (t + 1)..l /\ b \in (t + 1)..h /\ ~(b <= c)
    BY SMT, <2>1
  <2> QED BY <2>2 DEF t, c, h
<1>6. CASE Within
  <2>1. Covered'
    <3>1. SUFFICES ASSUME hasScheduler, syncState = "BLOCK_SYNC",
                          NEW b \in (TipHeight' + 1)..lastHeaderHeight
                   PROVE  b \in Tracked'
      BY <1>6 DEF Covered, Within
    <3>2. /\ b \in (TipHeight + 1)..lastHeaderHeight /\ b \in (TipHeight + 1)..BestHeaderHeight
          /\ ~(b <= conn')
      BY <1>3, <1>5
    <3>3. b \in Tracked
      BY <3>1, <3>2 DEF PhaseOK, Covered
    <3>4. syncState' = "BLOCK_SYNC"
      BY <1>6, <3>1 DEF Within
    <3> QED BY <1>1, <3>2, <3>3, <3>4 DEF Kept
  <2> QED BY <1>4, <1>6, <2>1 DEF PhaseOK, Within
<1>7. CASE Outside
  BY <1>4, <1>7 DEF PhaseOK, Outside, Covered
<1>8. CASE Anew
  <2>1. Covered'
    <3>1. SUFFICES ASSUME NEW b \in (TipHeight' + 1)..lastHeaderHeight'
                   PROVE  b \in Tracked'
      BY DEF Covered
    <3>2. b \in (TipHeight + 1)..BestHeaderHeight
      BY <1>4, <1>5, <1>8 DEF Anew
    <3> QED BY <1>8, <3>2 DEF Anew
  <2> QED BY <1>4, <1>8, <2>1 DEF PhaseOK, Anew
<1> QED BY <1>6, <1>7, <1>8, PhaseSteps

(* SYNCED is reported only when the tip has reached the header that the    *)
(* block phase began with: the scheduler is complete only once all it was  *)
(* given is connected, even if a slow message loop replaces it meanwhile.  *)
THEOREM SyncedWhenConnected == Spec => SyncedAtHeaders
<1> DEFINE Step == syncState = "BLOCK_SYNC" /\ syncState' = "SYNCED"
                     /\ (hasScheduler \/ fastSyncPeer # NoPeer) => TipHeight >= lastHeaderHeight
<1>1. Init => PhaseOK
  <2> SUFFICES ASSUME Init PROVE PhaseOK
    OBVIOUS
  <2>1. /\ lastHeaderHeight = 0 /\ hasScheduler = FALSE /\ tpc = "idle" /\ ChainOK
    BY InitSync DEF Init, SyncInv
  <2>2. lastHeaderHeight \in Nat /\ lastHeaderHeight <= BestHeaderHeight
    BY SMT, <2>1, TipFacts
  <2> QED BY <2>1, <2>2 DEF PhaseOK, Covered
<1>2. SyncInv /\ PhaseOK /\ [Next]_vars => PhaseOK'
  BY NextPhase
<1>3. ASSUME SyncInv, PhaseOK, Next, syncState = "BLOCK_SYNC", syncState' = "SYNCED",
             hasScheduler \/ fastSyncPeer # NoPeer
      PROVE  TipHeight >= lastHeaderHeight
  <2>1. /\ TipHeight \in Nat /\ BestHeaderHeight \in Nat /\ lastHeaderHeight \in Nat
        /\ lastHeaderHeight <= BestHeaderHeight
    BY <1>3, TipFacts DEF SyncInv, PhaseOK
  <2>2. FastDoneTick \/ CompleteTick
    <3>1. ~Within /\ ~Anew
      BY <1>3 DEF Within, Anew
    <3>2. Outside
      BY <1>3, <3>1, PhaseSteps
    <3>3. ~LegacyTick
      BY <1>3 DEF LegacyTick
    <3> QED BY <1>3, <3>2, <3>3 DEF Outside
  <2>3. CASE FastDoneTick
    <3>1. TipHeight >= BestHeaderHeight
      BY <2>3 DEF FastDoneTick
    <3> QED BY SMT, <2>1, <3>1
  <2>4. CASE CompleteTick
    <3>1. tpc = "assign" /\ needed = <<>> /\ inFlight = {} /\ staging = {}
      BY <1>3, <2>4 DEF CompleteTick, IsComplete
    <3>2. ready = <<>> /\ hasScheduler
      BY <1>3, <3>1 DEF SyncInv, ReadyOK, PhaseOK
    <3>3. Range(<<>>) = {}
      BY SMT DEF Range
    <3>4. Blocks({}) = {}
      BY DEF Blocks
    <3>5. Tracked = {}
      BY <3>1, <3>2, <3>3, <3>4 DEF Tracked, ExpectedHashes
    <3>6. \A b \in (TipHeight + 1)..lastHeaderHeight : FALSE
      BY <1>3, <3>2, <3>5 DEF PhaseOK, Covered
    <3>7. ~(TipHeight >= lastHeaderHeight) => lastHeaderHeight \in (TipHeight + 1)..lastHeaderHeight
      BY SMT, <2>1
    <3> QED BY <3>6, <3>7
  <2> QED BY <2>2, <2>3, <2>4
<1>4. SyncInv /\ PhaseOK /\ [Next]_vars => [Step]_vars
  BY <1>3
<1> QED BY <1>1, <1>2, <1>4, SyncInvariant, PTL DEF Spec, SyncedAtHeaders

-----------------------------------------------------------------------------
(* One place for each block.                                               *)

(* A fast sync block that fails, and so replaces the scheduler, does so    *)
(* while the sync loop has no drained blocks in hand.  The loop drains only*)
(* after fast sync is given up or done, so this can fail only if that      *)
(* happens, and other peers deliver what the scheduler then asks for, while*)
(* a message loop is still busy with its fast sync block.                  *)
FastSettled ==
    \A p \in Peer : handler[p].route = "fast" /\ ready # <<>> =>
        Outcome(handler[p].block, handler[p].good) \notin {"orphan", "invalid"}

(* A step that moves no block.                                             *)
LEMMA NothingMoved ==
    ASSUME PlacedOK, UNCHANGED <<needed, inFlight, staging, ready>>
    PROVE  PlacedOK'
BY DEF PlacedOK

(* At the start there is no block in any place.                            *)
LEMMA InitPlaced == Init => PlacedOK
BY NothingApart DEF Init, NoScheduler, PlacedOK

(* The steps of the sync loop.                                             *)
LEMMA TickPlaced ==
    ASSUME SyncInv, PlacedOK, Tick \/ TimedTick
    PROVE  PlacedOK'
<1> USE DEF schedVars, tickVars
<1>1. tpc # "process" => ready = <<>>
  BY DEF SyncInv, ReadyOK
<1>2. ASSUME InitialTick \/ HeaderPeerTick \/ HeaderProgressTick \/ HeaderStallTick
      PROVE  PlacedOK'
  <2>1. UNCHANGED <<needed, inFlight, staging, ready>>
    BY <1>2 DEF InitialTick, HeaderPeerTick, HeaderProgressTick, HeaderStallTick
  <2> QED BY <2>1, NothingMoved
<1>3. ASSUME FastDoneTick \/ FastRequestTick \/ LegacyTick \/ ProgressTick \/ CompleteTick
      PROVE  PlacedOK'
  <2>1. UNCHANGED <<needed, inFlight, staging, ready>>
    BY <1>3 DEF FastDoneTick, FastRequestTick, LegacyTick, ProgressTick, CompleteTick
  <2> QED BY <2>1, NothingMoved
<1>4. ASSUME HeadersDoneTick
      PROVE  PlacedOK'
  <2>1. UNCHANGED <<ready, conn, headers>> /\ ready = <<>>
    BY <1>1, <1>4 DEF HeadersDoneTick, chainVars
  <2>2. CASE NewScheduler
    BY <2>1, <2>2, FreshFacts DEF NewScheduler
  <2>3. CASE UNCHANGED schedVars
    BY <2>1, <2>3, NothingMoved
  <2> QED BY <1>4, <2>2, <2>3 DEF HeadersDoneTick
<1>5. ASSUME FastFallbackTick \/ StallTick
      PROVE  PlacedOK'
  <2>1. CASE FastFallbackTick
    <3>1. UNCHANGED <<ready, conn, headers>> /\ tpc = "idle" /\ NewScheduler
      BY <2>1 DEF FastFallbackTick, FastTick, chainVars
    <3> QED BY <1>1, <3>1, FreshFacts DEF NewScheduler
  <2>2. CASE StallTick
    <3>1. UNCHANGED <<ready, conn, headers>> /\ ready = <<>> /\ Populate(TipHeight, BestHeaderHeight)
      BY <2>2 DEF StallTick, chainVars
    <3> QED BY <3>1, FreshFacts
  <2> QED BY <1>5, <2>1, <2>2
<1>6. ASSUME SyncedTick
      PROVE  PlacedOK'
  <2>1. ready' = ready /\ ready = <<>>
    BY <1>1, <1>6 DEF SyncedTick
  <2>2. CASE UNCHANGED schedVars
    BY <2>1, <2>2, NothingMoved
  <2>3. CASE needed' = <<>> /\ inFlight' = {} /\ staging' = {}
    BY <2>1, <2>3, NothingApart DEF PlacedOK
  <2> QED BY <1>6, <2>2, <2>3 DEF SyncedTick
<1>7. ASSUME TimeoutTick \/ AssignTick
      PROVE  PlacedOK'
  <2>1. ready' = ready /\ SchedOK
    BY <1>7 DEF TimeoutTick, AssignTick, SyncInv
  <2>2. CASE TimeoutTick
    <3>1. PICK overdue \in SUBSET inFlight : HandleTimeout(overdue)
      BY <2>2 DEF TimeoutTick
    <3> QED BY <2>1, <3>1, TimeoutFacts
  <2>3. CASE AssignTick
    <3>1. PICK p \in todo : Assign(p)
      BY <2>3 DEF AssignTick
    <3>2. p \in Peer
      BY <3>1 DEF SyncInv, PeerOK
    <3> QED BY <2>1, <3>1, <3>2, AssignParts
  <2> QED BY <1>7, <2>2, <2>3
<1>8. ASSUME DrainTick
      PROVE  PlacedOK'
  <2>1. DrainReady(headers) /\ ready' = Drained(headers) /\ SchedOK
    BY <1>8 DEF DrainTick, Drained, SyncInv
  <2>2. headers \in Nat
    BY SMT, SchedulerAssumption DEF SyncInv, ChainOK, Heights
  <2> QED BY <2>1, <2>2, DrainFacts
<1>9. ASSUME ProcessReady
      PROVE  PlacedOK'
  <2> DEFINE b == Head(ready).block
  <2>1. ready # <<>> /\ ready' = Tail(ready) /\ ready \in Seq(Delivered) /\ SchedOK
    BY <1>9 DEF ProcessReady, SyncInv, ReadyOK
  <2>2. UNCHANGED <<needed, inFlight, staging>> \/ RequeueBlock(b)
    BY <1>9 DEF ProcessReady
  <2>3. Head(ready) \in Delivered /\ \A x \in Range(ready') : x \in Range(ready)
    BY <2>1, HeadTail
  <2>4. b \in Heights
    BY <2>3 DEF Delivered
  <2>5. CASE RequeueBlock(b)
    BY <2>1, <2>4, <2>5, RequeueFacts
  <2>6. CASE UNCHANGED <<needed, inFlight, staging>>
    <3>1. OnlyOnce(ready')
      BY <2>1, TailOnce DEF PlacedOK
    <3>2. /\ Apart(Range(needed), Range(ready')) /\ Apart(inFlight, Range(ready'))
          /\ Apart(staging, Range(ready'))
      BY <2>3 DEF PlacedOK, Apart
    <3> QED BY <2>6, <3>1, <3>2 DEF PlacedOK
  <2> QED BY <2>2, <2>5, <2>6
<1> QED BY <1>2, <1>3, <1>4, <1>5, <1>6, <1>7, <1>8, <1>9 DEF Tick, TimedTick

(* The steps of the message loops.                                         *)
LEMMA PeerPlaced ==
    ASSUME SyncInv, PlacedOK, FastSettled, NEW p \in Peer, PeerStep(p)
    PROVE  PlacedOK'
<1> USE DEF schedVars, tickVars
<1>1. ASSUME \/ \E good \in BOOLEAN : Receive(p, good)
             \/ DirectBlock(p) \/ HandleHeaders(p) \/ HandleInv(p)
      PROVE  PlacedOK'
  <2>1. UNCHANGED <<needed, inFlight, staging, ready>>
    BY <1>1 DEF Receive, DirectBlock, HandleHeaders, HandleInv
  <2> QED BY <2>1, NothingMoved
<1>2. ASSUME Connect(p) \/ Disconnect(p) \/ Lose(p)
      PROVE  PlacedOK'
  <2>1. UNCHANGED <<needed, inFlight, staging, ready>>
    BY <1>2 DEF Connect, Disconnect, Lose
  <2> QED BY <2>1, NothingMoved
<1>3. ASSUME FastBlock(p)
      PROVE  PlacedOK'
  <2>1. /\ ready' = ready /\ headers' = headers /\ handler[p].route = "fast"
        /\ ProcessBlock(handler[p].block, handler[p].good)
    BY <1>3 DEF FastBlock
  <2>2. CASE UNCHANGED schedVars
    BY <2>1, <2>2, NothingMoved
  <2>3. CASE Outcome(handler[p].block, handler[p].good) \in {"orphan", "invalid"} /\ NewScheduler
    <3>1. conn' = conn
      BY <2>1, <2>3, HandlerFacts, ProcessFacts DEF SyncInv
    <3>2. ready = <<>>
      BY <2>1, <2>3 DEF FastSettled
    <3> QED BY <2>1, <2>3, <3>1, <3>2, FreshFacts DEF NewScheduler
  <2> QED BY <1>3, <2>2, <2>3 DEF FastBlock
<1>4. ASSUME SchedBlock(p)
      PROVE  PlacedOK'
  <2>1. ready' = ready
    BY <1>4 DEF SchedBlock
  <2>2. UNCHANGED schedVars \/ BlockReceived(handler[p].block, p, handler[p].good)
    BY <1>4 DEF SchedBlock
  <2> QED BY <2>1, <2>2, NothingMoved, HandedOver
<1>5. ASSUME AssignBlock(p)
      PROVE  PlacedOK'
  <2>1. ready' = ready /\ Assign(p)
    BY <1>5 DEF AssignBlock
  <2> QED BY <2>1, AssignParts
<1>6. ASSUME Cleanup(p)
      PROVE  PlacedOK'
  <2>1. ready' = ready /\ SchedOK /\ (RemovePeer(p) \/ UNCHANGED schedVars)
    BY <1>6 DEF Cleanup, SyncInv
  <2> QED BY <2>1, NothingMoved, RemoveFacts
<1> QED BY <1>1, <1>2, <1>3, <1>4, <1>5, <1>6 DEF PeerStep, BlockStep

(* Every step leaves each block in one place.                              *)
LEMMA NextPlaced ==
    ASSUME SyncInv, PlacedOK, FastSettled, [Next]_vars
    PROVE  PlacedOK'
<1>1. CASE ProcessIBDBlock \/ UNCHANGED vars
  <2>1. UNCHANGED <<needed, inFlight, staging, ready>>
    BY <1>1 DEF ProcessIBDBlock, vars, schedVars, tickVars
  <2> QED BY <2>1, NothingMoved
<1> QED BY <1>1, TickPlaced, PeerPlaced DEF Next

(* A block is queued once, or asked of one peer, or staged once, whatever  *)
(* timeouts, departures, flushes and rejections move it, as long as no     *)
(* failing fast sync block replaces the scheduler under the sync loop.     *)
THEOREM SchedulerOnePlace == Spec /\ []FastSettled => []OnePlace
<1>1. SyncInv /\ PlacedOK /\ FastSettled /\ [Next]_vars => PlacedOK'
  BY NextPlaced
<1>2. ASSUME SyncInv, PlacedOK
      PROVE  OnePlace
  <2>1. OneRequest
    BY <1>2 DEF SyncInv, SchedOK
  <2>2. \A i, j \in DOMAIN needed : needed[i].block = needed[j].block => i = j
    BY <1>2 DEF PlacedOK, OnlyOnce
  <2>3. ASSUME NEW A, NEW B, Apart(A, B), NEW b \in Blocks(A), b \in Blocks(B)
        PROVE  FALSE
    BY <2>3 DEF Apart, Blocks
  <2> QED BY <1>2, <2>1, <2>2, <2>3 DEF OnePlace, PlacedOK
<1>3. SyncInv /\ PlacedOK => OnePlace
  BY <1>2
<1> QED BY <1>1, <1>3, InitPlaced, SyncInvariant, PTL DEF Spec

=============================================================================
