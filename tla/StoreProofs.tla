----------------------------- MODULE StoreProofs -----------------------------
(***************************************************************************)
(* Durability for every number of blocks, sizes, checkpoints, write errors *)
(* and power losses: what was accepted with synced writes stays on the     *)
(* disk, a checkpoint is not lost, and what a process has stored it can    *)
(* read.                                                                   *)
(*                                                                         *)
(* A power loss may fall back to any version of a database, so the         *)
(* inductive invariant speaks about all of them: each is closed under      *)
(* parents, has the checkpoint, and holds every synced block.  The rest    *)
(* follows the call in progress from one write to the next.                *)
(***************************************************************************)
EXTENDS Store, SequenceTheorems, TLAPS

(* First-order steps; a leaf that needs arithmetic or functions cites SMT. *)
USE Zenon

Unit    == Block \X Nat
Height  == 0..Len(Size)
Rec     == [file : File, pos : Nat, undo : Nat \cup {-1}]
Version == [recs : [Block -> Rec \cup {NoRec}], tip : Height]

-----------------------------------------------------------------------------
(* The flat files, as a value.                                             *)
disk == [blk |-> blk, blkSynced |-> blkSynced, rev |-> rev, revSynced |-> revSynced]

IsDisk(d) ==
    /\ d.blk \in [File -> Seq(Unit)] /\ d.rev \in [File -> Seq(Block)]
    /\ d.blkSynced \in [File -> Nat] /\ d.revSynced \in [File -> Nat]
    /\ \A f \in File : d.blkSynced[f] <= Len(d.blk[f]) /\ d.revSynced[f] <= Len(d.rev[f])

(* A file has block b at position p, or its undo data at position u.       *)
FrameAt(s, b, p) == p + Size[b] <= Len(s) /\ SubSeq(s, p + 1, p + Size[b]) = Frame(b)
UndoAt(s, b, u) == u < Len(s) /\ s[u + 1] = b

(* Block b, and its undo data, can be read at the place that r gives, and  *)
(* a power loss does not change that.                                      *)
HasBlock(d, b, r) == r # NoRec /\ FrameAt(d.blk[r.file], b, r.pos)
HasUndo(d, b, r) == r # NoRec /\ r.undo # -1 /\ UndoAt(d.rev[r.file], b, r.undo)

BlockSynced(d, b, r) == HasBlock(d, b, r) /\ r.pos + Size[b] <= d.blkSynced[r.file]
UndoSynced(d, b, r) == HasUndo(d, b, r) /\ r.undo < d.revSynced[r.file]
AllSynced(d, b, r) == BlockSynced(d, b, r) /\ UndoSynced(d, b, r)

(* s is a beginning of t, up to n.                                         *)
SameUpTo(n, s, t) == n <= Len(s) /\ n <= Len(t) /\ \A i \in 1..n : t[i] = s[i]

(* What writing does to the files, and what a power loss may.              *)
Grows(d, e) == \A f \in File :
    /\ SameUpTo(Len(d.blk[f]), d.blk[f], e.blk[f]) /\ d.blkSynced[f] <= e.blkSynced[f]
    /\ SameUpTo(Len(d.rev[f]), d.rev[f], e.rev[f]) /\ d.revSynced[f] <= e.revSynced[f]

Outlasts(d, e) == \A f \in File :
    /\ SameUpTo(d.blkSynced[f], d.blk[f], e.blk[f]) /\ d.blkSynced[f] <= e.blkSynced[f]
    /\ SameUpTo(d.revSynced[f], d.rev[f], e.rev[f]) /\ d.revSynced[f] <= e.revSynced[f]

(* A part of a sequence.                                                   *)
Part(S, s, p, k, u) == u \in Seq(S) /\ Len(u) = k /\ \A i \in 1..k : u[i] = s[p + i]

(* It has the length and the elements asked for.                           *)
LEMMA PartIs ==
    ASSUME NEW S, NEW s \in Seq(S), NEW p \in Nat, NEW k \in Nat, p + k <= Len(s)
    PROVE  Part(S, s, p, k, SubSeq(s, p + 1, p + k))
BY SMT DEF Part

(* The framed block at the end of a file.                                  *)
LEMMA FrameAtEnd ==
    ASSUME NEW s \in Seq(Unit), NEW b \in Block
    PROVE  LET t == s \o Frame(b)
           IN  /\ t \in Seq(Unit) /\ Len(t) = Len(s) + Size[b] /\ Size[b] \in Nat
               /\ SameUpTo(Len(s), s, t)
               /\ FrameAt(t, b, Len(s))
<1>1. Size[b] \in Nat /\ Len(s) \in Nat
  BY FilesAssumption, LenProperties
<1>2. Frame(b) \in Seq(Unit) /\ Len(Frame(b)) = Size[b]
  BY SMT, <1>1 DEF Frame, Unit
<1> DEFINE g == Frame(b)
           t == s \o g
<1>3. /\ t \in Seq(Unit) /\ Len(t) = Len(s) + Size[b]
      /\ \A i \in 1..(Len(s) + Size[b]) : t[i] = IF i <= Len(s) THEN s[i] ELSE g[i - Len(s)]
  <2>1. /\ s \o g \in Seq(Unit) /\ Len(s \o g) = Len(s) + Len(g)
        /\ \A i \in 1..(Len(s) + Len(g)) :
              (s \o g)[i] = IF i <= Len(s) THEN s[i] ELSE g[i - Len(s)]
    BY <1>2, ConcatProperties
  <2>2. Len(g) = Size[b]
    BY <1>2
  <2> QED BY <2>1, <2>2
<1> HIDE DEF g, t
<1>4. /\ \A i \in 1..Len(s) : t[i] = s[i]
      /\ \A i \in 1..Size[b] : t[Len(s) + i] = g[i]
  <2>1. \A i \in 1..Len(s) : i \in 1..(Len(s) + Size[b]) /\ i <= Len(s)
    BY SMT, <1>1
  <2>2. \A i \in 1..Size[b] : /\ Len(s) + i \in 1..(Len(s) + Size[b]) /\ ~(Len(s) + i <= Len(s))
                             /\ (Len(s) + i) - Len(s) = i
    BY SMT, <1>1
  <2> QED BY <2>1, <2>2, <1>3
<1>5. SameUpTo(Len(s), s, t)
  BY SMT, <1>1, <1>3, <1>4 DEF SameUpTo
<1> DEFINE u == SubSeq(t, Len(s) + 1, Len(s) + Size[b])
<1>6. Len(s) + Size[b] <= Len(t)
  BY SMT, <1>1, <1>3
<1>7. u \in Seq(Unit) /\ Len(u) = Size[b] /\ \A i \in 1..Size[b] : u[i] = t[Len(s) + i]
  <2>1. t \in Seq(Unit) /\ Len(s) \in Nat /\ Size[b] \in Nat
    BY <1>1, <1>3
  <2>2. Part(Unit, t, Len(s), Size[b], u)
    BY <2>1, <1>6, PartIs
  <2> HIDE DEF u
  <2> QED BY <2>2 DEF Part
<1> HIDE DEF u
<1>8. u = g
  <2>1. g \in Seq(Unit) /\ Len(g) = Size[b]
    BY <1>2 DEF g
  <2>2. Len(u) = Len(g) /\ \A i \in 1..Len(u) : u[i] = g[i]
    BY <2>1, <1>4, <1>7
  <2> QED BY <2>1, <2>2, <1>7, SeqEqual
<1>9. FrameAt(t, b, Len(s))
  BY <1>6, <1>8 DEF FrameAt, u, g
<1> QED BY <1>1, <1>3, <1>5, <1>9 DEF t, g

(* A block, or undo data, in the common beginning of two files.            *)
LEMMA SameBlock ==
    ASSUME NEW s \in Seq(Unit), NEW t \in Seq(Unit), NEW n \in Nat, SameUpTo(n, s, t),
           NEW b \in Block, NEW p \in Nat, FrameAt(s, b, p), p + Size[b] <= n
    PROVE  FrameAt(t, b, p)
<1> DEFINE k == Size[b]
           u == SubSeq(s, p + 1, p + k)
           v == SubSeq(t, p + 1, p + k)
<1>1. k \in Nat /\ Len(s) \in Nat /\ Len(t) \in Nat
  BY FilesAssumption, LenProperties
<1>2. p + k <= Len(s) /\ p + k <= Len(t)
  BY SMT, <1>1 DEF SameUpTo
<1>3. u \in Seq(Unit) /\ Len(u) = k /\ \A i \in 1..k : u[i] = s[p + i]
  <2>1. Part(Unit, s, p, k, u)
    BY <1>1, <1>2, PartIs
  <2> HIDE DEF u
  <2> QED BY <2>1 DEF Part
<1>4. v \in Seq(Unit) /\ Len(v) = k /\ \A i \in 1..k : v[i] = t[p + i]
  <2>1. Part(Unit, t, p, k, v)
    BY <1>1, <1>2, PartIs
  <2> HIDE DEF v
  <2> QED BY <2>1 DEF Part
<1>5. \A i \in 1..k : t[p + i] = s[p + i]
  BY SMT, <1>1 DEF SameUpTo
<1>6. u = Frame(b)
  BY DEF FrameAt
<1> HIDE DEF u, v
<1>7. \A i \in 1..Len(v) : v[i] = u[i]
  BY <1>3, <1>4, <1>5
<1>8. v = u
  BY <1>3, <1>4, <1>7, SeqEqual
<1> QED BY <1>2, <1>6, <1>8 DEF v, FrameAt

(* The same for undo data.                                                 *)
LEMMA SameUndo ==
    ASSUME NEW s \in Seq(Block), NEW t \in Seq(Block), NEW n \in Nat, SameUpTo(n, s, t),
           NEW b \in Block, NEW u \in Nat, UndoAt(s, b, u), u < n
    PROVE  UndoAt(t, b, u)
BY SMT DEF SameUpTo, UndoAt

(* Writing keeps what can be read.                                         *)
LEMMA GrowthKeeps ==
    ASSUME NEW d, NEW e, IsDisk(d), IsDisk(e), Grows(d, e), NEW b \in Block,
           NEW r \in Rec \cup {NoRec}
    PROVE  /\ HasBlock(d, b, r) => HasBlock(e, b, r)
           /\ HasUndo(d, b, r) => HasUndo(e, b, r)
           /\ BlockSynced(d, b, r) => BlockSynced(e, b, r)
           /\ UndoSynced(d, b, r) => UndoSynced(e, b, r)
<1>1. CASE r = NoRec
  BY <1>1 DEF HasBlock, HasUndo, BlockSynced, UndoSynced
<1>2. CASE r # NoRec
  <2> DEFINE f == r.file
             p == r.pos
             u == r.undo
             ds == d.blk[f]
             es == e.blk[f]
             du == d.rev[f]
             eu == e.rev[f]
             dn == d.blkSynced[f]
             en == e.blkSynced[f]
             dm == d.revSynced[f]
             em == e.revSynced[f]
  <2>1. f \in File /\ p \in Nat /\ (u # -1 => u \in Nat) /\ Size[b] \in Nat
    BY SMT, <1>2, FilesAssumption DEF Rec
  <2>2. /\ ds \in Seq(Unit) /\ es \in Seq(Unit)
        /\ du \in Seq(Block) /\ eu \in Seq(Block)
        /\ dn \in Nat /\ en \in Nat
        /\ dm \in Nat /\ em \in Nat
    BY <2>1 DEF IsDisk
  <2>3. /\ SameUpTo(Len(ds), ds, es) /\ dn <= en
        /\ SameUpTo(Len(du), du, eu) /\ dm <= em
    BY <2>1 DEF Grows
  <2>4. Len(ds) \in Nat /\ Len(du) \in Nat
    BY <2>2, LenProperties
  <2>5. /\ HasBlock(d, b, r) => FrameAt(ds, b, p) /\ p + Size[b] <= Len(ds)
        /\ FrameAt(es, b, p) => HasBlock(e, b, r)
        /\ HasUndo(d, b, r) => u # -1 /\ UndoAt(du, b, u) /\ u < Len(du)
        /\ u # -1 /\ UndoAt(eu, b, u) => HasUndo(e, b, r)
        /\ BlockSynced(d, b, r) => HasBlock(d, b, r) /\ p + Size[b] <= dn
        /\ HasBlock(e, b, r) /\ p + Size[b] <= en => BlockSynced(e, b, r)
        /\ UndoSynced(d, b, r) => HasUndo(d, b, r) /\ u < dm
        /\ HasUndo(e, b, r) /\ u < em => UndoSynced(e, b, r)
    BY <1>2 DEF HasBlock, HasUndo, BlockSynced, UndoSynced, FrameAt, UndoAt
  <2> HIDE DEF f, p, u, ds, es, du, eu, dn, en, dm, em
  <2>6. HasBlock(d, b, r) => HasBlock(e, b, r)
    BY <2>1, <2>2, <2>3, <2>4, <2>5, SameBlock
  <2>7. HasUndo(d, b, r) => HasUndo(e, b, r)
    BY <2>1, <2>2, <2>3, <2>4, <2>5, SameUndo
  <2>8. /\ p + Size[b] <= dn => p + Size[b] <= en
        /\ u # -1 /\ u < dm => u < em
    BY SMT, <2>1, <2>2, <2>3
  <2> QED BY <2>5, <2>6, <2>7, <2>8
<1> QED BY <1>1, <1>2

(* A power loss keeps what is synced.                                      *)
LEMMA LossKeeps ==
    ASSUME NEW d, NEW e, IsDisk(d), IsDisk(e), Outlasts(d, e), NEW b \in Block,
           NEW r \in Rec \cup {NoRec}, AllSynced(d, b, r)
    PROVE  AllSynced(e, b, r)
<1> DEFINE f == r.file
           p == r.pos
           u == r.undo
           ds == d.blk[f]
           es == e.blk[f]
           du == d.rev[f]
           eu == e.rev[f]
           dn == d.blkSynced[f]
           en == e.blkSynced[f]
           dm == d.revSynced[f]
           em == e.revSynced[f]
<1>1. f \in File /\ p \in Nat /\ u \in Nat /\ u # -1 /\ Size[b] \in Nat /\ r # NoRec
  BY SMT, FilesAssumption DEF Rec, AllSynced, UndoSynced, HasUndo
<1>2. /\ ds \in Seq(Unit) /\ es \in Seq(Unit)
      /\ du \in Seq(Block) /\ eu \in Seq(Block)
      /\ dn \in Nat /\ en \in Nat
      /\ dm \in Nat /\ em \in Nat
  BY <1>1 DEF IsDisk
<1>3. /\ SameUpTo(dn, ds, es) /\ dn <= en
      /\ SameUpTo(dm, du, eu) /\ dm <= em
  BY <1>1 DEF Outlasts
<1>4. /\ p + Size[b] <= dn /\ u < dm
      /\ FrameAt(ds, b, p) /\ UndoAt(du, b, u)
  BY DEF AllSynced, BlockSynced, UndoSynced, HasBlock, HasUndo
<1>5. ASSUME FrameAt(es, b, p), p + Size[b] <= en, UndoAt(eu, b, u), u < em
      PROVE  AllSynced(e, b, r)
  BY <1>1, <1>5 DEF AllSynced, BlockSynced, UndoSynced, HasBlock, HasUndo
<1> HIDE DEF f, p, u, ds, es, du, eu, dn, en, dm, em
<1>6. FrameAt(es, b, p)
  BY <1>1, <1>2, <1>3, <1>4, SameBlock
<1>7. UndoAt(eu, b, u)
  BY <1>1, <1>2, <1>3, <1>4, SameUndo
<1>8. p + Size[b] <= en /\ u < em
  BY SMT, <1>1, <1>2, <1>3, <1>4
<1> QED BY <1>5, <1>6, <1>7, <1>8

-----------------------------------------------------------------------------
(* The operations on the files.                                            *)

FilesTyped ==
    /\ blk \in [File -> Seq(Unit)] /\ rev \in [File -> Seq(Block)]
    /\ blkSynced \in [File -> Nat] /\ revSynced \in [File -> Nat]
    /\ \A f \in File : blkSynced[f] <= Len(blk[f]) /\ revSynced[f] <= Len(rev[f])

FilesGrow == \A f \in File :
    /\ SameUpTo(Len(blk[f]), blk[f], blk'[f]) /\ blkSynced[f] <= blkSynced'[f]
    /\ SameUpTo(Len(rev[f]), rev[f], rev'[f]) /\ revSynced[f] <= revSynced'[f]

(* The files as variables and as a value.                                  *)
LEMMA DiskIs ==
    /\ IsDisk(disk) <=> FilesTyped
    /\ IsDisk(disk') <=> FilesTyped'
    /\ Grows(disk, disk') <=> FilesGrow
BY SMT DEF IsDisk, disk, FilesTyped, Grows, FilesGrow

(* The next block goes to the end of the last file that is not empty.      *)
FilesInv ==
    /\ FilesTyped /\ curFile \in File /\ curSize \in Nat
    /\ \A f \in File : f > curFile => Len(blk[f]) = 0
    /\ pc # "off" => curSize = Len(blk[curFile])

(* A file has as many units as its length says, and is a beginning of      *)
(* itself.                                                                 *)
LEMMA SameSelf == ASSUME NEW S, NEW s \in Seq(S) PROVE SameUpTo(Len(s), s, s)
BY SMT DEF SameUpTo

(* Syncing alone.                                                          *)
LEMMA SyncGrows ==
    ASSUME FilesTyped, UNCHANGED <<blk, rev>>,
           blkSynced' \in [File -> Nat], revSynced' \in [File -> Nat],
           \A f \in File : /\ blkSynced[f] <= blkSynced'[f] /\ blkSynced'[f] <= Len(blk[f])
                           /\ revSynced[f] <= revSynced'[f] /\ revSynced'[f] <= Len(rev[f])
    PROVE  FilesTyped' /\ FilesGrow
<1>1. FilesTyped'
  BY DEF FilesTyped
<1>2. \A f \in File : SameUpTo(Len(blk[f]), blk[f], blk'[f]) /\ SameUpTo(Len(rev[f]), rev[f], rev'[f])
  BY SameSelf DEF FilesTyped
<1> QED BY <1>1, <1>2 DEF FilesGrow

(* The position WriteBlock returns is the end of the file it writes to.    *)
LEMMA TargetIs ==
    ASSUME FilesInv, pc # "off", NEW b \in Block, TargetFile(b) \in File
    PROVE  /\ TargetPos(b) = Len(blk[TargetFile(b)]) /\ TargetPos(b) \in Nat
           /\ curFile <= TargetFile(b)
           /\ \A f \in File : f > TargetFile(b) => Len(blk[f]) = 0
<1>1. /\ curFile \in Int /\ curSize \in Nat /\ curSize = Len(blk[curFile])
      /\ \A f \in File : f > curFile => Len(blk[f]) = 0
      /\ \A f \in File : f \in Int
  BY SMT, FilesAssumption DEF FilesInv, File
<1>2. CASE Rotated(b)
  <2>1. TargetFile(b) = curFile + 1 /\ TargetPos(b) = 0
    BY <1>2 DEF TargetFile, TargetPos
  <2> QED BY SMT, <2>1, <1>1
<1>3. CASE ~Rotated(b)
  <2>1. TargetFile(b) = curFile /\ TargetPos(b) = curSize
    BY <1>3 DEF TargetFile, TargetPos
  <2> QED BY SMT, <2>1, <1>1
<1> QED BY <1>2, <1>3

(* WriteBlock and WriteBlockNoSync.                                        *)
LEMMA WriteBlockIs ==
    ASSUME FilesInv, pc # "off", NEW b \in Block, NEW sync \in BOOLEAN, WriteBlock(b, sync)
    PROVE  LET r == [file |-> TargetFile(b), pos |-> TargetPos(b), undo |-> -1]
           IN  /\ FilesTyped' /\ FilesGrow /\ curFile' \in File /\ curSize' \in Nat
               /\ \A f \in File : f > curFile' => Len(blk'[f]) = 0
               /\ curSize' = Len(blk'[curFile'])
               /\ r \in Rec /\ HasBlock(disk', b, r) /\ (sync => BlockSynced(disk', b, r))
<1> DEFINE f == TargetFile(b)
           s == blk[f]
           t == s \o Frame(b)
<1>1. /\ f \in File /\ blk' = [blk EXCEPT ![f] = t]
      /\ sync => blkSynced' = [blkSynced EXCEPT ![f] = Len(blk'[f])]
      /\ ~sync => blkSynced' = blkSynced
      /\ curFile' = f /\ curSize' = TargetPos(b) + Size[b]
      /\ rev' = rev /\ revSynced' = revSynced
  BY DEF WriteBlock
<1>2. /\ TargetPos(b) = Len(s) /\ TargetPos(b) \in Nat
      /\ \A g \in File : g > f => Len(blk[g]) = 0
      /\ FilesTyped /\ s \in Seq(Unit)
  BY <1>1, TargetIs DEF FilesInv, FilesTyped
<1>3. /\ t \in Seq(Unit) /\ Len(t) = Len(s) + Size[b] /\ Size[b] \in Nat
      /\ SameUpTo(Len(s), s, t) /\ FrameAt(t, b, Len(s))
  BY <1>2, FrameAtEnd
<1>4. /\ blk' \in [File -> Seq(Unit)] /\ blk'[f] = t
      /\ \A g \in File : g # f => blk'[g] = blk[g]
  BY <1>1, <1>3 DEF FilesTyped, FilesInv
<1> HIDE DEF f, s, t
<1>5. \A g \in File : SameUpTo(Len(blk[g]), blk[g], blk'[g])
  BY <1>2, <1>3, <1>4, SameSelf DEF FilesTyped, s
<1>6. blkSynced' \in [File -> Nat] /\ \A g \in File : g # f => blkSynced'[g] = blkSynced[g]
  <2>1. Len(blk'[f]) \in Nat
    BY <1>3, <1>4, LenProperties
  <2> QED BY <2>1, <1>1, <1>2 DEF FilesTyped
<1>7. sync => blkSynced'[f] = Len(t)
  BY <1>1, <1>2, <1>4 DEF FilesTyped
<1>8. \A g \in File : blkSynced[g] <= blkSynced'[g] /\ blkSynced'[g] <= Len(blk'[g])
  <2>1. blkSynced[f] <= blkSynced'[f] /\ blkSynced'[f] <= Len(blk'[f])
    <3>1. /\ blkSynced[f] \in Nat /\ blkSynced[f] <= Len(s) /\ Len(s) \in Nat
      BY <1>1, <1>2, LenProperties DEF FilesTyped, s
    <3>2. blkSynced'[f] = Len(t) \/ blkSynced'[f] = blkSynced[f]
      BY <1>1, <1>7
    <3> QED BY SMT, <3>1, <3>2, <1>3, <1>4
  <2>2. ASSUME NEW g \in File, g # f
        PROVE  blkSynced[g] <= blkSynced'[g] /\ blkSynced'[g] <= Len(blk'[g])
    <3>1. /\ blkSynced[g] \in Nat /\ blkSynced[g] <= Len(blk[g])
          /\ blkSynced'[g] = blkSynced[g] /\ blk'[g] = blk[g]
      BY <2>2, <1>2, <1>4, <1>6 DEF FilesTyped
    <3> QED BY SMT, <3>1
  <2> QED BY <2>1, <2>2
<1>9. FilesTyped' /\ FilesGrow
  <2>1. /\ \A g \in File : SameUpTo(Len(rev[g]), rev[g], rev'[g]) /\ revSynced[g] <= revSynced'[g]
    <3>1. \A g \in File : revSynced[g] \in Nat
      BY <1>2 DEF FilesTyped
    <3>2. \A g \in File : revSynced[g] <= revSynced'[g]
      BY SMT, <3>1, <1>1
    <3> QED BY <3>2, <1>1, <1>2, SameSelf DEF FilesTyped
  <2> QED BY <2>1, <1>1, <1>2, <1>4, <1>5, <1>6, <1>8 DEF FilesTyped, FilesGrow
<1>10. /\ curFile' \in File /\ curSize' \in Nat /\ curSize' = Len(blk'[curFile'])
  <2>1. curFile' = f /\ curSize' = Len(s) + Size[b] /\ Len(s) \in Nat
    BY <1>1, <1>2 DEF f, s
  <2>2. curSize' \in Nat /\ curSize' = Len(t)
    BY SMT, <2>1, <1>3
  <2> QED BY <2>1, <2>2, <1>1, <1>4
<1>11. \A g \in File : g > curFile' => Len(blk'[g]) = 0
  <2>1. \A g \in File : g > f => g # f
    BY SMT, <1>1, FilesAssumption DEF File
  <2> QED BY <2>1, <1>1, <1>2, <1>4
<1> DEFINE r == [file |-> f, pos |-> TargetPos(b), undo |-> -1]
<1>12. r \in Rec /\ r # NoRec /\ r.file = f /\ r.pos = Len(s)
  <2>1. f # -1
    BY SMT, <1>1, FilesAssumption DEF File
  <2> QED BY SMT, <2>1, <1>1, <1>2 DEF Rec, NoRec
<1>13. HasBlock(disk', b, r)
  <2>1. disk'.blk = blk'
    BY DEF disk
  <2> HIDE DEF r
  <2> QED BY <2>1, <1>3, <1>4, <1>12 DEF HasBlock
<1>14. sync => BlockSynced(disk', b, r)
  <2>1. disk'.blkSynced = blkSynced'
    BY DEF disk
  <2> HIDE DEF r
  <2>2. sync => r.pos + Size[b] <= disk'.blkSynced[r.file]
    <3>1. Len(s) \in Nat
      BY <1>2
    <3> QED BY SMT, <2>1, <3>1, <1>3, <1>7, <1>12
  <2> QED BY <2>2, <1>13 DEF BlockSynced
<1> QED BY <1>9, <1>10, <1>11, <1>12, <1>13, <1>14 DEF f

(* A failed write to a blk file changes at most what is synced.            *)
LEMMA WriteBlockFailsIs ==
    ASSUME FilesInv, pc # "off", NEW b \in Block, NEW sync \in BOOLEAN, WriteBlockFails(b, sync)
    PROVE  /\ FilesTyped' /\ FilesGrow /\ curFile' \in File /\ curSize' \in Nat
           /\ \A f \in File : f > curFile' => Len(blk'[f]) = 0
           /\ curSize' = Len(blk'[curFile'])
<1> DEFINE f == TargetFile(b)
<1>1. /\ f \in File /\ curFile' = f /\ curSize' = TargetPos(b)
      /\ blkSynced' = [blkSynced EXCEPT ![f] = Len(blk[f])] \/ blkSynced' = blkSynced
      /\ blk' = blk /\ rev' = rev /\ revSynced' = revSynced /\ FilesTyped
  BY DEF WriteBlockFails, FilesInv
<1>2. /\ TargetPos(b) = Len(blk[f]) /\ TargetPos(b) \in Nat
      /\ \A g \in File : g > f => Len(blk[g]) = 0
  BY <1>1, TargetIs
<1> HIDE DEF f
<1>3. \A g \in File : /\ blkSynced[g] \in Nat /\ blkSynced[g] <= Len(blk[g]) /\ Len(blk[g]) \in Nat
                      /\ revSynced[g] \in Nat /\ revSynced[g] <= Len(rev[g])
  BY <1>1, LenProperties DEF FilesTyped
<1>4. /\ blkSynced' \in [File -> Nat]
      /\ \A g \in File : blkSynced'[g] = blkSynced[g] \/ blkSynced'[g] = Len(blk[g])
  BY <1>1, <1>3 DEF FilesTyped
<1>5. \A g \in File : /\ blkSynced[g] <= blkSynced'[g] /\ blkSynced'[g] <= Len(blk[g])
                      /\ revSynced[g] <= revSynced'[g] /\ revSynced'[g] <= Len(rev[g])
  BY SMT, <1>1, <1>3, <1>4
<1>6. FilesTyped' /\ FilesGrow
  BY <1>1, <1>4, <1>5, SyncGrows DEF FilesTyped
<1> QED BY <1>1, <1>2, <1>6

(* WriteUndo and WriteUndoNoSync.                                          *)
LEMMA WriteUndoIs ==
    ASSUME FilesTyped, NEW b \in Block, NEW r \in Rec, NEW sync \in BOOLEAN,
           WriteUndo(b, r.file, sync)
    PROVE  LET q == [r EXCEPT !.undo = Len(rev[r.file])]
           IN  /\ FilesTyped' /\ FilesGrow
               /\ q \in Rec /\ q # NoRec /\ q.file = r.file /\ q.pos = r.pos /\ q.undo # -1
               /\ HasUndo(disk', b, q) /\ (sync => UndoSynced(disk', b, q))
<1> DEFINE f == r.file
           s == rev[f]
           t == Append(s, b)
           q == [r EXCEPT !.undo = Len(rev[r.file])]
<1>1. f \in File /\ r # NoRec /\ -1 \notin File /\ -1 \notin Nat
  BY SMT, FilesAssumption DEF Rec, NoRec, File
<1>2. /\ rev' = [rev EXCEPT ![f] = t]
      /\ sync => revSynced' = [revSynced EXCEPT ![f] = Len(rev'[f])]
      /\ ~sync => revSynced' = revSynced
      /\ blk' = blk /\ blkSynced' = blkSynced
  BY DEF WriteUndo
<1>3. s \in Seq(Block) /\ Len(s) \in Nat
  BY <1>1, LenProperties DEF FilesTyped
<1>4. /\ t \in Seq(Block) /\ Len(t) = Len(s) + 1 /\ SameUpTo(Len(s), s, t) /\ t[Len(s) + 1] = b
  BY SMT, <1>3 DEF SameUpTo
<1>5. q \in Rec /\ q.file = f /\ q.pos = r.pos /\ q.undo = Len(s)
  BY SMT, <1>3 DEF Rec
<1>6. q # NoRec /\ q.undo # -1
  <2>1. q.file # NoRec.file
    BY SMT, <1>1, <1>5 DEF NoRec
  <2> QED BY <2>1, <1>1, <1>3, <1>5
<1>7. rev' \in [File -> Seq(Block)] /\ rev'[f] = t /\ \A g \in File : g # f => rev'[g] = rev[g]
  BY <1>1, <1>2, <1>4 DEF FilesTyped
<1> HIDE DEF t, q
<1>8. \A g \in File : SameUpTo(Len(rev[g]), rev[g], rev'[g])
  BY <1>4, <1>7, SameSelf DEF FilesTyped
<1>9. /\ revSynced' \in [File -> Nat] /\ \A g \in File : g # f => revSynced'[g] = revSynced[g]
      /\ sync => revSynced'[f] = Len(t)
  <2>1. Len(rev'[f]) \in Nat /\ revSynced \in [File -> Nat]
    BY <1>4, <1>7, LenProperties DEF FilesTyped
  <2> HIDE DEF f
  <2>2. CASE sync
    <3>1. revSynced' = [revSynced EXCEPT ![f] = Len(rev'[f])]
      BY <2>2, <1>2
    <3> QED BY <3>1, <2>1, <1>1, <1>7
  <2>3. CASE ~sync
    BY <2>1, <2>3, <1>2
  <2> QED BY <2>2, <2>3
<1>10. \A g \in File : revSynced[g] <= revSynced'[g] /\ revSynced'[g] <= Len(rev'[g])
  <2>1. revSynced[f] <= revSynced'[f] /\ revSynced'[f] <= Len(rev'[f])
    <3>1. revSynced[f] \in Nat /\ revSynced[f] <= Len(s)
      BY <1>1 DEF FilesTyped
    <3>2. revSynced'[f] = Len(t) \/ revSynced'[f] = revSynced[f]
      BY <1>2, <1>9
    <3> HIDE DEF s, f
    <3> QED BY SMT, <3>1, <3>2, <1>3, <1>4, <1>7
  <2>2. ASSUME NEW g \in File, g # f
        PROVE  revSynced[g] <= revSynced'[g] /\ revSynced'[g] <= Len(rev'[g])
    <3>1. /\ revSynced[g] \in Nat /\ revSynced[g] <= Len(rev[g])
          /\ revSynced'[g] = revSynced[g] /\ rev'[g] = rev[g]
      BY <2>2, <1>7, <1>9 DEF FilesTyped
    <3> QED BY SMT, <3>1
  <2> QED BY <2>1, <2>2
<1>11. FilesTyped' /\ FilesGrow
  <2>1. \A g \in File : SameUpTo(Len(blk[g]), blk[g], blk'[g]) /\ blkSynced[g] <= blkSynced'[g]
    <3>1. \A g \in File : blkSynced[g] \in Nat
      BY DEF FilesTyped
    <3>2. \A g \in File : blkSynced[g] <= blkSynced'[g]
      BY SMT, <3>1, <1>2
    <3> QED BY <3>2, <1>2, SameSelf DEF FilesTyped
  <2> QED BY <2>1, <1>2, <1>7, <1>8, <1>9, <1>10 DEF FilesTyped, FilesGrow
<1>12. HasUndo(disk', b, q)
  <2>1. disk'.rev = rev'
    BY DEF disk
  <2>2. UndoAt(t, b, Len(s))
    BY SMT, <1>3, <1>4 DEF UndoAt
  <2> QED BY <2>1, <2>2, <1>5, <1>6, <1>7 DEF HasUndo
<1>13. sync => UndoSynced(disk', b, q)
  <2>1. disk'.revSynced = revSynced'
    BY DEF disk
  <2>2. Len(s) < Len(t)
    BY SMT, <1>3, <1>4
  <2> QED BY <2>1, <2>2, <1>5, <1>9, <1>12 DEF UndoSynced
<1> QED BY <1>5, <1>6, <1>11, <1>12, <1>13 DEF q

(* A failed write to a rev file, a checkpoint, and what a start finds:     *)
(* more is synced.                                                         *)
LEMMA SyncIs ==
    ASSUME FilesTyped, NEW f \in File,
           \/ \E sync \in BOOLEAN : WriteUndoFails(f, sync)
           \/ SyncAll
           \/ NewBlockFileManager
    PROVE  FilesTyped' /\ FilesGrow /\ UNCHANGED <<blk, rev, curFile>>
<1>1. \A g \in File : /\ blkSynced[g] \in Nat /\ blkSynced[g] <= Len(blk[g]) /\ Len(blk[g]) \in Nat
                      /\ revSynced[g] \in Nat /\ revSynced[g] <= Len(rev[g]) /\ Len(rev[g]) \in Nat
  BY LenProperties DEF FilesTyped
<1>2. UNCHANGED <<blk, rev, curFile>>
  BY DEF WriteUndoFails, SyncAll, NewBlockFileManager
<1>3. /\ blkSynced' \in [File -> Nat]
      /\ \A g \in File : blkSynced'[g] = blkSynced[g] \/ blkSynced'[g] = Len(blk[g])
  BY <1>1 DEF FilesTyped, WriteUndoFails, SyncAll, NewBlockFileManager
<1>4. /\ revSynced' \in [File -> Nat]
      /\ \A g \in File : revSynced'[g] = revSynced[g] \/ revSynced'[g] = Len(rev[g])
  BY <1>1 DEF FilesTyped, WriteUndoFails, SyncAll, NewBlockFileManager
<1>5. \A g \in File : /\ blkSynced[g] <= blkSynced'[g] /\ blkSynced'[g] <= Len(blk[g])
                      /\ revSynced[g] <= revSynced'[g] /\ revSynced'[g] <= Len(rev[g])
  <2>1. \A n, m, k \in Nat : n <= k /\ (m = n \/ m = k) => n <= m /\ m <= k
    BY SMT
  <2> QED BY <2>1, <1>1, <1>3, <1>4
<1>6. FilesTyped' /\ FilesGrow
  BY <1>2, <1>3, <1>4, <1>5, SyncGrows DEF FilesTyped
<1> QED BY <1>2, <1>6

(* What is synced is left when the power has failed.                       *)
LEMMA TailLostIs ==
    ASSUME FilesTyped, NEW f \in File, TailLost(f)
    PROVE  /\ FilesTyped' /\ Outlasts(disk, disk') /\ UNCHANGED <<curFile, curSize>>
           /\ \A g \in File : Len(blk'[g]) <= Len(blk[g])
<1>1. PICK n \in blkSynced[f]..Len(blk[f]), m \in revSynced[f]..Len(rev[f]) :
        /\ blk' = [blk EXCEPT ![f] = SubSeq(blk[f], 1, n)]
        /\ rev' = [rev EXCEPT ![f] = SubSeq(rev[f], 1, m)]
        /\ UNCHANGED <<blkSynced, revSynced, curFile, curSize>>
  BY DEF TailLost
<1>2. /\ blk[f] \in Seq(Unit) /\ rev[f] \in Seq(Block)
      /\ blkSynced[f] \in Nat /\ revSynced[f] \in Nat
  BY DEF FilesTyped
<1> DEFINE s == SubSeq(blk[f], 1, n)
           t == SubSeq(rev[f], 1, m)
<1>3. /\ s \in Seq(Unit) /\ Len(s) = n /\ n \in Nat /\ blkSynced[f] <= n /\ n <= Len(blk[f])
      /\ SameUpTo(blkSynced[f], blk[f], s)
  BY SMT, <1>2 DEF SameUpTo
<1>4. /\ t \in Seq(Block) /\ Len(t) = m /\ m \in Nat /\ revSynced[f] <= m /\ m <= Len(rev[f])
      /\ SameUpTo(revSynced[f], rev[f], t)
  BY SMT, <1>2 DEF SameUpTo
<1> HIDE DEF s, t
<1>5. /\ blk' \in [File -> Seq(Unit)] /\ blk'[f] = s /\ \A g \in File : g # f => blk'[g] = blk[g]
  BY <1>1, <1>3 DEF FilesTyped, s
<1>6. /\ rev' \in [File -> Seq(Block)] /\ rev'[f] = t /\ \A g \in File : g # f => rev'[g] = rev[g]
  BY <1>1, <1>4 DEF FilesTyped, t
<1>7. \A g \in File :
        /\ SameUpTo(blkSynced[g], blk[g], blk'[g]) /\ SameUpTo(revSynced[g], rev[g], rev'[g])
        /\ Len(blk'[g]) <= Len(blk[g])
  <2>1. ASSUME NEW g \in File, g # f
        PROVE  /\ SameUpTo(blkSynced[g], blk[g], blk'[g]) /\ SameUpTo(revSynced[g], rev[g], rev'[g])
               /\ Len(blk'[g]) <= Len(blk[g])
    <3>1. /\ blk'[g] = blk[g] /\ rev'[g] = rev[g] /\ blkSynced[g] \in Nat /\ revSynced[g] \in Nat
          /\ blkSynced[g] <= Len(blk[g]) /\ revSynced[g] <= Len(rev[g])
          /\ Len(blk[g]) \in Nat /\ Len(rev[g]) \in Nat
      BY <2>1, <1>5, <1>6, LenProperties DEF FilesTyped
    <3> QED BY SMT, <3>1 DEF SameUpTo
  <2> QED BY <2>1, <1>3, <1>4, <1>5, <1>6
<1>8. FilesTyped'
  <2>1. \A g \in File : blkSynced'[g] <= Len(blk'[g]) /\ revSynced'[g] <= Len(rev'[g])
    BY <1>1, <1>7 DEF SameUpTo
  <2> QED BY <2>1, <1>1, <1>5, <1>6 DEF FilesTyped
<1>9. Outlasts(disk, disk')
  <2>1. \A g \in File : blkSynced[g] <= blkSynced'[g] /\ revSynced[g] <= revSynced'[g]
    <3>1. \A g \in File : blkSynced[g] \in Nat /\ revSynced[g] \in Nat
      BY DEF FilesTyped
    <3> QED BY SMT, <3>1, <1>1
  <2>2. /\ disk.blk = blk /\ disk.rev = rev /\ disk.blkSynced = blkSynced
        /\ disk.revSynced = revSynced /\ disk'.blk = blk' /\ disk'.rev = rev'
        /\ disk'.blkSynced = blkSynced' /\ disk'.revSynced = revSynced'
    BY DEF disk
  <2> QED BY <2>1, <2>2, <1>7 DEF Outlasts
<1> QED BY <1>1, <1>7, <1>8, <1>9

-----------------------------------------------------------------------------
(* The versions of the block index that a power loss may fall back to: the *)
(* records are closed under parents and reach the tip, the tip is at the   *)
(* checkpoint or higher, and the blocks of s are there with all their      *)
(* bytes.                                                                  *)
Closed(v) ==
    /\ \A b \in 1..v.tip : v.recs[b] # NoRec
    /\ \A b \in Block : v.recs[b] # NoRec => \A c \in 1..b : v.recs[c] # NoRec

Kept(d, s, n) ==
    {v \in Version : /\ Closed(v) /\ n <= v.tip
                     /\ \A b \in s : b <= v.tip /\ AllSynced(d, b, v.recs[b])}

(* The blocks of s that have a record can be read.                         *)
Reads(d, s, v) == \A b \in s : v.recs[b] # NoRec =>
    HasBlock(d, b, v.recs[b]) /\ (v.recs[b].undo # -1 => HasUndo(d, b, v.recs[b]))

(* Blocks, heights and versions.                                           *)
LEMMA Blocks ==
    /\ Len(Size) \in Nat /\ Block = 1..Len(Size)
    /\ \A b \in Block : b \in Nat /\ b \in Height /\ b > 0
    /\ \A h \in Height : h \in Nat /\ (h # 0 => h \in Block) /\ \A b \in 1..h : b \in Block
    /\ \A b \in Block : \A c \in 1..b : c \in Block
    /\ NoRec \notin Rec /\ NoRec.undo = -1
<1>1. Len(Size) \in Nat /\ Block = 1..Len(Size)
  BY StoreAssumption, LenProperties
<1>2. NoRec \notin Rec /\ NoRec.undo = -1
  BY SMT, FilesAssumption DEF Rec, NoRec, File
<1>3. /\ \A b \in Block : b \in Nat /\ b \in Height /\ b > 0
      /\ \A h \in Height : h \in Nat /\ (h # 0 => h \in Block) /\ \A b \in 1..h : b \in Block
      /\ \A b \in Block : \A c \in 1..b : c \in Block
  BY SMT, <1>1 DEF Height
<1> QED BY <1>1, <1>2, <1>3

(* What a version is made of.                                              *)
LEMMA VersionIs ==
    ASSUME NEW v \in Version
    PROVE  /\ v.recs \in [Block -> Rec \cup {NoRec}] /\ v.tip \in Height
           /\ \A b \in Block : v.recs[b] \in Rec \cup {NoRec}
BY DEF Version

(* w is version v with record r for block b, or with another tip; db is a  *)
(* database whose latest version is v.                                     *)
RecordSet(v, b, r, w) ==
    /\ w \in Version /\ w.tip = v.tip /\ w.recs[b] = r
    /\ \A c \in Block : c # b => w.recs[c] = v.recs[c]

TipSet(v, t, w) == w \in Version /\ w.tip = t /\ w.recs = v.recs

IsDb(S, db, v) == db \in Seq(S) /\ Len(db) > 0 /\ Latest(db) = v

(* Writing one record.                                                     *)
LEMMA WithRecordIs ==
    ASSUME NEW v \in Version, NEW b \in Block, NEW r \in Rec \cup {NoRec}
    PROVE  RecordSet(v, b, r, [v EXCEPT !.recs[b] = r])
BY VersionIs DEF Version, RecordSet

(* Writing the tip.                                                        *)
LEMMA WithTipIs ==
    ASSUME NEW v \in Version, NEW t \in Height
    PROVE  TipSet(v, t, [v EXCEPT !.tip = t])
BY VersionIs DEF Version, TipSet

(* The versions after a write.                                             *)
LEMMA PutIs ==
    ASSUME NEW S, NEW db \in Seq(S), NEW v \in S, NEW sync \in BOOLEAN
    PROVE  /\ IsDb(S, Put(db, v, sync), v) /\ (sync => Len(Put(db, v, sync)) = 1)
BY SMT DEF Put, Latest, IsDb

(* A database of which everything is synced.                               *)
LEMMA SingleIs ==
    ASSUME NEW S, NEW v \in S
    PROVE  IsDb(S, <<v>>, v) /\ Len(<<v>>) = 1
BY SMT DEF Latest, IsDb

(* Its first and its latest version.                                       *)
LEMMA LatestIs ==
    ASSUME NEW S, NEW db \in Seq(S), Len(db) > 0
    PROVE  Latest(db) \in S /\ db[1] \in S /\ (Len(db) = 1 => db = <<Latest(db)>>)
BY SMT DEF Latest

(* Versions with a property have every weaker one.                         *)
LEMMA SeqWiden ==
    ASSUME NEW S, NEW T, S \subseteq T, NEW db \in Seq(S)
    PROVE  db \in Seq(T)
BY SMT

(* Writing and power losses keep a version that was kept.                  *)
LEMMA KeptStay ==
    ASSUME NEW d, NEW e, IsDisk(d), IsDisk(e), Grows(d, e) \/ Outlasts(d, e),
           NEW s \in SUBSET Block, NEW n
    PROVE  Kept(d, s, n) \subseteq Kept(e, s, n)
<1>1. ASSUME NEW v \in Version, NEW b \in s, AllSynced(d, b, v.recs[b])
      PROVE  AllSynced(e, b, v.recs[b])
  <2>1. b \in Block /\ v.recs[b] \in Rec \cup {NoRec}
    BY VersionIs
  <2>2. CASE Grows(d, e)
    BY <1>1, <2>1, <2>2, GrowthKeeps DEF AllSynced
  <2>3. CASE Outlasts(d, e)
    BY <1>1, <2>1, <2>3, LossKeeps
  <2> QED BY <2>2, <2>3
<1> QED BY <1>1 DEF Kept

(* Writing keeps what can be read.                                         *)
LEMMA ReadsStay ==
    ASSUME NEW d, NEW e, IsDisk(d), IsDisk(e), Grows(d, e), NEW s \in SUBSET Block,
           NEW v \in Version, Reads(d, s, v)
    PROVE  Reads(e, s, v)
<1> SUFFICES ASSUME NEW b \in s, v.recs[b] # NoRec
             PROVE  HasBlock(e, b, v.recs[b]) /\ (v.recs[b].undo # -1 => HasUndo(e, b, v.recs[b]))
  BY DEF Reads
<1>1. b \in Block /\ v.recs[b] \in Rec \cup {NoRec}
  BY VersionIs
<1>2. HasBlock(d, b, v.recs[b]) /\ (v.recs[b].undo # -1 => HasUndo(d, b, v.recs[b]))
  BY DEF Reads
<1> QED BY <1>1, <1>2, GrowthKeeps

(* Heights up to m are below what m is below.                              *)
LEMMA Below == \A m, k \in Nat : m < k => \A c \in 1..m : c < k /\ c # k
BY SMT

(* A record above the tip is written, with its parent's record there, or   *)
(* removed, with none above it.                                            *)
LEMMA KeptRecord ==
    ASSUME NEW d, NEW s \in SUBSET Block, NEW n, NEW v \in Kept(d, s, n),
           NEW b \in Block, NEW r \in Rec \cup {NoRec}, v.tip < b,
           \/ r # NoRec /\ \A c \in 1..(b - 1) : v.recs[c] # NoRec
           \/ r = NoRec /\ \A c \in Block : c > b => v.recs[c] = NoRec
    PROVE  [v EXCEPT !.recs[b] = r] \in Kept(d, s, n)
<1> DEFINE w == [v EXCEPT !.recs[b] = r]
<1>1. v \in Version /\ Closed(v) /\ n <= v.tip
  BY DEF Kept
<1>2. /\ w \in Version /\ w.tip = v.tip /\ w.recs[b] = r
      /\ \A c \in Block : c # b => w.recs[c] = v.recs[c]
  <2>1. RecordSet(v, b, r, w)
    BY <1>1, WithRecordIs
  <2> HIDE DEF w
  <2> QED BY <2>1 DEF RecordSet
<1> HIDE DEF w
<1>3. v.tip \in Nat /\ b \in Nat /\ \A c \in 1..v.tip : c \in Block /\ c # b /\ c < b
  <2>1. v.tip \in Nat /\ b \in Nat /\ \A c \in 1..v.tip : c \in Block
    BY <1>1, VersionIs, Blocks
  <2> QED BY <2>1, Below
<1>4. \A c \in 1..w.tip : w.recs[c] # NoRec
  BY <1>1, <1>2, <1>3 DEF Closed
<1>5. ASSUME NEW c \in Block, w.recs[c] # NoRec, NEW e \in 1..c
      PROVE  w.recs[e] # NoRec
  <2>1. e \in Block /\ e \in Nat /\ c \in Nat /\ e > 0 /\ e <= c
    <3>1. e \in Block /\ e \in Nat /\ c \in Nat
      BY Blocks
    <3> QED BY SMT, <3>1
  <2>2. CASE e = b /\ r # NoRec
    BY <2>2, <1>2
  <2>3. CASE e = b /\ r = NoRec
    <3>1. c # b
      BY <2>3, <1>2, <1>5
    <3>2. c > b
      BY SMT, <3>1, <2>1, <2>3
    <3> QED BY <3>1, <3>2, <2>3, <1>2, <1>5
  <2>4. CASE e # b /\ c = b
    <3>1. e \in 1..(b - 1)
      BY SMT, <2>1, <2>4
    <3>2. r # NoRec
      BY <2>4, <1>2, <1>5
    <3> QED BY <3>1, <3>2, <2>1, <2>4, <1>2
  <2>5. CASE e # b /\ c # b
    BY <2>1, <2>5, <1>1, <1>2, <1>5 DEF Closed
  <2> QED BY <2>2, <2>3, <2>4, <2>5
<1>6. \A c \in s : c <= w.tip /\ AllSynced(d, c, w.recs[c])
  <2>1. \A c \in s : c <= v.tip /\ AllSynced(d, c, v.recs[c]) /\ c \in Block
    BY DEF Kept
  <2>2. \A c \in s : c # b
    <3>1. \A c \in s : c \in Nat
      BY <2>1, Blocks
    <3>2. \A m, k, c \in Nat : m < k /\ c <= m => c # k
      BY SMT
    <3> QED BY <3>1, <3>2, <2>1, <1>3
  <2> QED BY <2>1, <2>2, <1>2
<1> QED BY <1>1, <1>2, <1>4, <1>5, <1>6 DEF Kept, Closed, w

(* The tip is raised to a block that has a record.                         *)
LEMMA KeptTip ==
    ASSUME NEW d, NEW s \in SUBSET Block, NEW n \in Nat, NEW v \in Kept(d, s, n), NEW t \in Height,
           v.tip <= t, \A b \in 1..t : v.recs[b] # NoRec
    PROVE  [v EXCEPT !.tip = t] \in Kept(d, s, n)
<1> DEFINE w == [v EXCEPT !.tip = t]
<1>1. v \in Version /\ Closed(v) /\ n <= v.tip
  BY DEF Kept
<1>2. w \in Version /\ w.tip = t /\ w.recs = v.recs
  <2>1. TipSet(v, t, w)
    BY <1>1, WithTipIs
  <2> HIDE DEF w
  <2> QED BY <2>1 DEF TipSet
<1> HIDE DEF w
<1>3. v.tip \in Nat /\ t \in Nat
  BY <1>1, VersionIs, Blocks
<1>4. n <= w.tip
  BY SMT, <1>1, <1>2, <1>3
<1>5. \A b \in s : b <= w.tip /\ AllSynced(d, b, w.recs[b])
  <2>1. \A b \in s : b <= v.tip /\ AllSynced(d, b, v.recs[b]) /\ b \in Nat
    BY Blocks DEF Kept
  <2>2. \A b \in s : b <= t
    BY SMT, <2>1, <1>3
  <2> QED BY <2>1, <2>2, <1>2
<1> QED BY <1>1, <1>2, <1>4, <1>5 DEF Kept, Closed, w

-----------------------------------------------------------------------------
(* The inductive invariant.  Every version of the two databases is one to  *)
(* fall back to.                                                           *)
Best(n) == {h \in Height : n <= h}

VersionsInv ==
    /\ flushed \in Nat /\ synced \in SUBSET Block /\ session \in SUBSET Block /\ tip \in Height
    /\ index \in Seq(Kept(disk, synced, flushed)) /\ Len(index) > 0
    /\ chainstate \in Seq(Best(flushed)) /\ Len(chainstate) > 0

(* No block is being stored.                                               *)
RestInv ==
    /\ pc \in {"idle", "syncFiles", "syncIndex", "syncUtxo"} /\ Latest(chainstate) = tip
    /\ pc = "syncUtxo" => Len(index) = 1

(* The next block is in the files, and then in the block index.            *)
WriteInv ==
    LET b == tip + 1
    IN  /\ pc \in {"undo", "index"} /\ Latest(chainstate) = tip
        /\ b \in Block /\ rec \in Rec /\ HasBlock(disk, b, rec)
        /\ ~ibdMode => BlockSynced(disk, b, rec)
        /\ pc = "index" => HasUndo(disk, b, rec) /\ (~ibdMode => UndoSynced(disk, b, rec))

ExtendInv ==
    LET b == tip + 1
        r == Latest(index).recs[b]
    IN  /\ pc \in {"utxo", "tip"}
        /\ pc = "utxo" => Latest(chainstate) = tip
        /\ pc = "tip" => Latest(chainstate) = b
        /\ b \in Block /\ r # NoRec
        /\ ~ibdMode => AllSynced(disk, b, r)

(* A reorganisation connects the block whose record outlived a power loss, *)
(* and the new block, which is synced.                                     *)
ReorgInv ==
    LET b == tip + 2
        r == Latest(index).recs[b]
    IN  /\ pc \in {"trial", "connect"}
        /\ b \in Block /\ Latest(index).recs[tip + 1] # NoRec /\ BlockSynced(disk, b, r)
        /\ pc = "trial" => /\ Latest(chainstate) = tip
                           /\ \A c \in Block : c > b => Latest(index).recs[c] = NoRec
        /\ pc = "connect" => tip <= Latest(chainstate) /\ Latest(chainstate) <= b
        /\ pc = "connect" /\ Latest(chainstate) = b => UndoSynced(disk, b, r)

CallInv ==
    /\ ibdMode \in BOOLEAN /\ Reads(disk, session, Latest(index))
    /\ \/ pc = "off" /\ session = {}
       \/ /\ pc # "off" /\ Latest(index).tip = tip
          /\ RestInv \/ WriteInv \/ ExtendInv \/ ReorgInv

StoreInv == FilesInv /\ VersionsInv /\ CallInv

(* What the invariant says of the latest versions.                         *)
LEMMA LatestKept ==
    ASSUME FilesInv, VersionsInv
    PROVE  LET v == Latest(index)
           IN  /\ v \in Kept(disk, synced, flushed) /\ v \in Version /\ Closed(v) /\ IsDisk(disk)
               /\ v.tip \in Nat /\ flushed <= v.tip /\ flushed \in Nat /\ tip \in Nat
               /\ Latest(chainstate) \in Height /\ Latest(chainstate) \in Nat
               /\ flushed <= Latest(chainstate)
               /\ session \in SUBSET Block /\ synced \in SUBSET Block
<1> DEFINE v == Latest(index)
<1>1. v \in Kept(disk, synced, flushed)
  BY LatestIs DEF VersionsInv
<1>2. v \in Version /\ Closed(v) /\ flushed <= v.tip
  BY <1>1 DEF Kept
<1>3. Latest(chainstate) \in Best(flushed)
  BY LatestIs DEF VersionsInv
<1>4. v.tip \in Nat /\ flushed \in Nat /\ tip \in Nat
  BY <1>2, VersionIs, Blocks DEF VersionsInv
<1>5. Latest(chainstate) \in Height /\ Latest(chainstate) \in Nat /\ flushed <= Latest(chainstate)
  BY <1>3, Blocks DEF Best
<1> QED BY <1>1, <1>2, <1>4, <1>5, DiskIs DEF FilesInv, VersionsInv

(* The records of a closed version are those up to some height.            *)
LEMMA ClosedUpTo ==
    ASSUME NEW v, Closed(v), NEW b \in Block, v.recs[b] # NoRec
    PROVE  \A c \in 1..b : v.recs[c] # NoRec
BY DEF Closed

(* A step that only writes to the files.                                   *)
LEMMA FilesStep ==
    ASSUME StoreInv, FilesTyped', FilesGrow, UNCHANGED <<databases, tip, ghosts>>
    PROVE  VersionsInv' /\ Reads(disk, session, Latest(index))'
<1>1. /\ UNCHANGED <<index, chainstate, tip, session, synced, flushed>>
      /\ FilesInv /\ VersionsInv /\ FilesTyped /\ Reads(disk, session, Latest(index))
  BY DEF databases, ghosts, StoreInv, FilesInv, CallInv
<1>2. IsDisk(disk) /\ IsDisk(disk') /\ Grows(disk, disk')
  BY <1>1, DiskIs
<1>3. Latest(index) \in Version /\ session \in SUBSET Block /\ synced \in SUBSET Block
  BY <1>1, LatestKept
<1>4. Reads(disk', session, Latest(index))
  BY <1>1, <1>2, <1>3, ReadsStay
<1>5. Kept(disk, synced, flushed) \subseteq Kept(disk', synced, flushed)
  BY <1>2, <1>3, KeptStay
<1>6. index \in Seq(Kept(disk', synced, flushed))
  BY <1>1, <1>5, SeqWiden DEF VersionsInv
<1>7. VersionsInv'
  BY <1>1, <1>6 DEF VersionsInv
<1>8. Latest(index)' = Latest(index)
  BY <1>1 DEF Latest
<1> QED BY <1>1, <1>4, <1>7, <1>8

(* A step that ends between two blocks.                                    *)
LEMMA RestStep ==
    ASSUME FilesInv', VersionsInv', ibdMode' \in BOOLEAN, Reads(disk, session, Latest(index))',
           pc' \in {"idle", "syncFiles", "syncIndex", "syncUtxo"},
           Latest(index').tip = tip', Latest(chainstate') = tip',
           pc' = "syncUtxo" => Len(index') = 1
    PROVE  StoreInv'
BY DEF StoreInv, CallInv, RestInv, Latest

-----------------------------------------------------------------------------
(* The writes of ProcessBlock.                                             *)

(* The files as they were.                                                 *)
LEMMA FilesSame ==
    ASSUME FilesInv, UNCHANGED files, pc # "off" \/ pc' = "off"
    PROVE  FilesInv' /\ disk' = disk /\ FilesTyped' /\ FilesGrow
<1>1. UNCHANGED <<blk, blkSynced, rev, revSynced, curFile, curSize>> /\ FilesTyped
  BY DEF files, FilesInv
<1>2. FilesInv' /\ FilesTyped'
  BY <1>1 DEF FilesInv, FilesTyped
<1>3. disk' = disk
  BY <1>1 DEF disk
<1>4. \A f \in File : blkSynced[f] \in Nat /\ revSynced[f] \in Nat
  BY <1>1 DEF FilesTyped
<1>5. \A f \in File : blkSynced[f] <= blkSynced'[f] /\ revSynced[f] <= revSynced'[f]
  BY SMT, <1>1, <1>4
<1>6. FilesGrow
  BY <1>1, <1>5, SameSelf DEF FilesTyped, FilesGrow
<1> QED BY <1>2, <1>3, <1>6

(* SetIBDMode writes nothing itself.                                       *)
LEMMA ModeStep ==
    ASSUME StoreInv, EnterIBD \/ LeaveIBD
    PROVE  StoreInv'
<1>1. /\ pc = "idle" /\ ibdMode' \in BOOLEAN /\ pc' \in {"idle", "syncFiles"}
      /\ UNCHANGED <<files, databases, tip, ghosts>>
  BY DEF EnterIBD, LeaveIBD
<1>2. FilesInv /\ Latest(chainstate) = tip /\ Latest(index).tip = tip
  BY <1>1 DEF StoreInv, CallInv, RestInv, WriteInv, ExtendInv, ReorgInv
<1>3. FilesInv' /\ FilesTyped' /\ FilesGrow
  BY <1>1, <1>2, FilesSame
<1>4. VersionsInv' /\ Reads(disk, session, Latest(index))'
  BY <1>1, <1>3, FilesStep
<1>5. Latest(index').tip = tip' /\ Latest(chainstate') = tip'
  BY <1>1, <1>2 DEF databases
<1> QED BY <1>1, <1>3, <1>4, <1>5, RestStep

(* The block goes to the blk file, where rec says.                         *)
LEMMA StoreBlockStep ==
    ASSUME StoreInv, StoreBlock
    PROVE  StoreInv'
<1> DEFINE b == tip + 1
           r == [file |-> TargetFile(b), pos |-> TargetPos(b), undo |-> -1]
<1>1. /\ pc = "idle" /\ b \in Block /\ WriteBlock(b, ~ibdMode) /\ rec' = r /\ pc' = "undo"
      /\ UNCHANGED <<index, chainstate, tip, ibdMode, session, synced, flushed>>
  BY DEF StoreBlock, databases, ghosts
<1>2. FilesInv /\ Latest(chainstate) = tip /\ Latest(index).tip = tip /\ ibdMode \in BOOLEAN
  BY <1>1 DEF StoreInv, CallInv, RestInv, WriteInv, ExtendInv, ReorgInv
<1>3. /\ FilesTyped' /\ FilesGrow /\ curFile' \in File /\ curSize' \in Nat
      /\ \A f \in File : f > curFile' => Len(blk'[f]) = 0
      /\ curSize' = Len(blk'[curFile'])
      /\ r \in Rec /\ HasBlock(disk', b, r) /\ (~ibdMode => BlockSynced(disk', b, r))
  <2>1. pc # "off" /\ (~ibdMode) \in BOOLEAN
    BY <1>1
  <2> QED BY <2>1, <1>1, <1>2, WriteBlockIs
<1> HIDE DEF r
<1>4. FilesInv'
  BY <1>3 DEF FilesInv
<1>5. VersionsInv' /\ Reads(disk, session, Latest(index))'
  BY <1>1, <1>3, FilesStep DEF databases, ghosts
<1>6. WriteInv'
  BY <1>1, <1>2, <1>3 DEF WriteInv, Latest
<1>7. CallInv'
  BY <1>1, <1>2, <1>5, <1>6 DEF CallInv, Latest
<1> QED BY <1>4, <1>5, <1>7 DEF StoreInv

(* Its undo data follow; the place of the block stays.                     *)
LEMMA StoreUndoStep ==
    ASSUME StoreInv, StoreUndo
    PROVE  StoreInv'
<1> DEFINE b == tip + 1
           q == [rec EXCEPT !.undo = Len(rev[rec.file])]
<1>1. /\ pc = "undo" /\ WriteUndo(b, rec.file, ~ibdMode) /\ rec' = q /\ pc' = "index"
      /\ UNCHANGED <<index, chainstate, tip, ibdMode, session, synced, flushed>>
  BY DEF StoreUndo, databases, ghosts
<1>2. FilesInv /\ FilesTyped /\ Latest(index).tip = tip /\ ibdMode \in BOOLEAN /\ WriteInv
  BY <1>1 DEF StoreInv, CallInv, RestInv, ExtendInv, ReorgInv, FilesInv
<1>3. /\ b \in Block /\ rec \in Rec /\ HasBlock(disk, b, rec) /\ Latest(chainstate) = tip
      /\ ~ibdMode => BlockSynced(disk, b, rec)
  BY <1>2 DEF WriteInv
<1>4. /\ FilesTyped' /\ FilesGrow
      /\ q \in Rec /\ q # NoRec /\ q.file = rec.file /\ q.pos = rec.pos
      /\ HasUndo(disk', b, q) /\ (~ibdMode => UndoSynced(disk', b, q))
  <2>1. (~ibdMode) \in BOOLEAN
    OBVIOUS
  <2> QED BY <2>1, <1>1, <1>2, <1>3, WriteUndoIs
<1> HIDE DEF q
<1>5. FilesInv'
  BY <1>1, <1>2, <1>4 DEF FilesInv, WriteUndo
<1>6. VersionsInv' /\ Reads(disk, session, Latest(index))'
  BY <1>1, <1>4, FilesStep DEF databases, ghosts
<1>7. /\ HasBlock(disk', b, rec) /\ (~ibdMode => BlockSynced(disk', b, rec))
  BY <1>2, <1>3, <1>4, DiskIs, GrowthKeeps
<1>8. /\ HasBlock(disk', b, q) /\ (~ibdMode => BlockSynced(disk', b, q))
  BY <1>4, <1>7 DEF HasBlock, BlockSynced
<1>9. WriteInv'
  BY <1>1, <1>3, <1>4, <1>8 DEF WriteInv, Latest
<1>10. CallInv'
  BY <1>1, <1>2, <1>6, <1>9 DEF CallInv, Latest
<1> QED BY <1>5, <1>6, <1>10 DEF StoreInv

(* A checkpoint syncs files that it leaves alone otherwise.                *)
LEMMA FlushFilesStep ==
    ASSUME StoreInv, FlushFiles
    PROVE  StoreInv'
<1>1. /\ pc = "syncFiles" /\ SyncAll /\ pc' = "syncIndex"
      /\ UNCHANGED <<index, chainstate, tip, ibdMode, session, synced, flushed>>
  BY DEF FlushFiles, databases, ghosts
<1>2. /\ FilesInv /\ FilesTyped /\ Latest(chainstate) = tip /\ Latest(index).tip = tip
      /\ ibdMode \in BOOLEAN
  BY <1>1 DEF StoreInv, CallInv, RestInv, WriteInv, ExtendInv, ReorgInv, FilesInv
<1>3. FilesTyped' /\ FilesGrow
  <2>1. curFile \in File
    BY <1>2 DEF FilesInv
  <2> QED BY <2>1, <1>1, <1>2, SyncIs
<1>4. FilesInv'
  BY <1>1, <1>2, <1>3 DEF FilesInv, SyncAll
<1>5. VersionsInv' /\ Reads(disk, session, Latest(index))'
  BY <1>1, <1>3, FilesStep DEF databases, ghosts
<1> QED BY <1>1, <1>2, <1>4, <1>5, RestStep

(* A failed write is cut off, and no record points to it.                  *)
LEMMA WriteFailsStep ==
    ASSUME StoreInv, WriteFails
    PROVE  StoreInv'
<1>1. /\ pc' = "idle"
      /\ UNCHANGED <<index, chainstate, tip, ibdMode, session, synced, flushed>>
      /\ \/ pc = "idle" /\ tip + 1 \in Block /\ WriteBlockFails(tip + 1, ~ibdMode)
         \/ pc = "undo" /\ WriteUndoFails(rec.file, ~ibdMode)
  BY DEF WriteFails, databases, ghosts
<1>2. FilesInv /\ FilesTyped /\ Latest(chainstate) = tip /\ Latest(index).tip = tip
  BY <1>1 DEF StoreInv, CallInv, RestInv, WriteInv, ExtendInv, ReorgInv, FilesInv
<1>3. ibdMode \in BOOLEAN /\ (~ibdMode) \in BOOLEAN
  BY DEF StoreInv, CallInv
<1>4. FilesTyped' /\ FilesGrow /\ FilesInv'
  <2>1. CASE pc = "idle" /\ tip + 1 \in Block /\ WriteBlockFails(tip + 1, ~ibdMode)
    <3>1. pc # "off"
      BY <2>1
    <3> QED BY <3>1, <2>1, <1>2, <1>3, WriteBlockFailsIs DEF FilesInv
  <2>2. CASE pc = "undo" /\ WriteUndoFails(rec.file, ~ibdMode)
    <3>1. rec \in Rec
      BY <2>2 DEF StoreInv, CallInv, RestInv, WriteInv, ExtendInv, ReorgInv
    <3>2. rec.file \in File
      BY <3>1 DEF Rec
    <3>3. FilesTyped' /\ FilesGrow
      BY <3>2, <2>2, <1>2, <1>3, SyncIs
    <3> QED BY <3>3, <2>2, <1>2 DEF FilesInv, WriteUndoFails
  <2> QED BY <2>1, <2>2, <1>1
<1>5. VersionsInv' /\ Reads(disk, session, Latest(index))'
  BY <1>1, <1>4, FilesStep DEF databases, ghosts
<1> QED BY <1>1, <1>2, <1>3, <1>4, <1>5, RestStep

(* A record is written, or removed.                                        *)
LEMMA ReadsRecord ==
    ASSUME NEW d, NEW s \in SUBSET Block, NEW v \in Version, Reads(d, s, v),
           NEW b \in Block, NEW r \in Rec \cup {NoRec},
           r # NoRec /\ b \in s => HasBlock(d, b, r),
           r # NoRec /\ r.undo # -1 => HasUndo(d, b, r)
    PROVE  /\ Reads(d, s, [v EXCEPT !.recs[b] = r])
           /\ HasBlock(d, b, r) => Reads(d, s \cup {b}, [v EXCEPT !.recs[b] = r])
<1> DEFINE w == [v EXCEPT !.recs[b] = r]
<1>1. w.recs[b] = r /\ \A c \in Block : c # b => w.recs[c] = v.recs[c]
  <2>1. RecordSet(v, b, r, w)
    BY WithRecordIs
  <2> QED BY <2>1 DEF RecordSet
<1> HIDE DEF w
<1>2. ASSUME NEW c \in s \cup {b}, w.recs[c] # NoRec, c \in s \/ HasBlock(d, b, r)
      PROVE  HasBlock(d, c, w.recs[c]) /\ (w.recs[c].undo # -1 => HasUndo(d, c, w.recs[c]))
  <2>1. CASE c = b
    BY <1>1, <1>2, <2>1
  <2>2. CASE c # b
    <3>1. c \in s /\ w.recs[c] = v.recs[c]
      BY <1>1, <2>2
    <3> QED BY <3>1, <1>2 DEF Reads
  <2> QED BY <2>1, <2>2
<1>3. Reads(d, s, w)
  BY <1>2 DEF Reads
<1>4. HasBlock(d, b, r) => Reads(d, s \cup {b}, w)
  BY <1>2 DEF Reads
<1> QED BY <1>3, <1>4 DEF w

(* The next heights.                                                       *)
LEMMA NextHeight ==
    ASSUME NEW t \in Nat
    PROVE  /\ t < t + 1 /\ t < t + 2 /\ t <= t /\ t <= t + 1 /\ t <= t + 2
           /\ t + 1 # t + 2 /\ (t + 1) - 1 = t /\ (t + 2) - 1 = t + 1
           /\ t + 1 \in Nat /\ t + 2 \in Nat
           /\ 1..(t + 1) = 1..t \cup {t + 1} /\ 1..(t + 2) = 1..(t + 1) \cup {t + 2}
           /\ (t = 0 \/ t \in 1..t)
BY SMT

(* The record: its parent is the tip, so no gap arises.                    *)
LEMMA StoreIndexStep ==
    ASSUME StoreInv, StoreIndex
    PROVE  StoreInv'
<1> DEFINE b == tip + 1
           v == Latest(index)
           w == [v EXCEPT !.recs[b] = rec]
           K == Kept(disk, synced, flushed)
<1>1. /\ pc = "index" /\ index' = Put(index, w, ~ibdMode) /\ pc' = "utxo"
      /\ session' = session \cup {b} /\ UNCHANGED files
      /\ UNCHANGED <<chainstate, tip, ibdMode, synced, flushed>>
  BY DEF StoreIndex, WithRecord
<1>2. /\ FilesInv /\ VersionsInv /\ v.tip = tip /\ ibdMode \in BOOLEAN /\ WriteInv
      /\ Reads(disk, session, v)
  BY <1>1 DEF StoreInv, CallInv, RestInv, ExtendInv, ReorgInv
<1>3. /\ b \in Block /\ rec \in Rec /\ Latest(chainstate) = tip
      /\ HasBlock(disk, b, rec) /\ HasUndo(disk, b, rec) /\ (~ibdMode => AllSynced(disk, b, rec))
  BY <1>1, <1>2 DEF WriteInv, AllSynced
<1>4. rec \in Rec \cup {NoRec} /\ rec # NoRec
  BY <1>3, Blocks
<1>5. /\ v \in K /\ v \in Version /\ Closed(v) /\ tip \in Nat /\ session \in SUBSET Block
      /\ synced \in SUBSET Block /\ index \in Seq(K) /\ flushed \in Nat
  BY <1>2, LatestKept DEF VersionsInv
<1>6. v.tip < b /\ \A c \in 1..(b - 1) : v.recs[c] # NoRec
  <2>1. tip < b /\ b - 1 = tip
    BY <1>5, NextHeight
  <2> QED BY <2>1, <1>2, <1>5 DEF Closed
<1>7. w \in K
  <2> HIDE DEF v
  <2> QED BY <1>3, <1>4, <1>5, <1>6, KeptRecord
<1>8. w.tip = tip /\ w.recs[b] = rec /\ Reads(disk, session \cup {b}, w)
  <2>1. RecordSet(v, b, rec, w)
    BY <1>3, <1>4, <1>5, WithRecordIs
  <2>2. Reads(disk, session \cup {b}, w)
    BY <1>2, <1>3, <1>4, <1>5, ReadsRecord
  <2> QED BY <2>1, <2>2, <1>2 DEF RecordSet
<1> HIDE DEF w, K
<1>9. index' \in Seq(K) /\ Len(index') > 0 /\ Latest(index') = w
  <2>1. (~ibdMode) \in BOOLEAN
    OBVIOUS
  <2>2. IsDb(K, Put(index, w, ~ibdMode), w)
    BY <2>1, <1>5, <1>7, PutIs
  <2> QED BY <2>2, <1>1 DEF IsDb
<1>10. FilesInv' /\ disk' = disk
  BY <1>1, <1>2, FilesSame
<1>11. VersionsInv'
  <2>1. session' \in SUBSET Block
    BY <1>1, <1>3, <1>5
  <2> QED BY <2>1, <1>1, <1>2, <1>9, <1>10 DEF VersionsInv, K
<1>12. CallInv'
  <2>1. ExtendInv'
    BY <1>1, <1>3, <1>4, <1>8, <1>9, <1>10 DEF ExtendInv
  <2> QED BY <2>1, <1>1, <1>2, <1>8, <1>9, <1>10 DEF CallInv
<1> QED BY <1>10, <1>11, <1>12 DEF StoreInv

(* The batch of the coins, with the best block one above the tip.          *)
LEMMA StoreUtxoStep ==
    ASSUME StoreInv, StoreUtxo
    PROVE  StoreInv'
<1> DEFINE b == tip + 1
<1>1. /\ pc = "utxo" /\ chainstate' = Put(chainstate, b, ~ibdMode) /\ pc' = "tip"
      /\ UNCHANGED files /\ UNCHANGED <<index, tip, ibdMode, session, synced, flushed>>
  BY DEF StoreUtxo, ghosts
<1>2. /\ FilesInv /\ VersionsInv /\ Latest(index).tip = tip /\ ibdMode \in BOOLEAN /\ ExtendInv
      /\ Reads(disk, session, Latest(index))
  BY <1>1 DEF StoreInv, CallInv, RestInv, WriteInv, ReorgInv
<1>3. /\ b \in Block /\ Latest(chainstate) = tip /\ Latest(index).recs[b] # NoRec
      /\ ~ibdMode => AllSynced(disk, b, Latest(index).recs[b])
  BY <1>1, <1>2 DEF ExtendInv
<1>4. b \in Best(flushed)
  <2>1. flushed \in Nat /\ tip \in Nat /\ flushed <= tip /\ b \in Height
    BY <1>2, <1>3, LatestKept, Blocks
  <2>2. flushed <= b
    BY SMT, <2>1
  <2> QED BY <2>1, <2>2 DEF Best
<1>5. /\ chainstate' \in Seq(Best(flushed)) /\ Len(chainstate') > 0 /\ Latest(chainstate') = b
  <2>1. (~ibdMode) \in BOOLEAN /\ chainstate \in Seq(Best(flushed))
    BY <1>2 DEF VersionsInv
  <2>2. IsDb(Best(flushed), Put(chainstate, b, ~ibdMode), b)
    BY <2>1, <1>4, PutIs
  <2> QED BY <2>2, <1>1 DEF IsDb
<1>6. FilesInv' /\ disk' = disk
  BY <1>1, <1>2, FilesSame
<1>7. VersionsInv'
  BY <1>1, <1>2, <1>5, <1>6 DEF VersionsInv
<1>8. ExtendInv'
  BY <1>1, <1>3, <1>5, <1>6 DEF ExtendInv
<1>9. CallInv'
  BY <1>1, <1>2, <1>6, <1>8 DEF CallInv
<1> QED BY <1>6, <1>7, <1>9 DEF StoreInv

(* A version with the new tip also keeps the block, once it is synced.     *)
LEMMA KeptAdd ==
    ASSUME NEW d, NEW s, NEW n, NEW v \in Kept(d, s, n), NEW b, b <= v.tip,
           AllSynced(d, b, v.recs[b])
    PROVE  v \in Kept(d, s \cup {b}, n)
BY DEF Kept

(* Only the tip changes: what can be read stays.                           *)
LEMMA ReadsTip ==
    ASSUME NEW d, NEW s, NEW v, NEW w, Reads(d, s, v), w.recs = v.recs
    PROVE  Reads(d, s, w)
BY DEF Reads

(* The tip: out of IBD mode the block is now synced altogether.            *)
LEMMA StoreTipStep ==
    ASSUME StoreInv, StoreTip
    PROVE  StoreInv'
<1> DEFINE b == tip + 1
           v == Latest(index)
           w == [v EXCEPT !.tip = b]
           K == Kept(disk, synced, flushed)
           L == Kept(disk, synced', flushed)
<1>1. /\ pc = "tip" /\ index' = Put(index, w, ~ibdMode) /\ tip' = b
      /\ synced' = IF ibdMode THEN synced ELSE synced \cup {b}
      /\ pc' \in {"idle", "syncFiles"} /\ UNCHANGED files
      /\ UNCHANGED <<chainstate, ibdMode, session, flushed>>
  BY DEF StoreTip, WithTip
<1>2. /\ FilesInv /\ VersionsInv /\ v.tip = tip /\ ibdMode \in BOOLEAN /\ ExtendInv
      /\ Reads(disk, session, v)
  BY <1>1 DEF StoreInv, CallInv, RestInv, WriteInv, ReorgInv
<1>3. /\ b \in Block /\ Latest(chainstate) = b /\ v.recs[b] # NoRec
      /\ ~ibdMode => AllSynced(disk, b, v.recs[b])
  BY <1>1, <1>2 DEF ExtendInv
<1>4. /\ v \in K /\ v \in Version /\ Closed(v) /\ tip \in Nat /\ session \in SUBSET Block
      /\ synced \in SUBSET Block /\ index \in Seq(K) /\ flushed \in Nat
  BY <1>2, LatestKept DEF VersionsInv
<1>5. v.tip <= b /\ b \in Height /\ b <= b /\ \A c \in 1..b : v.recs[c] # NoRec
  <2>1. tip <= b /\ b \in Nat
    BY <1>4, NextHeight
  <2>2. b <= b
    BY <2>1, NextHeight
  <2> QED BY <2>1, <2>2, <1>2, <1>3, <1>4, ClosedUpTo, Blocks
<1>6. w \in K
  <2> HIDE DEF v
  <2> QED BY <1>4, <1>5, KeptTip
<1>7. w.tip = b /\ w.recs = v.recs
  <2>1. TipSet(v, b, w)
    BY <1>4, <1>5, WithTipIs
  <2> QED BY <2>1 DEF TipSet
<1>8. Reads(disk, session, w)
  BY <1>2, <1>7, ReadsTip
<1> HIDE DEF w
<1>9. index' \in Seq(L) /\ Len(index') > 0 /\ Latest(index') = w
  <2>1. CASE ibdMode
    <3>1. L = K
      BY <2>1, <1>1
    <3> HIDE DEF K, L
    <3>2. (~ibdMode) \in BOOLEAN
      OBVIOUS
    <3>3. IsDb(K, Put(index, w, ~ibdMode), w)
      BY <3>2, <1>4, <1>6, PutIs
    <3> QED BY <3>1, <3>3, <1>1 DEF IsDb
  <2>2. CASE ~ibdMode
    <3>1. AllSynced(disk, b, w.recs[b]) /\ b <= w.tip
      BY <2>2, <1>3, <1>5, <1>7
    <3>2. w \in L
      BY <3>1, <2>2, <1>1, <1>6, KeptAdd
    <3>3. index' = <<w>>
      BY <2>2, <1>1 DEF Put
    <3> HIDE DEF K, L
    <3>4. IsDb(L, <<w>>, w)
      BY <3>2, SingleIs
    <3> QED BY <3>3, <3>4 DEF IsDb
  <2> QED BY <2>1, <2>2
<1>10. FilesInv' /\ disk' = disk
  BY <1>1, <1>2, FilesSame
<1>11. VersionsInv'
  <2>1. synced' \in SUBSET Block
    BY <1>1, <1>3, <1>4
  <2> QED BY <2>1, <1>1, <1>2, <1>5, <1>9, <1>10 DEF VersionsInv
<1>12. Latest(index').tip = tip' /\ Latest(chainstate') = tip'
  BY <1>1, <1>3, <1>7, <1>9
<1>13. Reads(disk, session, Latest(index))'
  BY <1>1, <1>8, <1>9, <1>10
<1> QED BY <1>1, <1>2, <1>10, <1>11, <1>12, <1>13, RestStep

(* The checkpoint leaves one version of the block index.                   *)
LEMMA FlushIndexStep ==
    ASSUME StoreInv, FlushIndex
    PROVE  StoreInv'
<1> DEFINE v == Latest(index)
           K == Kept(disk, synced, flushed)
<1>1. /\ pc = "syncIndex" /\ index' = <<v>> /\ pc' = "syncUtxo" /\ UNCHANGED files
      /\ UNCHANGED <<chainstate, tip, ibdMode, session, synced, flushed>>
  BY DEF FlushIndex, ghosts
<1>2. /\ FilesInv /\ VersionsInv /\ v.tip = tip /\ ibdMode \in BOOLEAN /\ Latest(chainstate) = tip
      /\ Reads(disk, session, v)
  BY <1>1 DEF StoreInv, CallInv, RestInv, WriteInv, ExtendInv, ReorgInv
<1>3. v \in K
  BY <1>2, LatestKept
<1> HIDE DEF v
<1>4. index' \in Seq(K) /\ Len(index') > 0 /\ Latest(index') = v /\ Len(index') = 1
  <2>1. IsDb(K, <<v>>, v) /\ Len(<<v>>) = 1
    BY <1>3, SingleIs
  <2> QED BY <2>1, <1>1 DEF IsDb
<1>5. FilesInv' /\ disk' = disk
  BY <1>1, <1>2, FilesSame
<1>6. VersionsInv'
  BY <1>1, <1>2, <1>4, <1>5 DEF VersionsInv
<1>7. Latest(index').tip = tip' /\ Latest(chainstate') = tip' /\ Reads(disk, session, Latest(index))'
  BY <1>1, <1>2, <1>4, <1>5
<1> QED BY <1>1, <1>2, <1>4, <1>5, <1>6, <1>7, RestStep

(* The checkpoint is taken: all versions are at the tip.                   *)
LEMMA FlushUtxoStep ==
    ASSUME StoreInv, FlushUtxo
    PROVE  StoreInv'
<1> DEFINE v == Latest(index)
           L == Kept(disk, synced, tip)
<1>1. /\ pc = "syncUtxo" /\ chainstate' = Put(chainstate, tip, TRUE) /\ flushed' = tip
      /\ pc' = "idle" /\ UNCHANGED files /\ UNCHANGED <<index, tip, ibdMode, session, synced>>
  BY DEF FlushUtxo
<1>2. /\ FilesInv /\ VersionsInv /\ v.tip = tip /\ ibdMode \in BOOLEAN
      /\ Reads(disk, session, v) /\ Len(index) = 1
  BY <1>1 DEF StoreInv, CallInv, RestInv, WriteInv, ExtendInv, ReorgInv
<1>3. /\ v \in Kept(disk, synced, flushed) /\ tip \in Nat /\ tip \in Height /\ tip <= tip
  BY <1>2, LatestKept, NextHeight DEF VersionsInv
<1>4. v \in L
  BY <1>2, <1>3 DEF Kept
<1>5. index \in Seq(L)
  <2>1. index = <<v>>
    BY <1>2, LatestIs DEF VersionsInv
  <2> HIDE DEF v, L
  <2>2. IsDb(L, <<v>>, v)
    BY <1>4, SingleIs
  <2> QED BY <2>1, <2>2 DEF IsDb
<1>6. /\ chainstate' \in Seq(Best(flushed')) /\ Len(chainstate') > 0 /\ Latest(chainstate') = tip
  <2>1. chainstate' = <<tip>>
    BY <1>1 DEF Put
  <2>2. tip \in Best(flushed')
    BY <1>1, <1>3 DEF Best
  <2>3. IsDb(Best(flushed'), <<tip>>, tip)
    BY <2>2, SingleIs
  <2> QED BY <2>1, <2>3 DEF IsDb
<1>7. FilesInv' /\ disk' = disk
  BY <1>1, <1>2, FilesSame
<1>8. VersionsInv'
  BY <1>1, <1>2, <1>3, <1>5, <1>6, <1>7 DEF VersionsInv
<1>9. Latest(index').tip = tip' /\ Latest(chainstate') = tip' /\ Reads(disk, session, Latest(index))'
  BY <1>1, <1>2, <1>6, <1>7
<1> QED BY <1>1, <1>2, <1>7, <1>8, <1>9, RestStep

-----------------------------------------------------------------------------
(* The reorganisation to the child of a record without a place.            *)

(* No record is above one that is missing.                                 *)
LEMMA NoneAbove ==
    ASSUME NEW v, Closed(v), NEW b \in Block, v.recs[b] = NoRec
    PROVE  \A c \in Block : c > b => v.recs[c] = NoRec
<1> SUFFICES ASSUME NEW c \in Block, c > b PROVE b \in 1..c
  BY DEF Closed
<1>1. b \in Nat /\ c \in Nat /\ b > 0
  BY Blocks
<1> QED BY SMT, <1>1

(* The records up to the parent of the new block are there.                *)
LEMMA ParentsThere ==
    ASSUME NEW v, Closed(v), NEW t \in Nat, t + 2 \in Block, v.recs[t + 1] # NoRec
    PROVE  t + 1 \in Block /\ \A c \in 1..((t + 2) - 1) : v.recs[c] # NoRec
<1>1. t + 1 \in 1..(t + 2) /\ (t + 2) - 1 = t + 1
  BY SMT
<1>2. t + 1 \in Block
  BY <1>1, Blocks
<1>3. \A c \in 1..(t + 1) : v.recs[c] # NoRec
  BY <1>2, ClosedUpTo
<1> QED BY <1>1, <1>2, <1>3

(* The child of the record without a place is stored, synced.              *)
LEMMA ReorgStoreStep ==
    ASSUME StoreInv, ReorgStore
    PROVE  StoreInv'
<1> DEFINE b == tip + 2
           r == [file |-> TargetFile(b), pos |-> TargetPos(b), undo |-> -1]
           v == Latest(index)
           w == [v EXCEPT !.recs[b] = r]
           L == Kept(disk', synced, flushed)
<1>1. /\ pc = "idle" /\ b \in Block /\ Known(tip + 1) /\ ~Known(b) /\ WriteBlock(b, TRUE)
      /\ index' = Put(index, w, TRUE) /\ session' = session \cup {b} /\ pc' = "trial"
      /\ UNCHANGED <<chainstate, tip, ibdMode, synced, flushed>>
  BY DEF ReorgStore, WithRecord
<1>2. /\ FilesInv /\ VersionsInv /\ v.tip = tip /\ ibdMode \in BOOLEAN /\ Latest(chainstate) = tip
      /\ Reads(disk, session, v)
  BY <1>1 DEF StoreInv, CallInv, RestInv, WriteInv, ExtendInv, ReorgInv
<1>3. /\ v \in Kept(disk, synced, flushed) /\ v \in Version /\ Closed(v) /\ tip \in Nat
      /\ session \in SUBSET Block /\ synced \in SUBSET Block /\ flushed \in Nat /\ IsDisk(disk)
  BY <1>2, LatestKept
<1>4. v.recs[tip + 1] # NoRec /\ v.recs[b] = NoRec /\ tip < b /\ tip + 1 # b
  <2>1. tip + 1 # 0 /\ tip < b /\ tip + 1 # b
    BY SMT, <1>3
  <2> QED BY <2>1, <1>1 DEF Known
<1>5. tip + 1 \in Block /\ \A c \in 1..(b - 1) : v.recs[c] # NoRec
  BY <1>1, <1>3, <1>4, ParentsThere
<1>6. \A c \in Block : c > b => v.recs[c] = NoRec
  BY <1>1, <1>3, <1>4, NoneAbove
<1>7. /\ FilesTyped' /\ FilesGrow /\ curFile' \in File /\ curSize' \in Nat
      /\ \A f \in File : f > curFile' => Len(blk'[f]) = 0
      /\ curSize' = Len(blk'[curFile'])
      /\ r \in Rec /\ HasBlock(disk', b, r) /\ BlockSynced(disk', b, r) /\ r.undo = -1
  <2>1. pc # "off" /\ TRUE \in BOOLEAN
    BY <1>1
  <2> QED BY <2>1, <1>1, <1>2, WriteBlockIs
<1> HIDE DEF r
<1>8. r \in Rec \cup {NoRec} /\ r # NoRec
  BY <1>7, Blocks
<1>9. IsDisk(disk') /\ Grows(disk, disk')
  BY <1>7, DiskIs
<1>10. v \in L /\ Reads(disk', session, v)
  BY <1>2, <1>3, <1>9, KeptStay, ReadsStay
<1>11. w \in L
  <2>1. v.tip < b
    BY <1>2, <1>4
  <2> HIDE DEF v
  <2> QED BY <2>1, <1>1, <1>3, <1>5, <1>8, <1>10, KeptRecord
<1>12. RecordSet(v, b, r, w)
  BY <1>1, <1>3, <1>8, WithRecordIs
<1>13. Reads(disk', session \cup {b}, w)
  <2> HIDE DEF v
  <2> QED BY <1>1, <1>3, <1>7, <1>8, <1>10, ReadsRecord
<1>14. IsDb(L, index', w)
  <2>1. index' = <<w>>
    BY <1>1 DEF Put
  <2> HIDE DEF w, L
  <2> QED BY <2>1, <1>11, SingleIs
<1> HIDE DEF w
<1>15. FilesInv'
  BY <1>7 DEF FilesInv
<1>16. VersionsInv'
  <2>1. session' \in SUBSET Block
    BY <1>1, <1>3
  <2> QED BY <2>1, <1>1, <1>2, <1>14 DEF VersionsInv, IsDb
<1>17. ReorgInv'
  <2>1. w.recs[b] = r /\ \A c \in Block : c # b => w.recs[c] = v.recs[c]
    BY <1>12 DEF RecordSet
  <2>2. \A c \in Block : c > b => w.recs[c] = NoRec
    <3>1. \A c \in Block : c > b => c # b
      <4>1. b \in Nat /\ \A c \in Block : c \in Nat
        BY <1>1, Blocks
      <4>2. \A m, k \in Nat : m > k => m # k
        BY SMT
      <4> QED BY <4>1, <4>2
    <3> QED BY <3>1, <2>1, <1>6
  <2>3. w.recs[tip + 1] # NoRec
    BY <2>1, <1>4, <1>5
  <2>4. Latest(index') = w
    BY <1>14 DEF IsDb
  <2> QED BY <2>1, <2>2, <2>3, <2>4, <1>1, <1>2, <1>7 DEF ReorgInv
<1>18. CallInv'
  <2>1. Latest(index') = w /\ w.tip = tip
    BY <1>2, <1>12, <1>14 DEF IsDb, RecordSet
  <2> QED BY <2>1, <1>1, <1>2, <1>13, <1>17 DEF CallInv
<1> QED BY <1>15, <1>16, <1>18 DEF StoreInv

(* The trial goes on, or removes the new record.                           *)
LEMMA ReorgTrialStep ==
    ASSUME StoreInv, ReorgTrial
    PROVE  StoreInv'
<1> DEFINE b == tip + 2
           v == Latest(index)
           w == [v EXCEPT !.recs[b] = NoRec]
           K == Kept(disk, synced, flushed)
<1>1. /\ pc = "trial" /\ UNCHANGED files
      /\ UNCHANGED <<chainstate, tip, ibdMode, session, synced, flushed>>
      /\ \/ pc' = "connect" /\ index' = index
         \/ pc' = "idle" /\ index' = Put(index, w, TRUE)
  BY DEF ReorgTrial, WithRecord, ghosts
<1>2. /\ FilesInv /\ VersionsInv /\ v.tip = tip /\ ibdMode \in BOOLEAN /\ ReorgInv
      /\ Reads(disk, session, v)
  BY <1>1 DEF StoreInv, CallInv, RestInv, WriteInv, ExtendInv
<1>3. /\ b \in Block /\ v.recs[tip + 1] # NoRec /\ BlockSynced(disk, b, v.recs[b])
      /\ Latest(chainstate) = tip /\ \A c \in Block : c > b => v.recs[c] = NoRec
  BY <1>1, <1>2 DEF ReorgInv
<1>4. /\ v \in K /\ v \in Version /\ tip \in Nat /\ session \in SUBSET Block
      /\ synced \in SUBSET Block /\ flushed \in Nat
  BY <1>2, LatestKept
<1>5. tip < b /\ tip <= tip /\ tip <= b /\ tip # b
  BY SMT, <1>4
<1>6. FilesInv' /\ disk' = disk
  BY <1>1, <1>2, FilesSame
<1>7. CASE pc' = "connect" /\ index' = index
  <2>1. VersionsInv'
    BY <1>1, <1>2, <1>6, <1>7 DEF VersionsInv
  <2>2. ReorgInv'
    BY <1>1, <1>3, <1>5, <1>6, <1>7 DEF ReorgInv
  <2>3. CallInv'
    BY <2>2, <1>1, <1>2, <1>6, <1>7 DEF CallInv
  <2> QED BY <2>1, <2>3, <1>6 DEF StoreInv
<1>8. CASE pc' = "idle" /\ index' = Put(index, w, TRUE)
  <2>1. w \in K
    <3>1. v.tip < b /\ NoRec \in Rec \cup {NoRec}
      BY <1>2, <1>5
    <3> HIDE DEF v
    <3> QED BY <3>1, <1>3, <1>4, KeptRecord
  <2>2. RecordSet(v, b, NoRec, w)
    BY <1>3, <1>4, WithRecordIs
  <2>3. Reads(disk, session, w)
    <3> HIDE DEF v
    <3> QED BY <1>2, <1>3, <1>4, ReadsRecord
  <2>4. IsDb(K, index', w)
    <3>1. index' = <<w>>
      BY <1>8 DEF Put
    <3> HIDE DEF w, K
    <3> QED BY <3>1, <2>1, SingleIs
  <2> HIDE DEF w
  <2>5. Latest(index') = w /\ w.tip = tip
    BY <2>2, <2>4, <1>2 DEF IsDb, RecordSet
  <2>6. VersionsInv'
    BY <2>4, <1>1, <1>2, <1>6 DEF VersionsInv, IsDb
  <2>7. /\ Latest(index').tip = tip' /\ Latest(chainstate') = tip'
        /\ Reads(disk, session, Latest(index))'
    BY <2>3, <2>5, <1>1, <1>3, <1>6
  <2> QED BY <2>6, <2>7, <1>1, <1>2, <1>6, <1>8, RestStep
<1> QED BY <1>1, <1>7, <1>8

(* The block that is connected next.                                       *)
LEMMA NextConnected ==
    ASSUME NEW t \in Nat, NEW h \in Nat, t <= h, h + 1 <= t + 2
    PROVE  /\ h + 1 = t + 1 \/ h + 1 = t + 2
           /\ t < h + 1 /\ t <= h + 1 /\ t + 1 # t + 2
BY SMT

(* A block of the branch is connected and gets its undo data.              *)
LEMMA ReorgConnectStep ==
    ASSUME StoreInv, ReorgConnect
    PROVE  StoreInv'
<1> DEFINE b == Latest(chainstate) + 1
           c == tip + 2
           v == Latest(index)
           r == v.recs[b]
           q == [r EXCEPT !.undo = Len(rev[r.file])]
           w == [v EXCEPT !.recs[b] = q]
           L == Kept(disk', synced, flushed)
<1>1. /\ pc = "connect" /\ b <= c /\ chainstate' = Put(chainstate, b, TRUE)
      /\ WriteUndo(b, r.file, TRUE) /\ index' = Put(index, w, TRUE)
      /\ UNCHANGED <<tip, ibdMode, pc, session, synced, flushed>>
  BY DEF ReorgConnect, WithRecord, ghosts
<1>2. /\ FilesInv /\ FilesTyped /\ VersionsInv /\ v.tip = tip /\ ibdMode \in BOOLEAN /\ ReorgInv
      /\ Reads(disk, session, v)
  BY <1>1 DEF StoreInv, CallInv, RestInv, WriteInv, ExtendInv, FilesInv
<1>3. /\ c \in Block /\ v.recs[tip + 1] # NoRec /\ BlockSynced(disk, c, v.recs[c])
      /\ tip <= Latest(chainstate)
  BY <1>1, <1>2 DEF ReorgInv
<1>4. /\ v \in Kept(disk, synced, flushed) /\ v \in Version /\ Closed(v) /\ tip \in Nat
      /\ session \in SUBSET Block /\ synced \in SUBSET Block /\ flushed \in Nat /\ IsDisk(disk)
      /\ Latest(chainstate) \in Nat /\ flushed <= tip
  BY <1>2, LatestKept
<1>5. (b = tip + 1 \/ b = c) /\ tip < b /\ tip <= b /\ tip + 1 # c
  BY <1>1, <1>3, <1>4, NextConnected
<1>6. tip + 1 \in Block /\ v.recs[c] # NoRec
  BY <1>3, <1>4, ParentsThere DEF BlockSynced, HasBlock
<1>7. b \in Block /\ r # NoRec /\ r \in Rec
  BY <1>3, <1>4, <1>5, <1>6, VersionIs
<1>8. /\ FilesTyped' /\ FilesGrow
      /\ q \in Rec /\ q # NoRec /\ q.file = r.file /\ q.pos = r.pos
      /\ HasUndo(disk', b, q) /\ UndoSynced(disk', b, q)
  <2>1. TRUE \in BOOLEAN
    OBVIOUS
  <2> HIDE DEF b, r
  <2> QED BY <2>1, <1>1, <1>2, <1>7, WriteUndoIs
<1> HIDE DEF q
<1>9. IsDisk(disk') /\ Grows(disk, disk')
  BY <1>8, DiskIs
<1>10. v \in L /\ Reads(disk', session, v)
  BY <1>2, <1>4, <1>9, KeptStay, ReadsStay
<1>11. BlockSynced(disk', c, v.recs[c])
  <2>1. v.recs[c] \in Rec \cup {NoRec}
    BY <1>3, <1>4, VersionIs
  <2> QED BY <2>1, <1>3, <1>4, <1>9, GrowthKeeps
<1>12. q \in Rec \cup {NoRec}
  BY <1>8
<1>13. w \in L
  <2>1. v.tip < b
    BY <1>2, <1>5
  <2>2. \A e \in 1..(b - 1) : v.recs[e] # NoRec
    <3>1. b \in Nat
      BY <1>7, Blocks
    <3>2. \A e \in 1..(b - 1) : e \in 1..b
      BY SMT, <3>1
    <3> QED BY <3>2, <1>4, <1>7, ClosedUpTo
  <2> HIDE DEF v, b
  <2> QED BY <2>1, <2>2, <1>4, <1>7, <1>8, <1>10, <1>12, KeptRecord
<1>14. RecordSet(v, b, q, w)
  <2> HIDE DEF v, b
  <2> QED BY <1>4, <1>7, <1>12, WithRecordIs
<1>15. Reads(disk', session, w)
  <2>1. b \in session => HasBlock(disk', b, q)
    <3>1. b \in session => HasBlock(disk', b, r)
      BY <1>7, <1>10 DEF Reads
    <3> QED BY <3>1, <1>8 DEF HasBlock
  <2> HIDE DEF v, b
  <2> QED BY <2>1, <1>4, <1>7, <1>8, <1>10, <1>12, ReadsRecord
<1>16. IsDb(L, index', w)
  <2>1. index' = <<w>>
    BY <1>1 DEF Put
  <2> HIDE DEF w, L
  <2> QED BY <2>1, <1>13, SingleIs
<1>17. IsDb(Best(flushed), chainstate', b)
  <2>1. chainstate' = <<b>>
    BY <1>1 DEF Put
  <2>2. b \in Height /\ b \in Nat
    BY <1>7, Blocks
  <2> HIDE DEF b
  <2>3. flushed <= b
    BY SMT, <2>2, <1>4, <1>5
  <2>4. b \in Best(flushed)
    BY <2>2, <2>3 DEF Best
  <2> QED BY <2>1, <2>4, SingleIs
<1> HIDE DEF w
<1>18. FilesInv'
  BY <1>1, <1>2, <1>8 DEF FilesInv, WriteUndo
<1>19. VersionsInv'
  BY <1>1, <1>2, <1>16, <1>17 DEF VersionsInv, IsDb
<1>20. Latest(index') = w /\ w.tip = tip /\ Latest(chainstate') = b
  BY <1>2, <1>14, <1>16, <1>17 DEF IsDb, RecordSet
<1>21. w.recs[tip + 1] # NoRec /\ BlockSynced(disk', c, w.recs[c])
  <2>1. w.recs[b] = q /\ \A e \in Block : e # b => w.recs[e] = v.recs[e]
    BY <1>14 DEF RecordSet
  <2>2. w.recs[tip + 1] # NoRec
    BY <2>1, <1>3, <1>6, <1>8
  <2>3. CASE b = c
    <3>1. BlockSynced(disk', c, r)
      BY <2>3, <1>11
    <3>2. BlockSynced(disk', c, q)
      BY <3>1, <1>8 DEF BlockSynced, HasBlock
    <3> QED BY <3>2, <2>1, <2>2, <2>3
  <2>4. CASE b # c
    BY <2>1, <2>2, <2>4, <1>3, <1>11
  <2> QED BY <2>3, <2>4
<1>22. b = c => UndoSynced(disk', c, w.recs[c])
  <2>1. w.recs[b] = q
    BY <1>14 DEF RecordSet
  <2> QED BY <2>1, <1>8
<1>23. ReorgInv'
  <2> HIDE DEF b
  <2> QED BY <1>1, <1>3, <1>5, <1>20, <1>21, <1>22 DEF ReorgInv
<1>24. CallInv'
  BY <1>1, <1>2, <1>15, <1>20, <1>23 DEF CallInv
<1> QED BY <1>18, <1>19, <1>24 DEF StoreInv

(* The new tip, whose block is synced altogether.                          *)
LEMMA ReorgTipStep ==
    ASSUME StoreInv, ReorgTip
    PROVE  StoreInv'
<1> DEFINE b == tip + 2
           v == Latest(index)
           w == [v EXCEPT !.tip = b]
           K == Kept(disk, synced, flushed)
           L == Kept(disk, synced', flushed)
<1>1. /\ pc = "connect" /\ Latest(chainstate) = b /\ index' = Put(index, w, TRUE) /\ tip' = b
      /\ synced' = synced \cup {b} /\ pc' = "idle" /\ UNCHANGED files
      /\ UNCHANGED <<chainstate, ibdMode, session, flushed>>
  BY DEF ReorgTip, WithTip
<1>2. /\ FilesInv /\ VersionsInv /\ v.tip = tip /\ ibdMode \in BOOLEAN /\ ReorgInv
      /\ Reads(disk, session, v)
  BY <1>1 DEF StoreInv, CallInv, RestInv, WriteInv, ExtendInv
<1>3. b \in Block /\ AllSynced(disk, b, v.recs[b]) /\ v.recs[b] # NoRec
  BY <1>1, <1>2 DEF ReorgInv, AllSynced, BlockSynced, HasBlock
<1>4. /\ v \in K /\ v \in Version /\ Closed(v) /\ tip \in Nat
      /\ synced \in SUBSET Block /\ flushed \in Nat
  BY <1>2, LatestKept
<1>5. v.tip <= b /\ b \in Height /\ b <= b /\ \A c \in 1..b : v.recs[c] # NoRec
  <2>1. tip <= b /\ b \in Nat
    BY <1>4, NextHeight
  <2>2. b <= b
    BY <2>1, NextHeight
  <2> QED BY <2>1, <2>2, <1>2, <1>3, <1>4, ClosedUpTo, Blocks
<1>6. w \in K
  <2> HIDE DEF v
  <2> QED BY <1>4, <1>5, KeptTip
<1>7. w.tip = b /\ w.recs = v.recs
  <2>1. TipSet(v, b, w)
    BY <1>4, <1>5, WithTipIs
  <2> QED BY <2>1 DEF TipSet
<1>8. w \in L
  <2>1. AllSynced(disk, b, w.recs[b]) /\ b <= w.tip
    BY <1>3, <1>5, <1>7
  <2> QED BY <2>1, <1>1, <1>6, KeptAdd
<1>9. Reads(disk, session, w)
  BY <1>2, <1>7, ReadsTip
<1> HIDE DEF w
<1>10. IsDb(L, index', w)
  <2>1. index' = <<w>>
    BY <1>1 DEF Put
  <2> HIDE DEF L
  <2> QED BY <2>1, <1>8, SingleIs
<1>11. FilesInv' /\ disk' = disk
  BY <1>1, <1>2, FilesSame
<1>12. VersionsInv'
  <2>1. synced' \in SUBSET Block
    BY <1>1, <1>3, <1>4
  <2> QED BY <2>1, <1>1, <1>2, <1>5, <1>10, <1>11 DEF VersionsInv, IsDb
<1>13. /\ Latest(index').tip = tip' /\ Latest(chainstate') = tip'
       /\ Reads(disk, session, Latest(index))'
  BY <1>1, <1>7, <1>9, <1>10, <1>11 DEF IsDb
<1> QED BY <1>1, <1>2, <1>11, <1>12, <1>13, RestStep

-----------------------------------------------------------------------------
(* The power fails, and the node starts again.                             *)
LEMMA PowerLossStep ==
    ASSUME StoreInv, PowerLoss
    PROVE  StoreInv'
<1> DEFINE K == Kept(disk, synced, flushed)
<1>1. /\ pc' = "off" /\ tip' = 0 /\ ibdMode' = FALSE /\ session' = {} /\ UNCHANGED files
      /\ UNCHANGED <<synced, flushed>>
      /\ \E i \in DOMAIN index : index' = <<index[i]>>
      /\ \E i \in DOMAIN chainstate : chainstate' = <<chainstate[i]>>
  BY DEF PowerLoss
<1>2. /\ FilesInv /\ VersionsInv /\ index \in Seq(K) /\ chainstate \in Seq(Best(flushed))
      /\ flushed \in Nat /\ synced \in SUBSET Block
  BY DEF StoreInv, VersionsInv
<1>3. FilesInv' /\ disk' = disk
  BY <1>1, <1>2, FilesSame
<1>4. PICK v \in K : index' = <<v>>
  <2> HIDE DEF K
  <2>1. \A i \in DOMAIN index : index[i] \in K
    BY SMT, <1>2
  <2> QED BY <2>1, <1>1
<1>5. PICK h \in Best(flushed) : chainstate' = <<h>>
  <2>1. \A i \in DOMAIN chainstate : chainstate[i] \in Best(flushed)
    BY SMT, <1>2
  <2> QED BY <2>1, <1>1
<1>6. IsDb(K, index', v) /\ IsDb(Best(flushed), chainstate', h)
  <2> HIDE DEF K
  <2> QED BY <1>4, <1>5, SingleIs
<1>7. 0 \in Height /\ {} \in SUBSET Block
  BY SMT, Blocks DEF Height
<1>8. VersionsInv'
  BY <1>1, <1>2, <1>3, <1>6, <1>7 DEF VersionsInv, IsDb
<1>9. CallInv'
  BY <1>1 DEF CallInv, Reads
<1> QED BY <1>3, <1>8, <1>9 DEF StoreInv

(* The tails that were not synced are lost.                                *)
LEMMA LoseTailStep ==
    ASSUME StoreInv, LoseTail
    PROVE  StoreInv'
<1>1. PICK f \in File : TailLost(f)
  BY DEF LoseTail
<1>2. /\ pc = "off" /\ pc' = "off" /\ ibdMode' = ibdMode
      /\ UNCHANGED <<index, chainstate, tip, session, synced, flushed>>
  BY DEF LoseTail, databases, ghosts
<1>3. FilesInv /\ FilesTyped /\ VersionsInv /\ session = {} /\ ibdMode \in BOOLEAN
  BY <1>2 DEF StoreInv, CallInv, FilesInv
<1>4. /\ FilesTyped' /\ Outlasts(disk, disk') /\ UNCHANGED <<curFile, curSize>>
      /\ \A g \in File : Len(blk'[g]) <= Len(blk[g])
  BY <1>1, <1>3, TailLostIs
<1>5. FilesInv'
  <2>1. \A g \in File : g > curFile => Len(blk[g]) = 0 /\ Len(blk'[g]) \in Nat
    BY <1>3, <1>4, LenProperties DEF FilesInv, FilesTyped
  <2>2. \A n \in Nat : n <= 0 => n = 0
    BY SMT
  <2>3. \A g \in File : g > curFile => Len(blk'[g]) = 0
    BY <2>1, <2>2, <1>4
  <2> QED BY <2>3, <1>2, <1>3, <1>4 DEF FilesInv
<1>6. index \in Seq(Kept(disk', synced, flushed))
  <2>1. IsDisk(disk) /\ IsDisk(disk') /\ synced \in SUBSET Block
    BY <1>3, <1>4, DiskIs DEF VersionsInv
  <2>2. Kept(disk, synced, flushed) \subseteq Kept(disk', synced, flushed)
    BY <2>1, <1>4, KeptStay
  <2> QED BY <2>2, <1>3, SeqWiden DEF VersionsInv
<1>7. VersionsInv'
  BY <1>2, <1>3, <1>6 DEF VersionsInv
<1>8. CallInv'
  BY <1>2, <1>3 DEF CallInv, Reads
<1> QED BY <1>5, <1>7, <1>8 DEF StoreInv

(* The tip is the recorded one, or the best block when that is higher.     *)
LEMMA StartStep ==
    ASSUME StoreInv, Start
    PROVE  StoreInv'
<1> DEFINE v == Latest(index)
           h == Latest(chainstate)
           t == RecoveredTip
           w == [v EXCEPT !.tip = t]
           L == Kept(disk', synced, flushed)
<1>1. /\ pc = "off" /\ NewBlockFileManager /\ index' = <<w>> /\ chainstate' = <<t>> /\ tip' = t
      /\ pc' = "idle" /\ UNCHANGED <<ibdMode, session, synced, flushed>>
  BY DEF Start, WithTip, ghosts
<1>2. FilesInv /\ FilesTyped /\ VersionsInv /\ session = {} /\ ibdMode \in BOOLEAN
  BY <1>1 DEF StoreInv, CallInv, FilesInv
<1>3. /\ v \in Kept(disk, synced, flushed) /\ v \in Version /\ Closed(v) /\ v.tip \in Nat
      /\ synced \in SUBSET Block /\ flushed \in Nat /\ flushed <= v.tip /\ IsDisk(disk)
      /\ h \in Height /\ h \in Nat /\ flushed <= h /\ v.tip \in Height
  BY <1>2, LatestKept, VersionIs
<1>4. t \in Height /\ v.tip <= t /\ flushed <= t /\ \A b \in 1..t : v.recs[b] # NoRec
  <2>1. CASE Known(h) /\ h > v.tip
    <3>1. t = h
      BY <2>1 DEF RecoveredTip
    <3>2. h # 0 /\ v.tip <= h
      <4>1. \A m, k \in Nat : m > k => m # 0 /\ k <= m
        BY SMT
      <4> QED BY <4>1, <2>1, <1>3
    <3>3. h \in Block /\ v.recs[h] # NoRec
      BY <3>2, <2>1, <1>3, Blocks DEF Known
    <3> QED BY <3>1, <3>2, <3>3, <1>3, ClosedUpTo
  <2>2. CASE ~(Known(h) /\ h > v.tip)
    <3>1. t = v.tip
      BY <2>2 DEF RecoveredTip
    <3>2. v.tip <= v.tip
      BY <1>3, NextHeight
    <3> QED BY <3>1, <3>2, <1>3 DEF Closed
  <2> QED BY <2>1, <2>2
<1>5. FilesTyped' /\ FilesGrow /\ UNCHANGED <<blk, rev, curFile>>
  <2>1. curFile \in File
    BY <1>2 DEF FilesInv
  <2> QED BY <2>1, <1>1, <1>2, SyncIs
<1>6. FilesInv'
  <2>1. curSize' = Len(blk'[curFile']) /\ curSize' \in Nat
    <3>1. curSize' = Len(blk[curFile])
      BY <1>1 DEF NewBlockFileManager
    <3>2. blk[curFile] \in Seq(Unit)
      BY <1>2 DEF FilesInv, FilesTyped
    <3> QED BY <3>1, <3>2, <1>5, LenProperties
  <2> QED BY <2>1, <1>2, <1>5 DEF FilesInv
<1> HIDE DEF t, h
<1>7. v \in L
  BY <1>3, <1>5, DiskIs, KeptStay
<1>8. w \in L
  <2> HIDE DEF v
  <2> QED BY <1>3, <1>4, <1>7, KeptTip
<1>9. TipSet(v, t, w)
  <2> HIDE DEF v
  <2> QED BY <1>3, <1>4, WithTipIs
<1> HIDE DEF w
<1>10. IsDb(L, index', w)
  <2> HIDE DEF L
  <2> QED BY <1>1, <1>8, SingleIs
<1>11. IsDb(Best(flushed), chainstate', t)
  <2>1. t \in Best(flushed)
    BY <1>4 DEF Best
  <2> QED BY <2>1, <1>1, SingleIs
<1>12. VersionsInv'
  BY <1>1, <1>2, <1>4, <1>10, <1>11 DEF VersionsInv, IsDb
<1>13. Latest(index').tip = tip' /\ Latest(chainstate') = tip'
  BY <1>1, <1>9, <1>10, <1>11 DEF IsDb, TipSet
<1>14. Reads(disk, session, Latest(index))'
  BY <1>1, <1>2 DEF Reads
<1> QED BY <1>1, <1>2, <1>6, <1>12, <1>13, <1>14, RestStep

-----------------------------------------------------------------------------
(* The new data directory.                                                 *)
LEMMA StoreInit == Init => StoreInv
<1> SUFFICES ASSUME Init PROVE StoreInv
  OBVIOUS
<1> DEFINE v == [recs |-> [b \in Block |-> NoRec], tip |-> 0]
<1>1. 0 \in Height /\ 0 \in Nat /\ 1..0 = {} /\ 0 <= 0 /\ 0 \in File
  BY SMT, Blocks, FilesAssumption DEF Height, File
<1>2. v \in Kept(disk, {}, 0)
  BY <1>1 DEF Kept, Closed, Version
<1>3. IsDb(Kept(disk, {}, 0), <<v>>, v)
  <2> HIDE DEF v
  <2> QED BY <1>2, SingleIs
<1>4. IsDb(Best(0), <<0>>, 0)
  <2>1. 0 \in Best(0)
    BY <1>1 DEF Best
  <2> QED BY <2>1, SingleIs
<1>5. /\ index = <<v>> /\ chainstate = <<0>> /\ tip = 0 /\ synced = {} /\ session = {}
      /\ flushed = 0 /\ pc = "idle" /\ ibdMode = FALSE
  BY DEF Init
<1>6. VersionsInv
  <2> HIDE DEF v
  <2> QED BY <1>1, <1>3, <1>4, <1>5 DEF VersionsInv, IsDb
<1>7. CallInv
  <2>1. Latest(index).tip = tip /\ Latest(chainstate) = tip
    <3>1. v.tip = 0
      OBVIOUS
    <3> HIDE DEF v
    <3> QED BY <3>1, <1>3, <1>4, <1>5 DEF IsDb
  <2> QED BY <2>1, <1>5 DEF CallInv, RestInv, Reads
<1>8. FilesInv
  <2>1. /\ <<>> \in Seq(Unit) /\ <<>> \in Seq(Block) /\ Len(<<>>) = 0
    BY SMT
  <2> QED BY <2>1, <1>1 DEF Init, FilesInv, FilesTyped
<1> QED BY <1>6, <1>7, <1>8 DEF StoreInv

(* A step that changes nothing.                                            *)
LEMMA StoreStutter == StoreInv /\ UNCHANGED vars => StoreInv'
<1> SUFFICES ASSUME StoreInv, UNCHANGED vars PROVE StoreInv'
  OBVIOUS
<1>1. /\ UNCHANGED files /\ UNCHANGED <<index, chainstate, tip, ibdMode, pc, rec>>
      /\ UNCHANGED <<session, synced, flushed>>
  BY DEF vars, databases, ghosts
<1>2. FilesInv' /\ disk' = disk
  BY <1>1, FilesSame DEF StoreInv
<1>3. VersionsInv' /\ Latest(index)' = Latest(index) /\ Latest(chainstate)' = Latest(chainstate)
  BY <1>1, <1>2 DEF VersionsInv, StoreInv
<1>4. /\ RestInv => RestInv'
      /\ WriteInv => WriteInv'
      /\ ExtendInv => ExtendInv'
      /\ ReorgInv => ReorgInv'
  BY <1>1, <1>2, <1>3 DEF RestInv, WriteInv, ExtendInv, ReorgInv
<1>5. CallInv'
  BY <1>1, <1>2, <1>3, <1>4 DEF CallInv, StoreInv
<1> QED BY <1>2, <1>3, <1>5 DEF StoreInv

(* Every step keeps the invariant.                                         *)
LEMMA StoreStep == StoreInv /\ [Next]_vars => StoreInv'
BY ModeStep, StoreBlockStep, StoreUndoStep, StoreIndexStep, StoreUtxoStep, StoreTipStep,
   FlushFilesStep, FlushIndexStep, FlushUtxoStep, WriteFailsStep, ReorgStoreStep,
   ReorgTrialStep, ReorgConnectStep, ReorgTipStep, PowerLossStep, LoseTailStep, StartStep,
   StoreStutter DEF Next

(* The invariant gives the three properties.                               *)
LEMMA StoreMeans ==
    ASSUME StoreInv
    PROVE  AcceptedIsDurable /\ CheckpointKept /\ StoredIsReadable
<1>1. /\ FilesInv /\ VersionsInv /\ Reads(disk, session, Latest(index))
      /\ flushed \in Nat
  BY DEF StoreInv, CallInv, VersionsInv
<1>2. \A b, r : /\ HasBlock(disk, b, r) <=> Readable(b, r)
                /\ HasUndo(disk, b, r) <=> Undoable(b, r)
  <2>1. disk.blk = blk /\ disk.rev = rev
    BY DEF disk
  <2> QED BY <2>1 DEF HasBlock, HasUndo, Readable, Undoable, FrameAt, UndoAt, ReadBlock, ReadUndo
<1>3. index[1] \in Kept(disk, synced, flushed) /\ chainstate[1] \in Best(flushed)
  BY <1>1, LatestIs DEF VersionsInv
<1>4. AcceptedIsDurable
  <2>1. disk.blkSynced = blkSynced /\ disk.revSynced = revSynced
    BY DEF disk
  <2>2. \A b \in synced : b <= OnDisk.tip /\ AllSynced(disk, b, OnDisk.recs[b])
    BY <1>3 DEF Kept, OnDisk
  <2>3. \A b \in synced : Durable(b)
    BY <2>1, <2>2, <1>2 DEF AllSynced, BlockSynced, UndoSynced, Durable
  <2> QED BY <2>2, <2>3 DEF AcceptedIsDurable
<1>5. CheckpointKept
  <2>1. /\ flushed <= OnDisk.tip /\ OnDisk \in Version /\ flushed <= chainstate[1]
        /\ chainstate[1] \in Height /\ \A b \in 1..OnDisk.tip : OnDisk.recs[b] # NoRec
    BY <1>3 DEF Kept, OnDisk, Best, Closed
  <2>2. OnDisk.tip \in Nat /\ chainstate[1] \in Nat
    BY <2>1, VersionIs, Blocks
  <2>3. \A m, n \in Nat : m <= n => n >= m /\ \A b \in 1..m : b \in 1..n
    BY SMT
  <2> QED BY <2>1, <2>2, <2>3, <1>1 DEF CheckpointKept
<1>6. StoredIsReadable
  BY <1>1, <1>2 DEF Reads, StoredIsReadable
<1> QED BY <1>4, <1>5, <1>6

(* What ProcessBlock accepted with synced writes, a power loss does not    *)
(* take, for every number of blocks, losses, errors and every file size.   *)
THEOREM AcceptedIsDurableAlways == Spec => []AcceptedIsDurable
BY StoreInit, StoreStep, StoreMeans, PTL DEF Spec

(* Neither database falls back below a checkpoint of IBD mode.             *)
THEOREM CheckpointKeptAlways == Spec => []CheckpointKept
BY StoreInit, StoreStep, StoreMeans, PTL DEF Spec

(* What a process has stored it can read back.                             *)
THEOREM StoredIsReadableAlways == Spec => []StoredIsReadable
BY StoreInit, StoreStep, StoreMeans, PTL DEF Spec

=============================================================================
