---------------------------- MODULE WalletProofs ----------------------------
(***************************************************************************)
(* That no address is handed out twice, that an encrypted seed stays       *)
(* encrypted and that the wallet has the key of every address, for every   *)
(* set of seeds, keys, coins and payments and any number of faults and     *)
(* restarts.                                                               *)
(*                                                                         *)
(* None is inductive.  What is missing is how the file and the wallet in   *)
(* memory stand to each other: the file is of the seed the wallet derives  *)
(* from, an address is below the next index of both, a wallet without its  *)
(* chain keys has the indices of its file, and an unencrypted one has a    *)
(* seed that was never sealed.  For the keys (KeysInv), that those of the  *)
(* seed are in their order among all keys, imported ones included.         *)
(***************************************************************************)
EXTENDS Wallet, SequenceTheorems, TLAPS

(* First-order steps; a leaf that needs arithmetic or functions cites SMT. *)
USE Zenon

Address == Seed \X Chain \X Nat
Key     == Address \cup { <<k>> : k \in Foreign }

WalletType ==
    [seed : Seed \cup {None, Zeroed}, master : Seed \cup {None}, next : [Chain -> Nat],
     keys : [Chain -> Seq(Key)], encrypted : BOOLEAN, locked : BOOLEAN, timed : BOOLEAN]

FileType ==
    [state : {"none", "empty", "partial", "wallet"}, encrypted : BOOLEAN,
     seed : Seed \cup {None}, next : [Chain -> Nat]]

WalletTyped ==
    /\ up \in BOOLEAN
    /\ wal \in WalletType /\ file \in FileType
    /\ generated \subseteq Seed /\ sealed \subseteq generated
    /\ issued \in Seq(Address)

(* The seeds: of the file, of a wallet that is not encrypted and of one    *)
(* that has its chain keys.                                                *)
SeedsAgree ==
    /\ IF file.state = "wallet" THEN file.seed \in generated ELSE file.seed = None
    /\ up /\ ~wal.encrypted => wal.seed \in generated \ sealed /\ wal.master = wal.seed
    /\ up /\ wal.master # None =>
           /\ wal.master \in generated /\ wal.seed # None
           /\ file.state = "wallet" => file.seed = wal.master
    /\ up /\ wal.master = None =>
           /\ wal.seed = None /\ wal.encrypted
           /\ file.state = "wallet" /\ wal.next = file.next

(* Every address handed out is below the next indices of its seed.         *)
Below(seed, next) ==
    \A i \in DOMAIN issued : issued[i][1] = seed => issued[i][3] < next[issued[i][2]]

IssuedBelow ==
    /\ \A i \in DOMAIN issued : issued[i][1] \in generated
    /\ Below(file.seed, file.next)
    /\ up => Below(wal.master, wal.next)

WalletInv == WalletTyped /\ SeedsAgree /\ SealedStaysSealed /\ IssuedBelow /\ AddressesAreFresh

(* The keys: a file and a wallet have at least the default address, and a  *)
(* wallet without its chain keys is locked and has no keys at all.         *)
Held(w) ==
    /\ \A c \in Chain : Complete(w, c)
    /\ w.keys["external"] # <<>>
    /\ w.keys["external"][1] = <<w.master, "external", 0>>

KeysInv ==
    /\ file.state = "wallet" => file.next["external"] > 0
    /\ up => wal.next["external"] > 0
    /\ up /\ wal.master = None => wal.locked /\ wal.keys = Blank.keys
    /\ up /\ wal.master # None => Held(wal)

-----------------------------------------------------------------------------
(* The operators on the wallet in memory.                                  *)

(* A new wallet is one, with nothing in it.                                *)
LEMMA BlankType == Blank \in WalletType
<1>1. <<>> \in Seq(Key)
  BY SMT
<1> QED
  BY <1>1 DEF Blank, WalletType

(* The next key of a chain changes the keys and the next index of it.      *)
LEMMA DeriveNextIs ==
    ASSUME NEW w \in WalletType, NEW c \in Chain, w.master \in Seed
    PROVE  LET d == DeriveNext(w, c)
           IN  /\ d \in WalletType
               /\ d.seed = w.seed /\ d.master = w.master /\ d.encrypted = w.encrypted
               /\ d.next = [w.next EXCEPT ![c] = w.next[c] + 1]
               /\ d.keys = [w.keys EXCEPT ![c] = Append(w.keys[c], <<w.master, c, w.next[c]>>)]
<1>1. <<w.master, c, w.next[c]>> \in Key
  BY DEF WalletType, Key, Address
<1>2. Append(w.keys[c], <<w.master, c, w.next[c]>>) \in Seq(Key)
  BY SMT, <1>1 DEF WalletType
<1>3. /\ Derive(w, c, w.next[c]) \in WalletType
      /\ Derive(w, c, w.next[c]).seed = w.seed
      /\ Derive(w, c, w.next[c]).master = w.master
      /\ Derive(w, c, w.next[c]).encrypted = w.encrypted
      /\ Derive(w, c, w.next[c]).next = w.next
      /\ Derive(w, c, w.next[c]).keys
           = [w.keys EXCEPT ![c] = Append(w.keys[c], <<w.master, c, w.next[c]>>)]
  BY Zenon, <1>2 DEF Derive, WalletType
<1> DEFINE v == Derive(w, c, w.next[c])
<1>4. DeriveNext(w, c) = [v EXCEPT !.next = [v.next EXCEPT ![c] = v.next[c] + 1]]
  BY <1>3 DEF DeriveNext, WalletType
<1>5. [v.next EXCEPT ![c] = v.next[c] + 1] \in [Chain -> Nat]
  BY SMT, <1>3 DEF WalletType
<1> HIDE DEF v
<1> QED
  BY Zenon, <1>3, <1>4, <1>5 DEF WalletType, v

(* A wallet that loads a seed derives from it and keeps its next indices.  *)
LEMMA LoadSeedIs ==
    ASSUME NEW w \in WalletType, NEW seed \in Seed
    PROVE  LET d == LoadSeedAndDerive(w, seed)
           IN  /\ d \in WalletType
               /\ d.seed = seed /\ d.master = seed
               /\ d.encrypted = w.encrypted /\ d.next = w.next
               /\ d.keys = [c \in Chain |->
                     w.keys[c] \o [i \in 1..w.next[c] |-> <<seed, c, i - 1>>]]
<1> DEFINE Loaded(c) == [i \in 1..w.next[c] |-> <<seed, c, i - 1>>]
<1>1. ASSUME NEW c \in Chain
      PROVE  w.keys[c] \o Loaded(c) \in Seq(Key)
  <2>1. w.next[c] \in Nat /\ w.keys[c] \in Seq(Key)
    BY DEF WalletType
  <2>2. \A i \in 1..w.next[c] : <<seed, c, i - 1>> \in Key
    BY SMT, <2>1 DEF Key, Address
  <2> DEFINE n == w.next[c]
  <2>3. Loaded(c) \in [1..n -> Key]
    BY <2>2
  <2> HIDE DEF Loaded, n
  <2>4. Loaded(c) \in Seq(Key)
    BY SMT, <2>1, <2>3 DEF n
  <2> QED
    BY SMT, <2>1, <2>4
<1> DEFINE ks == [c \in Chain |-> w.keys[c] \o Loaded(c)]
<1>2. ks \in [Chain -> Seq(Key)]
  BY <1>1
<1>3. LoadSeedAndDerive(w, seed) = [w EXCEPT !.seed = seed, !.master = seed, !.keys = ks]
  BY DEF LoadSeedAndDerive
<1> HIDE DEF ks
<1> QED
  BY Zenon, <1>2, <1>3 DEF WalletType, ks

(* A lock zeroes the seed that is there and keeps the chain keys.          *)
LEMMA LockedIs ==
    ASSUME NEW w \in WalletType
    PROVE  /\ Locked(w) \in WalletType
           /\ Locked(w).master = w.master /\ Locked(w).next = w.next
           /\ Locked(w).encrypted = w.encrypted /\ Locked(w).keys = w.keys /\ Locked(w).locked
           /\ Locked(w).seed = IF w.seed = None THEN None ELSE Zeroed
BY Zenon DEF Locked, WalletType

-----------------------------------------------------------------------------
(* The steps.                                                              *)

(* What save writes is a file of the wallet's seed and next indices, and   *)
(* in the clear only if the wallet is not encrypted.                       *)
LEMMA SavedIs ==
    ASSUME file \in FileType, NEW w \in WalletType, CanSave(w),
           w.encrypted => file.seed = w.master,
           ~w.encrypted => w.seed = w.master /\ w.seed \in Seed
    PROVE  /\ Saved(w) \in FileType
           /\ Saved(w).state = "wallet" /\ Saved(w).seed = w.master
           /\ Saved(w).next = w.next
           /\ Saved(w).encrypted = (w.encrypted /\ file.encrypted)
<1>1. CASE w.encrypted
  BY Zenon, <1>1 DEF Saved, CanSave, FileType, WalletType
<1>2. CASE ~w.encrypted
  BY Zenon, <1>2 DEF Saved, FileOf, FileType, WalletType
<1> QED
  BY <1>1, <1>2 DEF WalletType

(* A failed write leaves the file or one that holds no seed.               *)
LEMMA WriteFailsIs ==
    ASSUME WalletInv, WriteFails
    PROVE  /\ file' \in FileType
           /\ file' = file \/ (file'.state # "wallet" /\ file'.seed = None)
<1>1. /\ NoFile("empty") \in FileType /\ NoFile("partial") \in FileType
      /\ NoFile("empty").seed = None /\ NoFile("partial").seed = None
      /\ NoFile("empty").state = "empty" /\ NoFile("partial").state = "partial"
  BY DEF NoFile, Blank, FileType
<1> QED
  BY <1>1 DEF WriteFails, WalletInv, WalletTyped

(* No address is of the absent seed.                                       *)
LEMMA BelowNone == ASSUME WalletInv, NEW next PROVE Below(None, next)
BY WalletAssumption DEF WalletInv, WalletTyped, IssuedBelow, Below

(* The key DeriveNext adds, with a file of the same seed behind it.        *)
LEMMA DeriveNextKeeps ==
    ASSUME WalletInv, up, NEW c \in Chain, wal.master # None,
           wal' = DeriveNext(wal, c)
    PROVE  /\ wal' \in WalletType /\ wal.master \in Seed
           /\ wal'.seed = wal.seed /\ wal'.master = wal.master
           /\ wal'.encrypted = wal.encrypted
           /\ wal'.next = [wal.next EXCEPT ![c] = wal.next[c] + 1]
           /\ wal.next \in [Chain -> Nat]
           /\ CanSave(wal') => /\ wal'.encrypted => file.seed = wal'.master
                               /\ ~wal'.encrypted => wal'.seed = wal'.master /\ wal'.seed \in Seed
<1>1. wal \in WalletType /\ wal.master \in Seed /\ wal.next \in [Chain -> Nat]
  BY DEF WalletInv, WalletTyped, WalletType
<1> QED
  BY <1>1, DeriveNextIs DEF WalletInv, WalletTyped, SeedsAgree, CanSave

(* An address that is returned is new, and below the index that was saved. *)
LEMMA IssueKeeps ==
    ASSUME WalletInv, up, NEW c \in Chain, Issue(c), UNCHANGED <<up, generated, sealed>>
    PROVE  WalletInv'
<1> DEFINE a == <<wal.master, c, wal.next[c]>>
<1>1. /\ wal.master # None /\ wal' = DeriveNext(wal, c)
      /\ CanSave(wal') /\ file' = Saved(wal') /\ issued' = Append(issued, a)
  BY DEF Issue, Save
<1>2. /\ wal' \in WalletType /\ wal.master \in Seed
      /\ wal'.seed = wal.seed /\ wal'.master = wal.master
      /\ wal'.encrypted = wal.encrypted
      /\ wal'.next = [wal.next EXCEPT ![c] = wal.next[c] + 1]
      /\ wal.next \in [Chain -> Nat]
  BY <1>1, DeriveNextKeeps
<1>3. /\ file' \in FileType /\ file'.state = "wallet" /\ file'.seed = wal'.master
      /\ file'.next = wal'.next /\ file'.encrypted = (wal'.encrypted /\ file.encrypted)
  <2>1. file \in FileType
    BY DEF WalletInv, WalletTyped
  <2>2. /\ wal'.encrypted => file.seed = wal'.master
        /\ ~wal'.encrypted => wal'.seed = wal'.master /\ wal'.seed \in Seed
    BY Zenon, <1>1, DeriveNextKeeps
  <2> QED
    BY <1>1, <1>2, <2>1, <2>2, SavedIs
<1>4. a \in Address /\ issued \in Seq(Address) /\ wal.master \in generated
  BY <1>1, <1>2 DEF Address, WalletInv, WalletTyped, SeedsAgree
<1>5. \A i \in DOMAIN issued : issued[i] \in Address /\ issued[i] # a
  BY SMT, <1>2, <1>4 DEF WalletInv, IssuedBelow, Below, Address
<1> HIDE DEF a
<1>6. /\ issued' \in Seq(Address)
      /\ \A i \in DOMAIN issued' :
             \/ i \in DOMAIN issued /\ issued'[i] = issued[i]
             \/ issued'[i] = a
  BY SMT, <1>1, <1>4
<1>7. AddressesAreFresh'
  <2>1. ASSUME NEW i \in DOMAIN issued', NEW j \in DOMAIN issued', issued'[i] = issued'[j]
        PROVE  i = j
    <3>1. DOMAIN issued' = 1..(Len(issued) + 1) /\ DOMAIN issued = 1..Len(issued)
      BY SMT, <1>1, <1>4
    <3>2. /\ \A k \in 1..Len(issued) : issued'[k] = issued[k]
          /\ issued'[Len(issued) + 1] = a /\ Len(issued) \in Nat
      BY SMT, <1>1, <1>4
    <3>3. \A k, l \in 1..Len(issued) : issued[k] = issued[l] => k = l
      BY <3>1 DEF WalletInv, AddressesAreFresh, IsInjective
    <3> QED
      BY SMT, <2>1, <3>1, <3>2, <3>3, <1>5
  <2> QED
    BY <2>1 DEF AddressesAreFresh, IsInjective
<1>8. WalletTyped'
  BY <1>2, <1>3, <1>6 DEF WalletInv, WalletTyped
<1>9. SeedsAgree'
  BY <1>1, <1>2, <1>3, <1>4 DEF WalletInv, SeedsAgree
<1>10. SealedStaysSealed'
  BY Zenon, <1>1, <1>2, <1>3, <1>4 DEF WalletInv, SeedsAgree, SealedStaysSealed, CanSave
<1>11. IssuedBelow'
  <2>1. ASSUME NEW i \in DOMAIN issued'
        PROVE  /\ issued'[i][1] \in generated
               /\ issued'[i][1] = wal.master => issued'[i][3] < wal'.next[issued'[i][2]]
    <3>1. CASE issued'[i] = a
      BY SMT, <3>1, <1>2, <1>4 DEF a
    <3>2. CASE i \in DOMAIN issued /\ issued'[i] = issued[i]
      <4>1. /\ issued[i][1] \in generated /\ issued[i][2] \in Chain /\ issued[i][3] \in Nat
            /\ issued[i][1] = wal.master => issued[i][3] < wal.next[issued[i][2]]
        BY <3>2, <1>5 DEF WalletInv, IssuedBelow, Below, Address
      <4> QED
        BY SMT, <4>1, <3>2, <1>2
    <3> QED
      BY <3>1, <3>2, <1>6
  <2> QED
    BY <2>1, <1>2, <1>3 DEF IssuedBelow, Below
<1> QED
  BY <1>7, <1>8, <1>9, <1>10, <1>11 DEF WalletInv

(* An address whose save failed is forgotten by the file and not returned. *)
LEMMA IssueFailsKeeps ==
    ASSUME WalletInv, up, NEW c \in Chain, IssueFails(c), UNCHANGED <<up, generated, sealed>>
    PROVE  WalletInv'
<1>1. /\ wal.master # None /\ wal' = DeriveNext(wal, c)
      /\ SaveFails(wal') /\ issued' = issued
  BY DEF IssueFails
<1>2. /\ wal' \in WalletType /\ wal.master \in Seed
      /\ wal'.seed = wal.seed /\ wal'.master = wal.master
      /\ wal'.encrypted = wal.encrypted
      /\ wal'.next = [wal.next EXCEPT ![c] = wal.next[c] + 1]
      /\ wal.next \in [Chain -> Nat]
  BY <1>1, DeriveNextKeeps
<1>3. /\ file' \in FileType
      /\ file' = file \/ (file'.state # "wallet" /\ file'.seed = None)
  BY <1>1, WriteFailsIs DEF SaveFails, WalletInv, WalletTyped
<1>4. WalletTyped'
  BY <1>1, <1>2, <1>3 DEF WalletInv, WalletTyped
<1>5. SeedsAgree'
  BY <1>1, <1>2, <1>3 DEF WalletInv, SeedsAgree
<1>6. SealedStaysSealed' /\ AddressesAreFresh'
  BY <1>1, <1>3, WalletAssumption DEF WalletInv, WalletTyped, SealedStaysSealed, AddressesAreFresh
<1>7. IssuedBelow'
  <2>1. Below(file.seed, file.next) /\ Below(None, file'.next)
    BY BelowNone DEF WalletInv, IssuedBelow
  <2>2. ASSUME NEW i \in DOMAIN issued, issued[i][1] = wal.master
        PROVE  issued[i][3] < wal'.next[issued[i][2]]
    <3>1. issued[i][2] \in Chain /\ issued[i][3] \in Nat
      BY SMT DEF WalletInv, WalletTyped, Address
    <3>2. issued[i][3] < wal.next[issued[i][2]]
      BY <2>2 DEF WalletInv, IssuedBelow, Below
    <3> QED
      BY SMT, <3>1, <3>2, <1>2
  <2> QED
    BY <1>1, <1>2, <1>3, <2>1, <2>2 DEF WalletInv, IssuedBelow, Below
<1> QED
  BY <1>4, <1>5, <1>6, <1>7 DEF WalletInv

(* The wallet changes, the file and the addresses do not.                  *)
LEMMA MemoryKeeps ==
    ASSUME WalletInv, up, up' = up, UNCHANGED <<file, ghosts>>,
           wal' \in WalletType, wal'.encrypted = wal.encrypted, wal'.next = wal.next,
           \/ wal'.master = wal.master /\ (wal'.seed = None <=> wal.seed = None)
              /\ (wal.encrypted \/ wal'.seed = wal.seed)
           \/ wal.master = None /\ wal'.master = file.seed /\ wal'.seed = file.seed
    PROVE  WalletInv'
<1>1. WalletTyped' /\ SealedStaysSealed' /\ AddressesAreFresh'
  BY DEF WalletInv, WalletTyped, SealedStaysSealed, AddressesAreFresh, ghosts
<1>2. CASE wal'.master = wal.master /\ (wal'.seed = None <=> wal.seed = None)
           /\ (wal.encrypted \/ wal'.seed = wal.seed)
  BY <1>1, <1>2 DEF WalletInv, SeedsAgree, IssuedBelow, Below, ghosts
<1>3. CASE wal.master = None /\ wal'.master = file.seed /\ wal'.seed = file.seed
  <2>1. file.seed \in generated /\ file.seed # None
    BY <1>3, WalletAssumption DEF WalletInv, WalletTyped, SeedsAgree
  <2> QED
    BY <1>1, <1>3, <2>1 DEF WalletInv, SeedsAgree, IssuedBelow, Below, ghosts
<1> QED
  BY <1>2, <1>3

(* A restart from a wallet file has its indices and, in the clear, its     *)
(* seed.                                                                   *)
LEMMA LoadKeeps == ASSUME WalletInv, LoadFromJSON PROVE WalletInv'
<1> DEFINE w == [Blank EXCEPT !.next = file.next, !.encrypted = file.encrypted,
                              !.locked = file.encrypted]
<1>1. /\ w \in WalletType /\ w.seed = None /\ w.master = None
      /\ w.next = file.next /\ w.encrypted = file.encrypted
  BY Zenon, BlankType DEF WalletType, Blank, WalletInv, WalletTyped, FileType
<1>2. /\ file.state = "wallet" /\ file.seed \in generated /\ file.seed \in Seed
      /\ file.seed # None /\ file.encrypted \in BOOLEAN
  BY WalletAssumption DEF LoadFromJSON, WalletInv, WalletTyped, SeedsAgree, FileType
<1>3. wal' = IF file.encrypted THEN w ELSE LoadSeedAndDerive(w, file.seed)
  BY DEF LoadFromJSON
<1>4. up' = TRUE /\ UNCHANGED <<file, ghosts>>
  BY DEF LoadFromJSON
<1> HIDE DEF w
<1>5. /\ wal' \in WalletType /\ wal'.encrypted = file.encrypted /\ wal'.next = file.next
      /\ IF file.encrypted THEN wal'.master = None /\ wal'.seed = None
                           ELSE wal'.master = file.seed /\ wal'.seed = file.seed
  BY <1>1, <1>2, <1>3, LoadSeedIs
<1>6. WalletTyped' /\ SealedStaysSealed' /\ AddressesAreFresh'
  BY <1>4, <1>5 DEF WalletInv, WalletTyped, SealedStaysSealed, AddressesAreFresh, ghosts
<1>7. SeedsAgree'
  BY <1>2, <1>4, <1>5 DEF WalletInv, SeedsAgree, SealedStaysSealed, ghosts
<1>8. IssuedBelow'
  <2>1. Below(None, file.next) /\ Below(file.seed, file.next)
    BY BelowNone DEF WalletInv, IssuedBelow
  <2> QED
    BY <1>4, <1>5, <2>1 DEF WalletInv, IssuedBelow, Below, ghosts
<1> QED
  BY <1>6, <1>7, <1>8 DEF WalletInv

(* A new seed is of no address and was never sealed.                       *)
LEMMA CreateKeeps == ASSUME WalletInv, ~up, CreateNew PROVE WalletInv'
<1>1. PICK seed \in Seed \ generated :
          LET w == DeriveNext([Blank EXCEPT !.seed = seed, !.master = seed], "external")
          IN  /\ generated' = generated \cup {seed}
              /\ \/ /\ file' = Saved(w) /\ wal' = w /\ up' = TRUE
                    /\ issued' = Append(issued, <<seed, "external", 0>>)
                 \/ /\ file' \in {file, Saved(w), NoFile("empty"), NoFile("partial")}
                    /\ UNCHANGED <<wal, up, issued>>
  BY Zenon DEF CreateNew
<1> DEFINE v == [Blank EXCEPT !.seed = seed, !.master = seed]
           w == DeriveNext(v, "external")
           a == <<seed, "external", 0>>
<1>2. sealed' = sealed
  BY DEF CreateNew
<1>3. /\ v \in WalletType /\ v.seed = seed /\ v.master = seed /\ v.encrypted = FALSE
      /\ v.next = [c \in Chain |-> 0]
  BY Zenon, BlankType DEF WalletType, Blank
<1>4. /\ w \in WalletType /\ w.seed = seed /\ w.master = seed /\ w.encrypted = FALSE
      /\ w.next = [v.next EXCEPT !["external"] = v.next["external"] + 1]
  <2>1. "external" \in Chain
    BY DEF Chain
  <2> HIDE DEF v
  <2>2. v \in WalletType /\ v.master \in Seed
    BY <1>3
  <2>3. /\ w \in WalletType /\ w.seed = v.seed /\ w.master = v.master
        /\ w.encrypted = v.encrypted
        /\ w.next = [v.next EXCEPT !["external"] = v.next["external"] + 1]
    BY <2>1, <2>2, DeriveNextIs
  <2> QED
    BY <1>3, <2>3
<1>5. w.next["external"] = 1
  BY SMT, <1>3, <1>4 DEF Chain
<1>6. /\ Saved(w) \in FileType /\ Saved(w).state = "wallet" /\ Saved(w).seed = seed
      /\ Saved(w).next = w.next
  BY <1>4 DEF Saved, FileOf, FileType, WalletType
<1>7. \A i \in DOMAIN issued : issued[i] \in Address /\ issued[i][1] # seed
  BY SMT DEF WalletInv, WalletTyped, IssuedBelow
<1>8. a \in Address
  BY DEF Address, Chain
<1>9. CASE /\ file' = Saved(w) /\ wal' = w /\ up' = TRUE /\ issued' = Append(issued, a)
  <2> HIDE DEF w, v
  <2>1. /\ issued' \in Seq(Address) /\ issued \in Seq(Address)
        /\ DOMAIN issued' = 1..(Len(issued) + 1) /\ DOMAIN issued = 1..Len(issued)
        /\ \A k \in 1..Len(issued) : issued'[k] = issued[k]
        /\ issued'[Len(issued) + 1] = a /\ Len(issued) \in Nat
    <3>1. issued \in Seq(Address)
      BY DEF WalletInv, WalletTyped
    <3> HIDE DEF a
    <3> QED
      BY SMT, <1>8, <1>9, <3>1
  <2>2. AddressesAreFresh'
    <3>1. \A k, l \in 1..Len(issued) : issued[k] = issued[l] => k = l
      BY <2>1 DEF WalletInv, AddressesAreFresh, IsInjective
    <3>2. \A k \in 1..Len(issued) : issued[k] # a
      BY SMT, <1>7, <2>1
    <3> HIDE DEF a
    <3>3. \A k, l \in 1..(Len(issued) + 1) : issued'[k] = issued'[l] => k = l
      BY SMTT(30), <2>1, <3>1, <3>2
    <3> QED
      BY <2>1, <3>3 DEF AddressesAreFresh, IsInjective
  <2>3. WalletTyped'
    BY Zenon, <1>1, <1>2, <1>4, <1>6, <1>9, <2>1 DEF WalletInv, WalletTyped
  <2>4. SeedsAgree' /\ SealedStaysSealed'
    BY <1>1, <1>2, <1>4, <1>6, <1>9, WalletAssumption
    DEF WalletInv, WalletTyped, SeedsAgree, SealedStaysSealed
  <2>5. IssuedBelow'
    <3>1. \A k \in DOMAIN issued' : \/ issued'[k] = a
                                    \/ k \in DOMAIN issued /\ issued'[k] = issued[k]
      BY SMT, <2>1
    <3>2. a[1] = seed /\ a[2] = "external" /\ a[3] = 0
      OBVIOUS
    <3> HIDE DEF a
    <3>3. \A k \in DOMAIN issued' :
              /\ issued'[k][1] \in generated'
              /\ issued'[k][1] = seed => issued'[k][3] < w.next[issued'[k][2]]
      BY SMT, <1>1, <1>5, <1>7, <3>1, <3>2 DEF WalletInv, IssuedBelow
    <3> QED
      BY Zenon, <1>4, <1>6, <1>9, <3>3 DEF IssuedBelow, Below
  <2> QED
    BY <2>2, <2>3, <2>4, <2>5 DEF WalletInv
<1>10. CASE /\ file' \in {file, Saved(w), NoFile("empty"), NoFile("partial")}
            /\ UNCHANGED <<wal, up, issued>>
  <2> HIDE DEF w, v
  <2>1. /\ NoFile("empty") \in FileType /\ NoFile("partial") \in FileType
        /\ NoFile("empty").seed = None /\ NoFile("partial").seed = None
        /\ NoFile("empty").state = "empty" /\ NoFile("partial").state = "partial"
    BY DEF NoFile, Blank, FileType
  <2>2. WalletTyped' /\ AddressesAreFresh'
    BY <1>1, <1>2, <1>6, <1>10, <2>1 DEF WalletInv, WalletTyped, AddressesAreFresh
  <2>3. SeedsAgree' /\ SealedStaysSealed'
    BY <1>1, <1>2, <1>6, <1>10, <2>1, WalletAssumption
    DEF WalletInv, WalletTyped, SeedsAgree, SealedStaysSealed
  <2>4. Below(seed, w.next) /\ Below(None, NoFile("empty").next)
        /\ Below(None, NoFile("partial").next)
    BY <1>7, BelowNone DEF Below
  <2>5. IssuedBelow'
    BY <1>1, <1>6, <1>10, <2>1, <2>4 DEF WalletInv, IssuedBelow, Below
  <2> QED
    BY <2>2, <2>3, <2>5 DEF WalletInv
<1> QED
  BY Zenon, <1>1, <1>9, <1>10

(* Encryption seals the wallet's seed, or fails and leaves none sealed.    *)
LEMMA EncryptKeeps == ASSUME WalletInv, EncryptWallet PROVE WalletInv'
<1>1. /\ up /\ up' = up /\ ~wal.encrypted /\ UNCHANGED <<generated, issued>>
      /\ wal' = [wal EXCEPT !.encrypted = TRUE, !.locked = TRUE]
  BY DEF EncryptWallet
<1>2. /\ wal' \in WalletType /\ wal'.seed = wal.seed /\ wal'.master = wal.master
      /\ wal'.next = wal.next /\ wal'.encrypted
  BY Zenon, <1>1 DEF WalletInv, WalletTyped, WalletType
<1>3. /\ wal.seed \in generated /\ wal.seed \in Seed /\ wal.master = wal.seed
      /\ wal.seed # None /\ wal.next \in [Chain -> Nat]
  BY <1>1, WalletAssumption DEF WalletInv, WalletTyped, SeedsAgree, WalletType
<1>4. CASE file' = FileOf(wal.seed, wal.next, TRUE) /\ sealed' = sealed \cup {wal.seed}
  <2>1. /\ file' \in FileType /\ file'.state = "wallet" /\ file'.seed = wal.seed
        /\ file'.next = wal.next /\ file'.encrypted
    BY <1>3, <1>4 DEF FileOf, FileType
  <2>2. WalletTyped' /\ AddressesAreFresh'
    BY Zenon, <1>1, <1>2, <1>3, <1>4, <2>1 DEF WalletInv, WalletTyped, AddressesAreFresh
  <2>3. SeedsAgree' /\ SealedStaysSealed'
    BY SMT, <1>1, <1>2, <1>3, <2>1 DEF SeedsAgree, SealedStaysSealed
  <2>4. IssuedBelow'
    BY <1>1, <1>2, <1>3, <2>1 DEF WalletInv, IssuedBelow, Below
  <2> QED
    BY <2>2, <2>3, <2>4 DEF WalletInv
<1>5. CASE WriteFails /\ sealed' = sealed
  <2>1. /\ file' \in FileType
        /\ file' = file \/ (file'.state # "wallet" /\ file'.seed = None)
    BY <1>5, WriteFailsIs
  <2>2. Below(None, file'.next)
    BY BelowNone
  <2>3. None \notin sealed
    BY WalletAssumption DEF WalletInv, WalletTyped
  <2> QED
    BY SMT, <1>1, <1>2, <1>3, <1>5, <2>1, <2>2, <2>3
    DEF WalletInv, WalletTyped, SeedsAgree, SealedStaysSealed, IssuedBelow, Below, AddressesAreFresh
<1> QED
  BY Zenon, <1>4, <1>5 DEF EncryptWallet

(* A crash forgets the wallet in memory and keeps the file.                *)
LEMMA CrashKeeps == ASSUME WalletInv, Crash PROVE WalletInv'
BY Zenon, BlankType
DEF Crash, ghosts, WalletInv, WalletTyped, SeedsAgree, SealedStaysSealed, IssuedBelow, Below,
    AddressesAreFresh

(* Importing a key changes the wallet in memory only.                      *)
LEMMA ImportKeeps ==
    ASSUME WalletInv, NEW k \in Foreign, ImportPrivKey(k) PROVE WalletInv'
<1>1. wal \in WalletType
  BY DEF WalletInv, WalletTyped
<1>2. "external" \in Chain /\ <<k>> \in Key
  BY DEF Chain, Key
<1>3. Append(wal.keys["external"], <<k>>) \in Seq(Key)
  BY SMT, <1>1, <1>2 DEF WalletType
<1>4. /\ wal' \in WalletType /\ wal'.seed = wal.seed /\ wal'.master = wal.master
      /\ wal'.next = wal.next /\ wal'.encrypted = wal.encrypted
  BY Zenon, <1>1, <1>3 DEF ImportPrivKey, WalletType
<1> QED
  BY <1>4, MemoryKeeps DEF ImportPrivKey, Unlocked

(* An unlock keeps it: keys are derived only where there were none.        *)
LEMMA PassphraseKeeps ==
    ASSUME WalletInv, NEW timed \in BOOLEAN, WalletPassphrase(timed) PROVE WalletInv'
<1> DEFINE w == IF wal.seed = None THEN LoadSeedAndDerive(wal, file.seed) ELSE wal
<1>1. /\ up /\ up' = up /\ UNCHANGED <<file, ghosts>> /\ file.state = "wallet"
      /\ wal' = [w EXCEPT !.locked = FALSE, !.timed = timed]
  BY DEF WalletPassphrase
<1>2. wal \in WalletType /\ file.seed \in Seed
  BY <1>1 DEF WalletInv, WalletTyped, SeedsAgree
<1>3. /\ w \in WalletType /\ w.encrypted = wal.encrypted /\ w.next = wal.next
      /\ IF wal.seed = None THEN w.master = file.seed /\ w.seed = file.seed
                            ELSE w.master = wal.master /\ w.seed = wal.seed
  BY <1>2, LoadSeedIs
<1> HIDE DEF w
<1>4. /\ wal' \in WalletType /\ wal'.encrypted = wal.encrypted /\ wal'.next = wal.next
      /\ wal'.master = w.master /\ wal'.seed = w.seed
  BY Zenon, <1>1, <1>3 DEF WalletType
<1>5. wal.seed = None => wal.master = None
  BY <1>1 DEF WalletInv, SeedsAgree
<1> QED
  BY <1>1, <1>3, <1>4, <1>5, MemoryKeeps

(* A lock, asked for or by its time, keeps it.                             *)
LEMMA LockKeeps == ASSUME WalletInv, WalletLock \/ IsLockedExpired PROVE WalletInv'
<1>1. up /\ up' = up /\ UNCHANGED <<file, ghosts>> /\ wal.encrypted /\ wal' = Locked(wal)
  BY DEF WalletLock, IsLockedExpired
<1>2. /\ wal' \in WalletType /\ wal'.master = wal.master /\ wal'.next = wal.next
      /\ wal'.encrypted = wal.encrypted
      /\ wal'.seed = IF wal.seed = None THEN None ELSE Zeroed
  BY Zenon, <1>1, LockedIs DEF WalletInv, WalletTyped
<1> QED
  BY <1>1, <1>2, MemoryKeeps, WalletAssumption

(* The wallet, the file and the addresses stay.                            *)
LEMMA StutterKeeps ==
    ASSUME WalletInv, UNCHANGED <<up, wal, file, generated, issued, sealed>> PROVE WalletInv'
BY DEF WalletInv, WalletTyped, SeedsAgree, SealedStaysSealed, IssuedBelow, Below, AddressesAreFresh

-----------------------------------------------------------------------------
(* The inductive invariant holds when the node is first started, and every *)
(* step of the wallet keeps it.                                            *)
THEOREM WalletInvAlways == Spec => []WalletInv
<1>1. Init => WalletInv
  <2> SUFFICES ASSUME Init PROVE WalletInv
    OBVIOUS
  <2>1. /\ NoFile("none") \in FileType /\ NoFile("none").seed = None
        /\ NoFile("none").state = "none"
    BY DEF NoFile, Blank, FileType
  <2>2. issued = <<>> /\ issued \in Seq(Address) /\ DOMAIN issued = {}
    BY SMT DEF Init
  <2> QED
    BY Zenon, <2>1, <2>2, BlankType
    DEF Init, WalletInv, WalletTyped, SeedsAgree, SealedStaysSealed, IssuedBelow, Below,
        AddressesAreFresh, IsInjective
<1>2. WalletInv /\ [Next]_vars => WalletInv'
  <2> SUFFICES ASSUME WalletInv, [Next]_vars PROVE WalletInv'
    OBVIOUS
  <2>1. CASE NewHDWallet
    BY <2>1, LoadKeeps, CreateKeeps DEF NewHDWallet
  <2>2. CASE Crash
    BY <2>2, CrashKeeps
  <2>3. ASSUME NEW c \in Chain, GetAddress(c) PROVE WalletInv'
    BY <2>3, IssueKeeps, IssueFailsKeeps DEF GetAddress
  <2>4. ASSUME NEW k \in Foreign, ImportPrivKey(k) PROVE WalletInv'
    BY <2>4, ImportKeeps
  <2>5. CASE EncryptWallet
    BY <2>5, EncryptKeeps
  <2>6. CASE WalletLock \/ IsLockedExpired
    BY <2>6, LockKeeps
  <2>7. ASSUME NEW timed \in BOOLEAN, WalletPassphrase(timed) PROVE WalletInv'
    BY <2>7, PassphraseKeeps
  <2>8. ASSUME NEW coins \in Purse, NEW amounts \in Payment, NEW rate \in Rate,
               SendToAddress(coins, amounts, rate) \/ SendMany(coins, amounts, rate)
        PROVE  WalletInv'
    <3>1. UNCHANGED <<up, wal, file, generated, issued, sealed>>
      BY Zenon, <2>8 DEF SendToAddress, SendMany, SendBegin, ghosts
    <3> QED
      BY <3>1, StutterKeeps
  <2>9. CASE SendFinish
    <3>1. up /\ UNCHANGED <<up, generated, sealed>> /\ "change" \in Chain
      BY <2>9 DEF SendFinish, Chain
    <3>2. \/ Issue("change") \/ IssueFails("change")
          \/ UNCHANGED <<wal, file, issued>>
      BY <2>9 DEF SendFinish
    <3> QED
      BY <3>1, <3>2, IssueKeeps, IssueFailsKeeps, StutterKeeps
  <2>10. CASE SendReply
    BY <2>10, StutterKeeps DEF SendReply, ghosts
  <2>11. CASE UNCHANGED vars
    BY <2>11, StutterKeeps DEF vars, ghosts
  <2> QED
    BY <2>1, <2>2, <2>3, <2>4, <2>5, <2>6, <2>7, <2>8, <2>9, <2>10, <2>11 DEF Next
<1> QED
  BY <1>1, <1>2, PTL DEF Spec

(* No address is handed out twice by getnewaddress, getrawchangeaddress or *)
(* the change of a payment, whatever writes fail and however often the     *)
(* node restarts.                                                          *)
THEOREM AddressesAreFreshAlways == Spec => []AddressesAreFresh
<1>1. WalletInv => AddressesAreFresh
  BY DEF WalletInv
<1> QED
  BY <1>1, WalletInvAlways, PTL

(* After a successful encryptwallet the seed is never in the clear in the  *)
(* file again.                                                             *)
THEOREM SealedStaysSealedAlways == Spec => []SealedStaysSealed
<1>1. WalletInv => SealedStaysSealed
  BY DEF WalletInv
<1> QED
  BY <1>1, WalletInvAlways, PTL

-----------------------------------------------------------------------------
(* The keys of a wallet.                                                   *)

(* Only the keys, the indices and the chain keys count.                    *)
LEMMA HeldSame ==
    ASSUME NEW w, NEW v, Held(w),
           v.keys = w.keys, v.next = w.next, v.master = w.master
    PROVE  Held(v)
BY DEF Held, Complete

(* One more key, of the next index.                                        *)
LEMMA CompleteNext ==
    ASSUME NEW w \in WalletType, NEW d, NEW c \in Chain, Complete(w, c),
           d.master = w.master, d.next[c] = w.next[c] + 1,
           d.keys[c] = Append(w.keys[c], <<w.master, c, w.next[c]>>)
    PROVE  Complete(d, c)
<1> DEFINE n == w.next[c]
           ks == w.keys[c]
           l == Len(ks)
           key == <<w.master, c, n>>
           ds == Append(ks, key)
<1>1. n \in Nat /\ ks \in Seq(Key)
  BY DEF WalletType
<1>2. PICK place \in [1..n -> DOMAIN ks] :
          /\ \A i \in DOMAIN place : ks[place[i]] = <<w.master, c, i - 1>>
          /\ \A i, j \in DOMAIN place : i < j => place[i] < place[j]
          /\ \A j \in DOMAIN ks : Len(ks[j]) > 1 => j \in Range(place)
  BY DEF Complete
<1> DEFINE more == [i \in 1..(n + 1) |-> IF i = n + 1 THEN l + 1 ELSE place[i]]
<1> HIDE DEF n, ks, key
<1>3. /\ l \in Nat /\ DOMAIN ks = 1..l /\ DOMAIN ds = 1..(l + 1)
      /\ ds[l + 1] = key /\ \A j \in 1..l : ds[j] = ks[j]
  BY SMT, <1>1
<1> HIDE DEF l, ds
<1>4. \A i \in 1..(n + 1) : i = n + 1 \/ i \in 1..n
  BY SMT, <1>1
<1>5. \A i \in 1..n : place[i] \in 1..l /\ i # n + 1
  BY SMT, <1>1, <1>2, <1>3
<1>6. l + 1 \in 1..(l + 1) /\ n + 1 \in 1..(n + 1) /\ (n + 1) - 1 = n
      /\ \A j \in 1..l : j \in 1..(l + 1)
  BY SMT, <1>1, <1>3
<1>7. /\ more \in [1..(n + 1) -> DOMAIN ds] /\ more[n + 1] = l + 1
      /\ \A i \in 1..n : more[i] = place[i]
  BY SMT, <1>1, <1>3, <1>4, <1>5, <1>6
<1> HIDE DEF more
<1>8. \A i \in DOMAIN more : ds[more[i]] = <<w.master, c, i - 1>>
  <2> SUFFICES ASSUME NEW i \in 1..(n + 1) PROVE ds[more[i]] = <<w.master, c, i - 1>>
    BY <1>7
  <2>1. CASE i = n + 1
    BY <1>3, <1>6, <1>7, <2>1 DEF key
  <2>2. CASE i \in 1..n
    <3>1. more[i] = place[i] /\ place[i] \in 1..l
      BY <1>5, <1>7, <2>2
    <3>2. ks[place[i]] = <<w.master, c, i - 1>>
      BY <1>2, <2>2
    <3> QED
      BY <1>3, <3>1, <3>2
  <2> QED
    BY <1>4, <2>1, <2>2
<1>9. \A i, j \in DOMAIN more : i < j => more[i] < more[j]
  <2> SUFFICES ASSUME NEW i \in 1..(n + 1), NEW j \in 1..(n + 1), i < j
               PROVE  more[i] < more[j]
    BY <1>7
  <2>1. i \in 1..n /\ more[i] = place[i] /\ place[i] \in 1..l
    BY SMT, <1>1, <1>4, <1>5, <1>7
  <2>2. CASE j \in 1..n
    BY <1>2, <1>7, <2>1, <2>2
  <2>3. CASE j = n + 1
    BY SMT, <1>3, <1>7, <2>1, <2>3
  <2> QED
    BY <1>4, <2>2, <2>3
<1>10. ASSUME NEW j \in DOMAIN ds, Len(ds[j]) > 1
       PROVE  j \in Range(more)
  <2>1. j = l + 1 \/ j \in 1..l
    BY SMT, <1>3, <1>10
  <2>2. CASE j \in 1..l
    <3>1. PICK i \in 1..n : place[i] = j
      <4>1. j \in DOMAIN ks /\ Len(ks[j]) > 1
        BY <1>3, <1>10, <2>2
      <4>2. j \in Range(place)
        BY <1>2, <4>1
      <4> QED
        BY <1>2, <4>2 DEF Range
    <3>2. i \in 1..(n + 1)
      BY SMT, <1>1
    <3>3. i \in DOMAIN more /\ more[i] = j
      BY <1>7, <3>1, <3>2
    <3> QED
      BY <3>3 DEF Range
  <2>3. CASE j = l + 1
    BY <1>6, <1>7, <2>3 DEF Range
  <2> QED
    BY <2>1, <2>2, <2>3
<1>11. \E pl \in [1..(n + 1) -> DOMAIN ds] :
          /\ \A i \in DOMAIN pl : ds[pl[i]] = <<w.master, c, i - 1>>
          /\ \A i, j \in DOMAIN pl : i < j => pl[i] < pl[j]
          /\ \A j \in DOMAIN ds : Len(ds[j]) > 1 => j \in Range(pl)
  BY <1>7, <1>8, <1>9, <1>10
<1> QED
  BY <1>11 DEF Complete, ds, key, ks, n

(* An imported key changes nothing of it.                                  *)
LEMMA CompleteImport ==
    ASSUME NEW w \in WalletType, NEW d, NEW c \in Chain, Complete(w, c), NEW k,
           d.master = w.master, d.next[c] = w.next[c], d.keys[c] = Append(w.keys[c], <<k>>)
    PROVE  Complete(d, c)
<1> DEFINE n == w.next[c]
           ks == w.keys[c]
           l == Len(ks)
           ds == Append(ks, <<k>>)
<1>1. n \in Nat /\ ks \in Seq(Key)
  BY DEF WalletType
<1>2. PICK place \in [1..n -> DOMAIN ks] :
          /\ \A i \in DOMAIN place : ks[place[i]] = <<w.master, c, i - 1>>
          /\ \A i, j \in DOMAIN place : i < j => place[i] < place[j]
          /\ \A j \in DOMAIN ks : Len(ks[j]) > 1 => j \in Range(place)
  BY DEF Complete
<1> HIDE DEF n, ks
<1>3. /\ l \in Nat /\ DOMAIN ks = 1..l /\ DOMAIN ds = 1..(l + 1)
      /\ ds[l + 1] = <<k>> /\ \A j \in 1..l : ds[j] = ks[j]
  BY SMT, <1>1
<1>4. ~(Len(<<k>>) > 1)
  BY SMT
<1> HIDE DEF l, ds
<1>5. /\ \A j \in 1..l : j \in 1..(l + 1)
      /\ \A j \in 1..(l + 1) : j = l + 1 \/ j \in 1..l
  BY SMT, <1>3
<1>6. /\ place \in [1..n -> DOMAIN ds]
      /\ \A i \in DOMAIN place : place[i] \in 1..l /\ ds[place[i]] = <<w.master, c, i - 1>>
  BY SMT, <1>2, <1>3, <1>5
<1>7. \A j \in DOMAIN ds : Len(ds[j]) > 1 => j \in Range(place)
  BY <1>2, <1>3, <1>4, <1>5
<1> QED
  BY <1>2, <1>6, <1>7 DEF Complete, ds, ks, n

(* deriveExternal and deriveChange.                                        *)
LEMMA HeldNext ==
    ASSUME NEW w \in WalletType, NEW c \in Chain, w.master \in Seed, Held(w)
    PROVE  Held(DeriveNext(w, c))
<1> DEFINE d == DeriveNext(w, c)
           key == <<w.master, c, w.next[c]>>
<1>1. /\ d.master = w.master
      /\ d.next = [w.next EXCEPT ![c] = w.next[c] + 1]
      /\ d.keys = [w.keys EXCEPT ![c] = Append(w.keys[c], key)]
  BY DeriveNextIs
<1>2. w.next \in [Chain -> Nat] /\ w.keys \in [Chain -> Seq(Key)] /\ "external" \in Chain
  BY DEF WalletType, Chain
<1> HIDE DEF d, key
<1>3. /\ d.next[c] = w.next[c] + 1 /\ d.keys[c] = Append(w.keys[c], key)
      /\ \A b \in Chain \ {c} : d.next[b] = w.next[b] /\ d.keys[b] = w.keys[b]
  BY <1>1, <1>2
<1>4. Complete(d, c)
  BY <1>1, <1>3, CompleteNext DEF Held, key
<1>5. ASSUME NEW b \in Chain \ {c}
      PROVE  Complete(d, b)
  <2>1. d.next[b] = w.next[b] /\ d.keys[b] = w.keys[b] /\ Complete(w, b)
    BY <1>3 DEF Held
  <2> QED
    BY <1>1, <2>1 DEF Complete
<1>6. \A ks \in Seq(Key) : ks # <<>> =>
          Append(ks, key) # <<>> /\ Append(ks, key)[1] = ks[1]
  BY SMT
<1>7. d.keys["external"] # <<>> /\ d.keys["external"][1] = w.keys["external"][1]
  <2>1. w.keys["external"] \in Seq(Key) /\ w.keys["external"] # <<>>
    BY <1>2 DEF Held
  <2>2. CASE c = "external"
    <3>1. d.keys["external"] = Append(w.keys["external"], key)
      BY <1>3, <2>2
    <3> QED
      BY <1>6, <2>1, <3>1
  <2>3. CASE c # "external"
    <3>1. d.keys["external"] = w.keys["external"]
      BY <1>2, <1>3, <2>3
    <3> QED
      BY <2>1, <3>1
  <2> QED
    BY <2>2, <2>3
<1> QED
  BY <1>1, <1>4, <1>5, <1>7 DEF Held, d

(* The first key of a new wallet.                                          *)
LEMMA HeldNew ==
    ASSUME NEW w \in WalletType, w.master \in Seed, w.keys = Blank.keys, w.next = Blank.next
    PROVE  Held(DeriveNext(w, "external"))
<1> DEFINE d == DeriveNext(w, "external")
           key == <<w.master, "external", 0>>
<1>1. /\ "external" \in Chain
      /\ w.next = [c \in Chain |-> 0] /\ w.keys = [c \in Chain |-> <<>>]
  BY DEF Chain, Blank
<1>2. /\ d.master = w.master
      /\ d.next = [w.next EXCEPT !["external"] = w.next["external"] + 1]
      /\ d.keys = [w.keys EXCEPT !["external"] =
                     Append(w.keys["external"], <<w.master, "external", w.next["external"]>>)]
  BY <1>1, DeriveNextIs
<1> HIDE DEF d, key
<1>3. /\ d.next["external"] = w.next["external"] + 1 /\ w.next["external"] = 0
      /\ d.keys["external"]
           = Append(w.keys["external"], <<w.master, "external", w.next["external"]>>)
      /\ \A c \in Chain \ {"external"} : d.next[c] = 0 /\ d.keys[c] = <<>>
      /\ \A c \in Chain : w.next[c] = 0 /\ w.keys[c] = <<>>
  BY <1>1, <1>2
<1>4. ASSUME NEW v, NEW c \in Chain, v.next[c] = 0, v.keys[c] = <<>>
      PROVE  Complete(v, c)
  <2> DEFINE place == [i \in {} |-> 0]
  <2>1. 1..0 = {} /\ DOMAIN <<>> = {}
    BY SMT
  <2>2. place \in [1..v.next[c] -> DOMAIN v.keys[c]] /\ DOMAIN place = {}
    BY <1>4, <2>1
  <2> HIDE DEF place
  <2> QED
    BY <1>4, <2>1, <2>2 DEF Complete
<1>5. Complete(d, "external")
  <2>1. Complete(w, "external")
    BY <1>1, <1>3, <1>4
  <2> QED
    BY <1>1, <1>2, <1>3, <2>1, CompleteNext
<1>6. d.keys["external"] = Append(<<>>, key)
  BY <1>1, <1>3 DEF key
<1>7. d.keys["external"] # <<>> /\ d.keys["external"][1] = key
  BY SMT, <1>6
<1>8. \A c \in Chain : Complete(d, c)
  <2>1. ASSUME NEW c \in Chain \ {"external"} PROVE Complete(d, c)
    <3>1. d.next[c] = 0 /\ d.keys[c] = <<>>
      BY <1>3
    <3> QED
      BY <3>1, <1>4
  <2> QED
    BY <1>5, <2>1
<1>9. d.master = w.master
  BY <1>2
<1> QED
  BY <1>7, <1>8, <1>9 DEF Held, d, key

(* loadSeedAndDerive, where there were no keys.                            *)
LEMMA HeldLoad ==
    ASSUME NEW w \in WalletType, NEW seed \in Seed,
           w.keys = Blank.keys, w.next["external"] > 0
    PROVE  Held(LoadSeedAndDerive(w, seed))
<1> DEFINE d == LoadSeedAndDerive(w, seed)
           Loaded(c) == [i \in 1..w.next[c] |-> <<seed, c, i - 1>>]
<1>1. /\ d.master = seed /\ d.next = w.next
      /\ d.keys = [c \in Chain |-> w.keys[c] \o Loaded(c)]
  BY LoadSeedIs
<1> HIDE DEF d
<1>2. /\ w.next \in [Chain -> Nat] /\ "external" \in Chain
      /\ \A c \in Chain : w.keys[c] = <<>>
  BY DEF WalletType, Chain, Blank
<1>3. ASSUME NEW c \in Chain
      PROVE  d.keys[c] = Loaded(c) /\ Complete(d, c)
  <2> DEFINE n == w.next[c]
             ks == Loaded(c)
             place == [i \in 1..n |-> i]
  <2>1. n \in Nat
    BY <1>2
  <2>2. \A i \in 1..n : <<seed, c, i - 1>> \in Key
    BY SMT, <2>1 DEF Key, Address
  <2>3. ks = [i \in 1..n |-> <<seed, c, i - 1>>]
    OBVIOUS
  <2>4. ks \in [1..n -> Key]
    BY <2>2, <2>3
  <2> HIDE DEF ks, n
  <2>5. ks \in Seq(Key)
    BY SMT, <2>1, <2>4
  <2>6. d.keys[c] = <<>> \o ks
    BY <1>1, <1>2 DEF ks
  <2>7. d.keys[c] = ks
    BY <2>5, <2>6, ConcatEmptySeq
  <2>8. /\ place \in [1..n -> DOMAIN ks] /\ DOMAIN ks = 1..n
        /\ \A i \in DOMAIN place : place[i] = i /\ ks[place[i]] = <<seed, c, i - 1>>
        /\ Range(place) = 1..n
    BY <2>3 DEF Range
  <2> HIDE DEF place
  <2>9. \A i, j \in DOMAIN place : i < j => place[i] < place[j]
    BY <2>8
  <2>10. d.next[c] = n
    BY <1>1 DEF n
  <2> QED
    BY <1>1, <2>7, <2>8, <2>9, <2>10 DEF Complete, ks
<1>4. /\ Loaded("external")[1] = <<seed, "external", 0>> /\ Loaded("external") # <<>>
  <2> DEFINE n == w.next["external"]
  <2>1. n \in Nat /\ n > 0
    BY <1>2
  <2> HIDE DEF n
  <2>2. 1 \in 1..n /\ 1 - 1 = 0 /\ DOMAIN <<>> = {}
    BY SMT, <2>1
  <2> QED
    BY <2>2 DEF n
<1> QED
  BY <1>1, <1>2, <1>3, <1>4 DEF Held, d

-----------------------------------------------------------------------------
(* The steps again, for the keys.                                          *)

(* NewHDWallet finds a wallet in the file.                                 *)
LEMMA LoadKeys == ASSUME WalletInv, KeysInv, LoadFromJSON PROVE KeysInv'
<1> DEFINE w == [Blank EXCEPT !.next = file.next, !.encrypted = file.encrypted,
                              !.locked = file.encrypted]
<1>1. /\ w \in WalletType /\ w.master = None /\ w.next = file.next
      /\ w.locked = file.encrypted /\ w.keys = Blank.keys
  BY Zenon, BlankType DEF WalletType, Blank, WalletInv, WalletTyped, FileType
<1>2. /\ file.state = "wallet" /\ file.seed \in Seed /\ file.seed # None
      /\ file.next["external"] > 0 /\ UNCHANGED file
  BY WalletAssumption DEF LoadFromJSON, WalletInv, WalletTyped, SeedsAgree, KeysInv
<1>3. wal' = IF file.encrypted THEN w ELSE LoadSeedAndDerive(w, file.seed)
  BY DEF LoadFromJSON
<1> HIDE DEF w
<1>4. CASE file.encrypted
  BY <1>1, <1>2, <1>3, <1>4 DEF KeysInv
<1>5. CASE ~file.encrypted
  <2>1. wal' = LoadSeedAndDerive(w, file.seed)
    BY <1>3, <1>5
  <2>2. Held(wal') /\ wal'.master = file.seed /\ wal'.next = file.next
    BY <1>1, <1>2, <2>1, HeldLoad, LoadSeedIs
  <2> QED
    BY <1>2, <2>2 DEF KeysInv
<1> QED
  BY <1>4, <1>5

(* NewHDWallet makes a new wallet.                                         *)
LEMMA CreateKeys == ASSUME WalletInv, KeysInv, ~up, CreateNew PROVE KeysInv'
<1>1. PICK seed \in Seed \ generated :
          LET w == DeriveNext([Blank EXCEPT !.seed = seed, !.master = seed], "external")
          IN  \/ file' = Saved(w) /\ wal' = w
              \/ /\ file' \in {file, Saved(w), NoFile("empty"), NoFile("partial")}
                 /\ UNCHANGED up
  BY Zenon DEF CreateNew
<1> DEFINE v == [Blank EXCEPT !.seed = seed, !.master = seed]
           w == DeriveNext(v, "external")
<1>2. /\ v \in WalletType /\ v.master = seed /\ v.encrypted = FALSE
      /\ v.next = Blank.next /\ v.keys = Blank.keys
  BY Zenon, BlankType DEF WalletType, Blank
<1>3. "external" \in Chain /\ Blank.next["external"] = 0
  BY DEF Chain, Blank
<1> HIDE DEF v
<1>4. /\ w.encrypted = v.encrypted /\ w.master = v.master
      /\ w.next = [v.next EXCEPT !["external"] = v.next["external"] + 1]
  BY <1>2, <1>3, DeriveNextIs
<1>5. v.next \in [Chain -> Nat] /\ v.next["external"] = 0
  BY <1>2, <1>3 DEF WalletType
<1>6. w.next["external"] > 0
  BY SMT, <1>3, <1>4, <1>5
<1>7. Held(w) /\ w.master # None
  BY <1>2, <1>4, HeldNew, WalletAssumption
<1>8. Saved(w).next = w.next
  BY <1>2, <1>4 DEF Saved, FileOf
<1>9. NoFile("empty").state # "wallet" /\ NoFile("partial").state # "wallet"
  BY DEF NoFile
<1>10. CASE file' = Saved(w) /\ wal' = w
  <2> HIDE DEF w
  <2> QED
    BY <1>6, <1>7, <1>8, <1>10 DEF KeysInv
<1>11. CASE file' \in {file, Saved(w), NoFile("empty"), NoFile("partial")} /\ UNCHANGED up
  <2> HIDE DEF w
  <2> QED
    BY <1>6, <1>8, <1>9, <1>11 DEF KeysInv
<1> QED
  BY <1>1, <1>10, <1>11 DEF v

(* A new address, returned or not.                                         *)
LEMMA IssueKeys ==
    ASSUME WalletInv, KeysInv, up, NEW c \in Chain, Issue(c) \/ IssueFails(c), UNCHANGED up
    PROVE  KeysInv'
<1>1. wal.master # None /\ wal' = DeriveNext(wal, c)
  BY DEF Issue, IssueFails
<1>2. \/ CanSave(wal') /\ file' = Saved(wal')
      \/ WriteFails
      \/ file' = file
  BY DEF Issue, IssueFails, Save, SaveFails
<1>3. /\ wal' \in WalletType /\ wal.master \in Seed /\ wal'.master = wal.master
      /\ wal'.next = [wal.next EXCEPT ![c] = wal.next[c] + 1] /\ wal.next \in [Chain -> Nat]
      /\ CanSave(wal') => /\ wal'.encrypted => file.seed = wal'.master
                          /\ ~wal'.encrypted => wal'.seed = wal'.master /\ wal'.seed \in Seed
  BY <1>1, DeriveNextKeeps
<1>4. wal'.next["external"] > 0
  <2>1. wal.next["external"] > 0 /\ "external" \in Chain
    BY DEF KeysInv, Chain
  <2> QED
    BY SMT, <1>3, <2>1
<1>5. Held(wal')
  BY <1>1, <1>3, HeldNext DEF KeysInv, WalletInv, WalletTyped
<1>6. file'.state = "wallet" => file'.next["external"] > 0
  <2>1. CASE CanSave(wal') /\ file' = Saved(wal')
    <3>1. file'.next = wal'.next
      <4>1. file \in FileType
        BY DEF WalletInv, WalletTyped
      <4> QED
        BY <1>3, <2>1, <4>1, SavedIs
    <3> QED
      BY <1>4, <3>1
  <2>2. CASE WriteFails
    BY <2>2, WriteFailsIs DEF KeysInv
  <2>3. CASE file' = file
    BY <2>3 DEF KeysInv
  <2> QED
    BY <1>2, <2>1, <2>2, <2>3
<1> QED
  BY <1>1, <1>3, <1>4, <1>5, <1>6 DEF KeysInv

(* importprivkey: only a wallet that has its chain keys can be unlocked.   *)
LEMMA ImportKeys ==
    ASSUME WalletInv, KeysInv, NEW k \in Foreign, ImportPrivKey(k) PROVE KeysInv'
<1>1. /\ up /\ UNCHANGED <<up, file>> /\ wal \in WalletType
      /\ wal' = [wal EXCEPT !.keys["external"] = Append(wal.keys["external"], <<k>>)]
  BY DEF ImportPrivKey, Unlocked, WalletInv, WalletTyped
<1>2. wal.master # None
  BY DEF ImportPrivKey, Unlocked, WalletInv, SeedsAgree, KeysInv
<1>3. /\ wal'.master = wal.master /\ wal'.next = wal.next
      /\ wal'.keys = [wal.keys EXCEPT !["external"] = Append(wal.keys["external"], <<k>>)]
  BY Zenon, <1>1 DEF WalletType
<1>4. wal.keys \in [Chain -> Seq(Key)] /\ "external" \in Chain /\ Held(wal) /\ <<k>> \in Key
  BY <1>1, <1>2 DEF WalletType, Chain, KeysInv, Key
<1>5. /\ wal'.keys["external"] = Append(wal.keys["external"], <<k>>)
      /\ \A c \in Chain \ {"external"} : wal'.keys[c] = wal.keys[c]
  BY <1>3, <1>4
<1>6. \A ks \in Seq(Key) : ks # <<>> =>
          Append(ks, <<k>>) # <<>> /\ Append(ks, <<k>>)[1] = ks[1]
  BY SMT, <1>4
<1>7. wal'.keys["external"] # <<>> /\ wal'.keys["external"][1] = wal.keys["external"][1]
  <2>1. wal.keys["external"] \in Seq(Key) /\ wal.keys["external"] # <<>>
    BY <1>4 DEF Held
  <2> QED
    BY <1>5, <1>6, <2>1
<1>8. PICK w : w = wal'
  OBVIOUS
<1>9. Complete(w, "external")
  <2>1. /\ w.next["external"] = wal.next["external"] /\ w.master = wal.master
        /\ w.keys["external"] = Append(wal.keys["external"], <<k>>)
        /\ Complete(wal, "external")
    BY <1>3, <1>4, <1>5, <1>8 DEF Held
  <2> QED
    BY <1>1, <1>4, <2>1, CompleteImport
<1>10. ASSUME NEW c \in Chain \ {"external"}
       PROVE  Complete(w, c)
  <2>1. w.next[c] = wal.next[c] /\ w.keys[c] = wal.keys[c] /\ w.master = wal.master
        /\ Complete(wal, c)
    BY <1>3, <1>4, <1>5, <1>8 DEF Held
  <2> QED
    BY <2>1 DEF Complete
<1>11. Held(w)
  BY <1>3, <1>4, <1>7, <1>8, <1>9, <1>10 DEF Held
<1>12. Held(wal')
  BY <1>8, <1>11
<1> QED
  BY <1>1, <1>2, <1>3, <1>12 DEF KeysInv

(* Locking, unlocking and encrypting.                                      *)
LEMMA LockKeys ==
    ASSUME WalletInv, KeysInv, WalletLock \/ IsLockedExpired PROVE KeysInv'
<1>1. up /\ UNCHANGED <<up, file>> /\ wal' = Locked(wal) /\ wal \in WalletType
  BY DEF WalletLock, IsLockedExpired, WalletInv, WalletTyped
<1>2. /\ wal'.master = wal.master /\ wal'.next = wal.next
      /\ wal'.keys = wal.keys /\ wal'.locked
  BY <1>1, LockedIs
<1>3. wal.master # None => Held(wal')
  BY <1>1, <1>2, HeldSame DEF KeysInv
<1> QED
  BY <1>1, <1>2, <1>3 DEF KeysInv

(* Unlocking derives the keys below the indices of the file when the seed  *)
(* is not in memory, and leaves the keys alone when it is.                 *)
LEMMA PassphraseKeys ==
    ASSUME WalletInv, KeysInv, NEW timed \in BOOLEAN, WalletPassphrase(timed) PROVE KeysInv'
<1> DEFINE w == IF wal.seed = None THEN LoadSeedAndDerive(wal, file.seed) ELSE wal
<1>1. /\ up /\ UNCHANGED <<up, file>> /\ file.state = "wallet"
      /\ wal' = [w EXCEPT !.locked = FALSE, !.timed = timed]
  BY DEF WalletPassphrase
<1>2. /\ wal \in WalletType /\ file.seed \in Seed /\ file.seed # None
      /\ wal.master = None <=> wal.seed = None
  BY <1>1, WalletAssumption DEF WalletInv, WalletTyped, SeedsAgree
<1>3. w \in WalletType /\ w.next = wal.next /\ w.master # None /\ Held(w)
  <2>1. CASE wal.seed = None
    <3>1. wal.keys = Blank.keys /\ wal.next["external"] > 0
      BY <1>1, <1>2, <2>1 DEF KeysInv
    <3> QED
      BY <1>2, <2>1, <3>1, LoadSeedIs, HeldLoad
  <2>2. CASE wal.seed # None
    BY <1>1, <1>2, <2>2 DEF KeysInv
  <2> QED
    BY <2>1, <2>2
<1> HIDE DEF w
<1>4. wal'.master = w.master /\ wal'.next = w.next /\ wal'.keys = w.keys
  BY Zenon, <1>1, <1>3 DEF WalletType
<1>5. Held(wal')
  BY <1>3, <1>4, HeldSame
<1> QED
  BY <1>1, <1>3, <1>4, <1>5 DEF KeysInv

(* Encrypting changes no key and no index.                                 *)
LEMMA EncryptKeys == ASSUME WalletInv, KeysInv, EncryptWallet PROVE KeysInv'
<1>1. /\ up /\ UNCHANGED up /\ wal \in WalletType /\ ~wal.encrypted
      /\ wal' = [wal EXCEPT !.encrypted = TRUE, !.locked = TRUE]
      /\ file' = FileOf(wal.seed, wal.next, TRUE) \/ WriteFails
  BY DEF EncryptWallet, WalletInv, WalletTyped
<1>2. wal'.master = wal.master /\ wal'.next = wal.next /\ wal'.keys = wal.keys /\ wal'.locked
  BY Zenon, <1>1 DEF WalletType
<1>3. wal.master # None => Held(wal')
  BY <1>1, <1>2, HeldSame DEF KeysInv
<1>4. file'.state = "wallet" => file'.next["external"] > 0
  <2>1. FileOf(wal.seed, wal.next, TRUE).next = wal.next
    BY DEF FileOf
  <2> QED
    BY <1>1, <2>1, WriteFailsIs DEF KeysInv
<1> QED
  BY <1>1, <1>2, <1>3, <1>4 DEF KeysInv

(* The wallet and the file stay.                                           *)
LEMMA StutterKeys == ASSUME KeysInv, UNCHANGED <<up, wal, file>> PROVE KeysInv'
<1>1. Held(wal) => Held(wal')
  OBVIOUS
<1> QED
  BY <1>1 DEF KeysInv

(* Every step of the wallet keeps the keys complete.                       *)
LEMMA KeysStep == WalletInv /\ KeysInv /\ [Next]_vars => KeysInv'
<1> SUFFICES ASSUME WalletInv, KeysInv, [Next]_vars PROVE KeysInv'
  OBVIOUS
<1>1. CASE NewHDWallet
  BY <1>1, LoadKeys, CreateKeys DEF NewHDWallet
<1>2. CASE Crash
  BY <1>2 DEF Crash, KeysInv
<1>3. ASSUME NEW c \in Chain, GetAddress(c) PROVE KeysInv'
  BY <1>3, IssueKeys DEF GetAddress
<1>4. ASSUME NEW k \in Foreign, ImportPrivKey(k) PROVE KeysInv'
  BY <1>4, ImportKeys
<1>5. CASE EncryptWallet
  BY <1>5, EncryptKeys
<1>6. CASE WalletLock \/ IsLockedExpired
  BY <1>6, LockKeys
<1>7. ASSUME NEW timed \in BOOLEAN, WalletPassphrase(timed) PROVE KeysInv'
  BY <1>7, PassphraseKeys
<1>8. ASSUME NEW coins \in Purse, NEW amounts \in Payment, NEW rate \in Rate,
             SendToAddress(coins, amounts, rate) \/ SendMany(coins, amounts, rate)
      PROVE  KeysInv'
  <2>1. UNCHANGED <<up, wal, file>>
    BY Zenon, <1>8 DEF SendToAddress, SendMany, SendBegin
  <2> QED
    BY <2>1, StutterKeys
<1>9. CASE SendFinish
  <2>1. up /\ UNCHANGED up /\ "change" \in Chain
    BY <1>9 DEF SendFinish, Chain
  <2>2. Issue("change") \/ IssueFails("change") \/ UNCHANGED <<wal, file>>
    BY <1>9 DEF SendFinish
  <2> QED
    BY <2>1, <2>2, IssueKeys, StutterKeys
<1>10. CASE SendReply
  BY <1>10, StutterKeys DEF SendReply
<1>11. CASE UNCHANGED vars
  BY <1>11, StutterKeys DEF vars
<1> QED
  BY <1>1, <1>2, <1>3, <1>4, <1>5, <1>6, <1>7, <1>8, <1>9, <1>10, <1>11 DEF Next

(* A wallet that has its seed has the key of every address it ever handed  *)
(* out, through any restarts, failed writes, encryption and locking:       *)
(* loadSeedAndDerive derives up to the saved indices, which are never      *)
(* behind what was returned.                                               *)
THEOREM KeysCompleteAlways == Spec => []KeysComplete
<1>1. Init => KeysInv
  <2>1. NoFile("none").state = "none"
    BY DEF NoFile
  <2> QED
    BY <2>1 DEF Init, KeysInv
<1>2. WalletInv /\ KeysInv => KeysComplete
  <2> SUFFICES ASSUME WalletInv, KeysInv, up, wal.master # None,
                      NEW i \in DOMAIN issued, issued[i][1] = wal.master
               PROVE  \E j \in DOMAIN wal.keys[issued[i][2]] :
                          wal.keys[issued[i][2]][j] = issued[i]
    BY DEF KeysInv, Held, KeysComplete
  <2> DEFINE c == issued[i][2]
             n == issued[i][3]
  <2>1. issued[i] \in Address
    BY SMT DEF WalletInv, WalletTyped
  <2>2. /\ issued[i] = <<wal.master, c, n>> /\ c \in Chain /\ n \in Nat
        /\ n < wal.next[c] /\ wal.next[c] \in Nat
    <3>1. issued[i] = <<issued[i][1], c, n>> /\ c \in Chain /\ n \in Nat
      BY SMT, <2>1 DEF Address
    <3>2. wal.next \in [Chain -> Nat] /\ Below(wal.master, wal.next)
      BY DEF WalletInv, WalletTyped, WalletType, IssuedBelow
    <3> QED
      BY <3>1, <3>2 DEF Below
  <2> HIDE DEF c, n
  <2>3. PICK place \in [1..wal.next[c] -> DOMAIN wal.keys[c]] :
            \A k \in DOMAIN place : wal.keys[c][place[k]] = <<wal.master, c, k - 1>>
    BY <2>2 DEF KeysInv, Held, Complete
  <2>4. n + 1 \in 1..wal.next[c] /\ (n + 1) - 1 = n
    BY SMT, <2>2
  <2>5. place[n + 1] \in DOMAIN wal.keys[c] /\ wal.keys[c][place[n + 1]] = issued[i]
    BY <2>2, <2>3, <2>4
  <2> QED
    BY <2>5 DEF c
<1> QED
  BY <1>1, <1>2, KeysStep, WalletInvAlways, PTL DEF Spec

=============================================================================
