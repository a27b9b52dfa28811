------------------------------- MODULE Wallet --------------------------------
(***************************************************************************)
(* The HD wallet of a node: the keys it derives, the file wallet.json they *)
(* are derived from again, its encryption and locking, and the payments it *)
(* builds (TxBuilder), against failed writes of the file and restarts.     *)
(*                                                                         *)
(* A key is its seed, its chain and its index; an address is its key.  The *)
(* calls of HDWallet hold its mutex and are one step each; a payment is    *)
(* two, with the mutex released between the lock check and the change      *)
(* address.  Calls that return an error and change nothing are no step,    *)
(* like those that panic on the missing chain keys of a wallet that was    *)
(* loaded encrypted and not yet unlocked.                                  *)
(*                                                                         *)
(* A definition X_... is a faulty variant of X; none is used by Next.      *)
(***************************************************************************)
EXTENDS TxBuilder

CONSTANTS
    Seed,               \* the seeds that may be generated
    Foreign,            \* private keys of other wallets
    Purse,              \* the coins the chain may hold for the wallet
    Payment,            \* the amounts of a sendtoaddress or sendmany
    Rate,               \* the values of feePerByte
    TipHeight,
    MaxIndex,           \* bound on the keys of a chain
    MaxFaults,          \* bound on the failed reads and writes of the file
    MaxRestarts,
    None, Zeroed        \* no seed, and a seed overwritten with zeros

VARIABLES
    up,                 \* the node runs
    wal,                \* the HDWallet in memory
    file,               \* wallet.json
    pay,                \* the payment being made
    faults, restarts,
    generated,          \* the seeds generated so far
    issued,             \* the addresses handed out, in order
    sealed              \* the seeds of the wallets encrypted successfully

ghosts == <<generated, issued, sealed>>
vars == <<up, wal, file, pay, faults, restarts, ghosts>>

ASSUME WalletAssumption ==
    /\ MaxIndex \in Nat /\ MaxFaults \in Nat /\ MaxRestarts \in Nat
    /\ MaxMoney + EstimateFee(1, 1, 1) < Width
    /\ None # Zeroed /\ {None, Zeroed} \cap Seed = {}

Chain == {"external", "change"}

(* NewHDWallet before it looks at the file.                                *)
Blank == [seed |-> None, master |-> None, next |-> [c \in Chain |-> 0],
          keys |-> [c \in Chain |-> <<>>],
          encrypted |-> FALSE, locked |-> FALSE, timed |-> FALSE]

(* The file: absent, emptied or cut by a write that failed, or a wallet    *)
(* with its seed in the clear or encrypted and the two next indices.       *)
NoFile(state) == [state |-> state, encrypted |-> FALSE, seed |-> None, next |-> Blank.next]
FileOf(seed, next, encrypted) ==
    [state |-> "wallet", encrypted |-> encrypted, seed |-> seed, next |-> next]

Init ==
    /\ up = FALSE /\ wal = Blank /\ file = NoFile("none") /\ pay = None
    /\ faults = 0 /\ restarts = 0
    /\ generated = {} /\ issued = <<>> /\ sealed = {}

-----------------------------------------------------------------------------
(* The keys.                                                               *)

(* deriveExternal or deriveChange, and registerKey.                        *)
Derive(w, c, index) == [w EXCEPT !.keys[c] = Append(@, <<w.master, c, index>>)]

DeriveNext(w, c) == [Derive(w, c, w.next[c]) EXCEPT !.next[c] = @ + 1]

(* loadSeedAndDerive: the keys below the two next indices.                 *)
LoadSeedAndDerive(w, seed) ==
    [w EXCEPT !.seed = seed, !.master = seed,
              !.keys = [c \in Chain |->
                  @[c] \o [i \in 1..w.next[c] |-> <<seed, c, i - 1>>]]]

-----------------------------------------------------------------------------
(* The file.  os.WriteFile truncates before it writes, and may fail before *)
(* or after that.                                                          *)

Faults(n) == faults + n <= MaxFaults /\ faults' = faults + n

WriteFails == Faults(1) /\ file' \in {file, NoFile("empty"), NoFile("partial")}

Saved_Plain(w) == FileOf(w.seed, w.next, FALSE)

(* What save writes: the wallet in the clear, or the encrypted file with   *)
(* its two indices replaced.                                               *)
Saved(w) ==
    IF w.encrypted THEN [file EXCEPT !.next = w.next]
                   ELSE FileOf(w.seed, w.next, FALSE)

(* savePreservingEncryption must parse the file it is to replace.          *)
CanSave(w) == w.encrypted => file.state = "wallet"

Save(w)      == CanSave(w) /\ file' = Saved(w) /\ UNCHANGED faults
SaveFails(w) == IF CanSave(w) THEN WriteFails ELSE UNCHANGED <<file, faults>>

-----------------------------------------------------------------------------
(* Start, stop and crash.                                                  *)

LoadFromJSON ==
    /\ file.state = "wallet"
    /\ LET w == [Blank EXCEPT !.next = file.next, !.encrypted = file.encrypted,
                              !.locked = file.encrypted]
       IN  wal' = IF file.encrypted THEN w ELSE LoadSeedAndDerive(w, file.seed)
    /\ up' = TRUE
    /\ UNCHANGED <<file, pay, faults, restarts, ghosts>>

(* createNew, for a file that is absent, empty or cannot be read: a new    *)
(* seed, whose first address the miner is paid to.  It saves twice.  When  *)
(* a save fails the node does not start.                                   *)
CreateNew ==
    /\ \E seed \in Seed \ generated :
           LET w == DeriveNext([Blank EXCEPT !.seed = seed, !.master = seed], "external")
               unread == IF file.state \in {"none", "empty"} THEN 0 ELSE 1
           IN  /\ generated' = generated \cup {seed}
               /\ \/ /\ file' = Saved(w) /\ Faults(unread)
                     /\ wal' = w /\ up' = TRUE
                     /\ issued' = Append(issued, <<seed, "external", 0>>)
                  \/ /\ Faults(unread + 1)
                     /\ file' \in {file, Saved(w), NoFile("empty"), NoFile("partial")}
                     /\ UNCHANGED <<wal, up, issued>>
    /\ UNCHANGED <<pay, restarts, sealed>>

NewHDWallet == ~up /\ (LoadFromJSON \/ CreateNew)

Crash ==
    /\ up /\ restarts < MaxRestarts
    /\ up' = FALSE /\ restarts' = restarts + 1
    /\ wal' = Blank /\ pay' = None
    /\ UNCHANGED <<file, faults, ghosts>>

-----------------------------------------------------------------------------
(* Addresses and imported keys.                                            *)

(* DeriveNextExternal and DeriveNextChange, when the address is returned   *)
(* and when the save fails: the key then stays and the index too.          *)
Issue(c) ==
    /\ wal.master # None /\ wal.next[c] < MaxIndex
    /\ wal' = DeriveNext(wal, c)
    /\ Save(wal')
    /\ issued' = Append(issued, <<wal.master, c, wal.next[c]>>)

IssueFails_Returned(c) ==
    /\ wal.master # None /\ wal.next[c] < MaxIndex
    /\ wal' = DeriveNext(wal, c)
    /\ SaveFails(wal')
    /\ issued' = Append(issued, <<wal.master, c, wal.next[c]>>)

IssueFails(c) ==
    /\ wal.master # None /\ wal.next[c] < MaxIndex
    /\ wal' = DeriveNext(wal, c)
    /\ SaveFails(wal')
    /\ UNCHANGED issued

(* getnewaddress and getrawchangeaddress, which do not ask for the lock.   *)
GetAddress(c) ==
    /\ up
    /\ Issue(c) \/ IssueFails(c)
    /\ UNCHANGED <<up, pay, restarts, generated, sealed>>

Unlocked == up /\ (wal.encrypted => ~wal.locked)

(* importprivkey: the key is not saved.                                    *)
ImportPrivKey(k) ==
    /\ Unlocked
    /\ ~ \E i \in DOMAIN wal.keys["external"] : wal.keys["external"][i] = <<k>>
    /\ wal' = [wal EXCEPT !.keys["external"] = Append(@, <<k>>)]
    /\ UNCHANGED <<up, file, pay, faults, restarts, ghosts>>

-----------------------------------------------------------------------------
(* Encryption and the lock.                                                *)

(* EncryptWallet: the fields are set before the file is written.           *)
EncryptWallet ==
    /\ up /\ ~wal.encrypted
    /\ wal' = [wal EXCEPT !.encrypted = TRUE, !.locked = TRUE]
    /\ \/ /\ file' = FileOf(wal.seed, wal.next, TRUE)
          /\ sealed' = sealed \cup {wal.seed}
          /\ UNCHANGED faults
       \/ WriteFails /\ UNCHANGED sealed
    /\ UNCHANGED <<up, pay, restarts, generated, issued>>

WalletPassphrase_Rederives(timed) ==
    /\ up /\ wal.encrypted
    /\ file.state = "wallet" /\ file.encrypted
    /\ wal' = [LoadSeedAndDerive(wal, file.seed) EXCEPT !.locked = FALSE, !.timed = timed]
    /\ UNCHANGED <<up, file, pay, faults, restarts, ghosts>>

(* WalletPassphrase with the right passphrase, for a time or for good: the *)
(* keys are derived only when there is no seed, zeroed or not.             *)
WalletPassphrase(timed) ==
    /\ up /\ wal.encrypted
    /\ file.state = "wallet" /\ file.encrypted
    /\ LET w == IF wal.seed = None THEN LoadSeedAndDerive(wal, file.seed) ELSE wal
       IN  wal' = [w EXCEPT !.locked = FALSE, !.timed = timed]
    /\ UNCHANGED <<up, file, pay, faults, restarts, ghosts>>

Locked(w) ==
    [w EXCEPT !.locked = TRUE, !.timed = FALSE, !.seed = IF @ = None THEN None ELSE Zeroed]

WalletLock ==
    /\ up /\ wal.encrypted
    /\ wal' = Locked(wal)
    /\ UNCHANGED <<up, file, pay, faults, restarts, ghosts>>

(* IsLocked, called by any request after the time of an unlock.            *)
IsLockedExpired ==
    /\ up /\ wal.encrypted /\ ~wal.locked /\ wal.timed
    /\ wal' = Locked(wal)
    /\ UNCHANGED <<up, file, pay, faults, restarts, ghosts>>

-----------------------------------------------------------------------------
(* Payments.                                                               *)

(* FindUnspent: the coins are at the default address.                      *)
FindUnspent(coins) == IF wal.master = None THEN <<>> ELSE coins

(* The choice of the coins; nothing is kept of a call that is refused.     *)
SendBegin(coins, amounts, rate, many) ==
    LET selected == SelectCoins(FilterSpendable(FindUnspent(coins), TipHeight), amounts, rate)
    IN  /\ Unlocked /\ pay = None
        /\ selected # <<>> /\ ~TooShort(selected, amounts, rate, many)
        /\ pay' = [phase |-> "selected", coins |-> selected, amounts |-> amounts,
                   rate |-> rate, outs |-> <<>>]
        /\ UNCHANGED <<up, wal, file, faults, restarts, ghosts>>

SendToAddress(coins, amounts, rate) ==
    Len(amounts) = 1 /\ SendBegin(coins, amounts, rate, FALSE)

SendMany(coins, amounts, rate) == SendBegin(coins, amounts, rate, TRUE)

(* AddTx on the values and the maturity of the inputs, at the next height. *)
Accepts(coins, outs) ==
    /\ ValuesAllowed(Values(coins), outs)
    /\ \A i \in DOMAIN coins :
           coins[i].coinbase => TipHeight + 1 - coins[i].height >= CoinbaseMaturity

(* The change address where one is wanted, the signatures and AddTx.       *)
SendFinish ==
    LET wants == WantsChange(pay.coins, pay.amounts, pay.rate)
        outs  == Outputs(pay.coins, pay.amounts, pay.rate)
    IN  /\ up /\ pay # None /\ pay.phase = "selected"
        /\ \/ /\ IF wants THEN Issue("change") ELSE UNCHANGED <<wal, file, faults, issued>>
              /\ pay' = [pay EXCEPT !.outs = outs,
                         !.phase = IF Accepts(pay.coins, outs) THEN "accepted" ELSE "refused"]
           \/ wants /\ IssueFails("change") /\ pay' = None
        /\ UNCHANGED <<up, restarts, generated, sealed>>

SendReply ==
    /\ pay # None /\ pay.phase # "selected"
    /\ pay' = None
    /\ UNCHANGED <<up, wal, file, faults, restarts, ghosts>>

-----------------------------------------------------------------------------
Next ==
    \/ NewHDWallet \/ Crash
    \/ \E c \in Chain : GetAddress(c)
    \/ \E k \in Foreign : ImportPrivKey(k)
    \/ EncryptWallet \/ WalletLock \/ IsLockedExpired
    \/ \E timed \in BOOLEAN : WalletPassphrase(timed)
    \/ \E coins \in Purse, amounts \in Payment, rate \in Rate :
           SendToAddress(coins, amounts, rate) \/ SendMany(coins, amounts, rate)
    \/ SendFinish \/ SendReply

Spec == Init /\ [][Next]_vars

-----------------------------------------------------------------------------
(* The keys of chain c that were not imported are those below the next     *)
(* index, each once and in order; place is where they stand.               *)
Complete(w, c) ==
    \E place \in [1..w.next[c] -> DOMAIN w.keys[c]] :
        /\ \A i \in DOMAIN place : w.keys[c][place[i]] = <<w.master, c, i - 1>>
        /\ \A i, j \in DOMAIN place : i < j => place[i] < place[j]
        /\ \A j \in DOMAIN w.keys[c] : Len(w.keys[c][j]) > 1 => j \in Range(place)

(* A running wallet that has its seed holds exactly the keys below its two *)
(* next indices, each once and in order, the default address first, and    *)
(* every address it ever handed out for that seed is among them: what was  *)
(* paid to it can be spent, through restarts, encryption, locking and      *)
(* failed writes.                                                          *)
KeysComplete ==
    up /\ wal.master # None =>
        /\ \A c \in Chain : Complete(wal, c)
        /\ wal.keys["external"][1] = <<wal.master, "external", 0>>
        /\ \A i \in DOMAIN issued : issued[i][1] = wal.master =>
               \E j \in DOMAIN wal.keys[issued[i][2]] : wal.keys[issued[i][2]][j] = issued[i]

(* No address is handed out twice, neither by getnewaddress nor as the     *)
(* change of a payment: an index whose save failed is not returned, and    *)
(* one that was returned is not given again after a restart.               *)
AddressesAreFresh == IsInjective(issued)

(* Once encryptwallet has returned without an error the file never again   *)
(* holds that seed in the clear, whatever is saved or restarted.           *)
SealedStaysSealed == file.seed \in sealed => file.encrypted

(* A payment the mempool accepts spends mature coins, pays a fee of at     *)
(* least the rate on its own estimated size and at most the dust threshold *)
(* and one output more than that, and makes no change below the dust; and  *)
(* one of amounts that exist is never refused for its values or maturity.  *)
PaymentsAreSound ==
    pay # None /\ pay.phase # "selected" =>
        LET fee == TrueSum(Values(pay.coins)) - TrueSum(pay.outs)
            due == EstimateFee(Len(pay.coins), Len(pay.outs), pay.rate)
        IN  /\ pay.phase = "accepted" =>
                   /\ fee \in due..(due + DustThreshold + OutputSize * pay.rate)
                   /\ SubSeq(pay.outs, 1, Len(pay.amounts)) = pay.amounts
                   /\ \A i \in DOMAIN pay.outs : i > Len(pay.amounts) => pay.outs[i] > DustThreshold
            /\ TrueSum(pay.amounts) <= MaxMoney => pay.phase = "accepted"

=============================================================================
