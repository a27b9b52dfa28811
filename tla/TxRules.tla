------------------------------ MODULE TxRules ------------------------------
(***************************************************************************)
(* The rules a transaction must meet (internal/consensus/txvalidation.go): *)
(* alone, to enter the memory pool, and as part of a block's body.  A      *)
(* view gives the height at which each coin was created, or Absent when it *)
(* does not exist or is spent.                                             *)
(***************************************************************************)
EXTENDS Integers, Sequences, FiniteSets, Functions

CONSTANTS
    Tx, Coin,
    Ins, Outs,          \* the coins a transaction spends and creates
    Value,              \* of a coin
    Size,               \* of a transaction, in bytes
    Malformed,          \* fails a check that needs no view: scripts, sizes, ranges
    LockHeight,         \* the height that must be passed, 0 for none
    LockTime,           \* the time that must be passed, 0 for none
    Relative,           \* [Tx -> [Coin -> Nat]]: confirmations asked of an input
    NoLock,             \* value of Relative where the sequence disables it
    IsCoinbase,         \* the coins that coinbase transactions created
    CoinbaseMaturity,
    Absent

ASSUME TxAssumption ==
    /\ Ins \in [Tx -> SUBSET Coin] /\ Outs \in [Tx -> SUBSET Coin]
    /\ \A t \in Tx : Ins[t] # {} /\ Ins[t] \cap Outs[t] = {}
    /\ \A t, u \in Tx : t # u => Outs[t] \cap Outs[u] = {}
    /\ Absent \notin Nat /\ CoinbaseMaturity \in Nat

ValueOf(coins) == SumFunction([c \in coins |-> Value[c]])

(* CalcTxFee, and what both validations return for a transaction: the value *)
(* of its inputs less that of its outputs.                                 *)
Fee(t) == ValueOf(Ins[t]) - ValueOf(Outs[t])

(* CheckTransactionFinality.                                               *)
IsFinal(t, height, time) ==
    /\ LockHeight[t] # 0 => LockHeight[t] < height
    /\ LockTime[t] # 0 => LockTime[t] < time

(* CheckSequenceLocks: an input with an active relative lock must be in    *)
(* the confirmed view; a coin created in the same block is not.            *)
SequenceLocksMet(t, height, view) ==
    \A c \in Ins[t] : Relative[t][c] # NoLock =>
        view[c] # Absent /\ height - view[c] >= Relative[t][c]

Mature(c, height, view) ==
    c \in IsCoinbase /\ view[c] # Absent => height - view[c] >= CoinbaseMaturity

(* ValidateSingleTransaction: the rules at admission, with the outputs of  *)
(* pooled parents as supplementary coins and the wall clock for time locks.*)
ValidateSingleTransaction(t, view, tipHeight, clock, supplemental) ==
    /\ t \notin Malformed
    /\ \A c \in Ins[t] :
           /\ view[c] # Absent \/ c \in supplemental
           /\ Mature(c, tipHeight + 1, view)
    /\ Fee(t) >= 0
    /\ IsFinal(t, tipHeight + 1, clock)
    /\ SequenceLocksMet(t, tipHeight + 1, view)

(* ValidateTransactionInputs for the transactions after the coinbase: each *)
(* input is an output of an earlier one or in the view, and no two share   *)
(* an input.                                                               *)
ValidateTransactionInputs(body, view, height, medianTimePast) ==
    \A i \in DOMAIN body :
        /\ body[i] \notin Malformed
        /\ \A c \in Ins[body[i]] :
               /\ view[c] # Absent \/ \E j \in 1..(i - 1) : c \in Outs[body[j]]
               /\ \A j \in 1..(i - 1) : c \notin Ins[body[j]]
               /\ Mature(c, height, view)
        /\ Fee(body[i]) >= 0
        /\ IsFinal(body[i], height, medianTimePast)
        /\ SequenceLocksMet(body[i], height, view)

(* The coins after the body is connected at height.                        *)
Connected(body, view, height) ==
    [c \in Coin |-> IF \E i \in DOMAIN body : c \in Ins[body[i]] THEN Absent
                    ELSE IF \E i \in DOMAIN body : c \in Outs[body[i]] THEN height
                    ELSE view[c]]

=============================================================================
