------------------------------ MODULE TxBuilder ------------------------------
(***************************************************************************)
(* How the wallet builds a payment: sendtoaddress (BuildTransaction) and   *)
(* sendmany, which repeats it for several outputs.  Amounts are uint64 in  *)
(* the code and integers modulo Width here; sizes are in bytes.            *)
(*                                                                         *)
(* A coin is a record of its value, the height of its block and whether a  *)
(* coinbase made it; a payment is the sequence of the amounts to pay.      *)
(* A definition X_... is a faulty variant of X; none is used otherwise.    *)
(***************************************************************************)
EXTENDS Integers, Sequences, Functions, TLC

CONSTANTS
    Width,              \* 2^64
    InputSize,          \* estimatedInputSize (148)
    OutputSize,         \* estimatedOutputSize (34)
    Overhead,           \* txOverhead (10)
    DustThreshold,      \* 546
    CoinbaseMaturity,
    MaxMoney            \* MaxMoneyValue

(* The fee of a transaction of ins inputs and outs outputs at a rate.      *)
EstimateFee(ins, outs, rate) ==
    LET fee == ((Overhead + ins * InputSize + outs * OutputSize) * rate) % Width
    IN  IF fee < 1 THEN 1 ELSE fee

(* The sum of a sequence of amounts, in the code's and in the true numbers. *)
TrueSum(amounts) == FoldFunction(+, 0, amounts)
Total(amounts)   == TrueSum(amounts) % Width
Values(coins)    == [i \in DOMAIN coins |-> coins[i].value]

Confirmations(coin, tipHeight) ==
    IF tipHeight >= coin.height THEN tipHeight - coin.height + 1 ELSE 0

FilterSpendable(coins, tipHeight) ==
    SelectSeq(coins, LAMBDA c :
        LET confs == Confirmations(c, tipHeight)
        IN  confs >= 1 /\ (c.coinbase => confs >= CoinbaseMaturity))

(* The coins chosen for a payment: the shortest largest-first prefix that  *)
(* pays the amounts and the fee of one output more, empty when none does.  *)
SelectCoins(spendable, amounts, rate) ==
    LET sorted == SortSeq(spendable, LAMBDA c, d : c.value > d.value)
        Covers(i) ==
            Total(Values(SubSeq(sorted, 1, i)))
              >= (Total(amounts) + EstimateFee(i, Len(amounts) + 1, rate)) % Width
        enough == { i \in DOMAIN sorted : Covers(i) }
    IN  IF enough = {} THEN <<>>
        ELSE SubSeq(sorted, 1, CHOOSE i \in enough : \A j \in enough : i <= j)

(* What is left for change at the fee of the payment's own outputs.        *)
Remaining(selected, amounts) == (Total(Values(selected)) - Total(amounts)) % Width

(* The fee does not fit: BuildTransaction compares what remains, sendmany  *)
(* what it needs.                                                          *)
TooShort(selected, amounts, rate, many) ==
    LET fee == EstimateFee(Len(selected), Len(amounts), rate)
    IN  IF many THEN Total(Values(selected)) < (Total(amounts) + fee) % Width
                ELSE Remaining(selected, amounts) < fee

FirstChange(selected, amounts, rate) ==
    (Remaining(selected, amounts) - EstimateFee(Len(selected), Len(amounts), rate)) % Width

(* Whether a change address is derived, on the fee without a change output. *)
WantsChange(selected, amounts, rate) == FirstChange(selected, amounts, rate) > DustThreshold

Outputs_StaleFee(selected, amounts, rate) ==
    IF WantsChange(selected, amounts, rate)
    THEN Append(amounts, FirstChange(selected, amounts, rate))
    ELSE amounts

(* The values of the outputs: the change is what remains at the fee with   *)
(* the change output, unless that leaves dust.                             *)
Outputs(selected, amounts, rate) ==
    LET fee       == EstimateFee(Len(selected), Len(amounts) + 1, rate)
        newChange == (Remaining(selected, amounts) - fee) % Width
    IN  IF WantsChange(selected, amounts, rate) /\ newChange > DustThreshold
        THEN Append(amounts, newChange)
        ELSE amounts

(* The value rules a transaction meets in the mempool.                     *)
ValuesAllowed(ins, outs) ==
    /\ \A i \in DOMAIN outs : outs[i] \in 1..MaxMoney
    /\ TrueSum(ins) <= MaxMoney
    /\ TrueSum(outs) <= TrueSum(ins)

=============================================================================
