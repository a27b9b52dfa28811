------------------------------ MODULE MCWallet -------------------------------
(***************************************************************************)
(* An instance of Wallet.  The amounts reach from what the coins can just  *)
(* pay, with and without change, to the width of a number.                 *)
(***************************************************************************)
EXTENDS Wallet

MCCoin(value, height, coinbase) == [value |-> value, height |-> height, coinbase |-> coinbase]

MCPurse ==
    { <<MCCoin(20, 3, FALSE)>>,
      <<MCCoin(6, 1, FALSE), MCCoin(9, 2, TRUE), MCCoin(30, 3, TRUE), MCCoin(12, 5, FALSE)>> }

MCPayment == { <<a>> : a \in {9, 13, 63} } \cup { <<2, 3>>, <<4, 63>> }

=============================================================================
