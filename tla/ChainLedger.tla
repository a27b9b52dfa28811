----------------------------- MODULE ChainLedger -----------------------------
(***************************************************************************)
(* Chain implements Ledger: the abstract state is the one Init would       *)
(* settle on if the process died now.  While reorg commits it is still the *)
(* old tip: the new one is adopted when PutChainTip records it.            *)
(***************************************************************************)
EXTENDS ChainInv

LedgerTip ==
    IF diskTip = NoBlock \/ pc \in CommitSteps THEN diskTip ELSE RecoveredTip

LedgerUtxo ==
    IF LedgerTip = NoBlock THEN NoCoins
    ELSE IF bestBlock = LedgerTip THEN coins ELSE UtxoAt[LedgerTip]

L == INSTANCE Ledger WITH head <- LedgerTip, ledger <- LedgerUtxo

(* The databases, read as Init reads them, go through the states of one    *)
(* ledger: from one valid chain to a heavier one within the depth limit,   *)
(* coins and tip at once, whatever crash or rolled-back write error        *)
(* interrupts a call outside the commit phase of reorg.                    *)
ImplementsLedger == L!Spec

=============================================================================
