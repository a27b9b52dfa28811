------------------------------- MODULE Ledger -------------------------------
(***************************************************************************)
(* What the chain manager promises its callers, without databases, maps,   *)
(* clones or recovery: one tip and the coins of its chain, which change    *)
(* together and only to a valid chain with more work that leaves the       *)
(* current one no deeper than MaxReorgDepth.                               *)
(***************************************************************************)
EXTENDS BlockTree

CONSTANT MaxReorgDepth   \* params.MaxReorgDepth, 0 for no limit

VARIABLES
    head,     \* the tip a restart would settle on
    ledger    \* the UTXO set a restart would settle on

Init == head = NoBlock /\ ledger = NoCoins

CreateGenesis ==
    /\ head = NoBlock
    /\ head' = Genesis /\ ledger' = UtxoAt[Genesis]

(* The chains of x and y agree up to height h.                             *)
AgreeAt(x, y, h) ==
    h <= Height[x] /\ h <= Height[y] /\ AncestorAt[x][h] = AncestorAt[y][h]

Adopt(b) ==
    /\ head # NoBlock /\ ChainWork[b] > ChainWork[head] /\ ValidChain(b)
    /\ MaxReorgDepth > 0 =>
          \E h \in 0..Height[head] : Height[head] - h <= MaxReorgDepth /\ AgreeAt(head, b, h)
    /\ head' = b /\ ledger' = UtxoAt[b]

Next == CreateGenesis \/ \E b \in Block : Adopt(b)

Spec == Init /\ [][Next]_<<head, ledger>>

=============================================================================
