------------------------------- MODULE MCChain -------------------------------
(***************************************************************************)
(* Instances of Chain: small block trees, and the functions of the tree    *)
(* that BlockTree takes as constants.                                      *)
(***************************************************************************)
EXTENDS ChainLedger, TLC

CONSTANT Weight    \* Weight[b]: CalcBlockWeight

MCHeight[b \in Block] == IF b = Genesis THEN 0 ELSE MCHeight[Parent[b]] + 1

MCChainWork[b \in Block] ==
    IF b = Genesis THEN Weight[b] ELSE MCChainWork[Parent[b]] + Weight[b]

MCAncestorAt[b \in Block] ==
    [h \in 0..Height[b] |-> IF h = Height[b] THEN b ELSE MCAncestorAt[Parent[b]][h]]

MCUtxoAt[b \in Block] ==
    IF b = Genesis THEN [c \in Coin |-> IF c \in Creates[b] THEN 0 ELSE Absent]
    ELSE Connect(MCUtxoAt[Parent[b]], b)

AllSteps == Steps
NoSteps == {}
NotCommitting == Steps \ CommitSteps
RolledBack == {"block", "extendUtxo"}

-----------------------------------------------------------------------------
(* Branches a, b, c.  Transaction "t" is in a1 and b2 (at another height), *)
(* and "u" spends it on branch a.  d3 is heavy but spends a coin of branch  *)
(* a, so that reorganising to it must fail; m2 is malformed and heavy.      *)
ForkParent ==
    [g |-> "none", a1 |-> "g", b1 |-> "g", b2 |-> "b1", b3 |-> "b2",
     c2 |-> "a1", c3 |-> "c2", d3 |-> "b2", m2 |-> "b1"]
ForkWeight ==
    [g |-> 1, a1 |-> 1, b1 |-> 1, b2 |-> 1, b3 |-> 1, c2 |-> 1, c3 |-> 2,
     d3 |-> 2, m2 |-> 3]
ForkBlock == DOMAIN ForkParent
ForkCoin == {"g0", "t", "u", "x"}
ForkSpends ==
    [b \in ForkBlock |-> CASE b \in {"a1", "b2"} -> {"g0"} [] b = "c3" -> {"t"}
                           [] b = "d3" -> {"u"} [] b = "b3" -> {"x"} [] OTHER -> {}]
ForkCreates ==
    [b \in ForkBlock |-> CASE b = "g" -> {"g0"} [] b \in {"a1", "b2"} -> {"t"}
                           [] b = "c3" -> {"u"} [] b = "b1" -> {"x"}
                           [] OTHER -> {}]

(* Two branches: b2 overtakes a1, and b3 overtakes a2.                     *)
DuelParent ==
    [g |-> "none", a1 |-> "g", a2 |-> "a1", b1 |-> "g", b2 |-> "b1", b3 |-> "b2"]
DuelWeight == [g |-> 1, a1 |-> 1, a2 |-> 1, b1 |-> 1, b2 |-> 1, b3 |-> 1]
DuelBlock == DOMAIN DuelParent
DuelCoin == {"g0", "t", "x"}
DuelSpends ==
    [b \in DuelBlock |-> CASE b \in {"a1", "b2"} -> {"g0"} [] b = "b3" -> {"x"} [] OTHER -> {}]
DuelCreates ==
    [b \in DuelBlock |-> CASE b = "g" -> {"g0"} [] b \in {"a1", "b2"} -> {"t"}
                           [] b = "b1" -> {"x"} [] OTHER -> {}]

(* Five rivals of rising weight at height 1, so that the tip can change     *)
(* often; some have children, so that a reorganisation can be too deep.     *)
StarParent ==
    [g |-> "none", s1 |-> "g", s2 |-> "g", s3 |-> "g", s4 |-> "g", s5 |-> "g",
     t2 |-> "s1", u2 |-> "s4", v2 |-> "s3"]
StarWeight ==
    [g |-> 1, s1 |-> 1, s2 |-> 2, s3 |-> 3, s4 |-> 4, s5 |-> 5, t2 |-> 2, u2 |-> 2,
     v2 |-> 4]
StarBlock == DOMAIN StarParent
StarCoin == {"g0", "t"}
StarSpends == [b \in StarBlock |-> IF b \in {"s2", "s4", "t2"} THEN {"g0"} ELSE {}]
StarCreates ==
    [b \in StarBlock |-> IF b = "g" THEN {"g0"} ELSE IF b \in {"s2", "s4"} THEN {"t"} ELSE {}]

=============================================================================
