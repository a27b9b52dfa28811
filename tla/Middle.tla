------------------------------- MODULE Middle -------------------------------
(***************************************************************************)
(* The median that CalcMedianTimePast and recalcMedian take: the element   *)
(* at index len/2 of a sorted copy.                                        *)
(***************************************************************************)
EXTENDS Integers, FiniteSets, Functions

Median(s) ==
    LET n == Cardinality(DOMAIN s)
    IN  CHOOSE v \in Range(s) :
            /\ Cardinality({i \in DOMAIN s : s[i] < v}) <= n \div 2
            /\ Cardinality({i \in DOMAIN s : s[i] <= v}) > n \div 2

=============================================================================
