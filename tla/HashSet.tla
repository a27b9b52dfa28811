------------------------------- MODULE HashSet -------------------------------
(***************************************************************************)
(* boundedHashSet (internal/p2p/manager.go): the set of hashes a node has  *)
(* seen, with the order in which they were added.  Remove takes a hash out *)
(* of the set and leaves it in the order.                                  *)
(***************************************************************************)
EXTENDS Integers, Sequences, FiniteSets, Functions

CONSTANT SeenCap    \* the capacity

ASSUME SeenAssumption == SeenCap \in Nat \ {0}

NewHashSet == [items |-> {}, order |-> <<>>]

(* What is left after the first n entries of the order are evicted.        *)
Left(s, n) == s.items \ {s.order[i] : i \in 1..n}

Evictions_One(s) ==
    IF Cardinality(s.items) >= SeenCap /\ Len(s.order) > 0 THEN 1 ELSE 0

(* evictUntilSpace pops the order until there is room or it is empty.      *)
Evictions(s) ==
    CHOOSE n \in 0..Len(s.order) :
        /\ n = Len(s.order) \/ Cardinality(Left(s, n)) < SeenCap
        /\ \A m \in 0..(n - 1) : Cardinality(Left(s, m)) >= SeenCap

Has(s, x) == x \in s.items

(* Add, and AddOrHas when Has did not hold before.                         *)
Add(s, x) ==
    IF Has(s, x) THEN s
    ELSE [items |-> Left(s, Evictions(s)) \cup {x},
          order |-> Append(SubSeq(s.order, Evictions(s) + 1, Len(s.order)), x)]

Remove(s, x) == [s EXCEPT !.items = @ \ {x}]

=============================================================================
