------------------------------- MODULE MCSync -------------------------------
(***************************************************************************)
(* Instances of Sync for TLC.                                              *)
(***************************************************************************)
EXTENDS Sync

CONSTANTS p1, p2

OneShort == [p \in Peer |-> IF p = p1 THEN MaxHeight - 1 ELSE MaxHeight]
OneTall == [p \in Peer |-> IF p = p1 THEN MaxHeight ELSE MaxHeight - 1]

(* Every peer has told its height, or p2 has gone from 0 to it since then. *)
Exact == {Has}
OneGrew == {Has, [Has EXCEPT ![p2] = 0]}

=============================================================================
