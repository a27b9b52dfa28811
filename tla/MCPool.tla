------------------------------- MODULE MCPool -------------------------------
(***************************************************************************)
(* Two rivals p and q for the coin x.  d spends the output of p and pays   *)
(* less than p; k spends the output of d, pays better than d, and needs a  *)
(* young coinbase coin and a time to pass.                                 *)
(***************************************************************************)
EXTENDS Pool, TLC

CONSTANTS p, d, q, k, x, y, px, dx, qx, kx

MCTx == {p, d, q, k}
MCCoin == {x, y, px, dx, qx, kx}
MCIns == p :> {x} @@ d :> {px} @@ q :> {x} @@ k :> {dx, y}
MCOuts == p :> {px} @@ d :> {dx} @@ q :> {qx} @@ k :> {kx}
MCValue == x :> 20 @@ y :> 9 @@ px :> 14 @@ dx :> 12 @@ qx :> 14 @@ kx :> 15
MCSize == p :> 2 @@ d :> 2 @@ q :> 5 @@ k :> 2
MCHash == p :> 1 @@ d :> 2 @@ q :> 3 @@ k :> 4
MCLockHeight == [t \in MCTx |-> 0]
MCLockTime == [t \in MCTx |-> IF t = k THEN 1 ELSE 0]
MCRelative == [t \in MCTx |-> [i \in MCCoin |-> IF i = y THEN 1 ELSE NoLock]]
MCBaseView == [i \in MCCoin |-> IF i = x THEN 0 ELSE IF i = y THEN 1 ELSE Absent]
MCPeerBodies == {<<>>, <<q>>}

=============================================================================
