----------------------------- MODULE MCHeaders -----------------------------
(***************************************************************************)
(* A tree of headers with two chains whose timestamps differ, so that they *)
(* retarget differently, and two headers that no index may accept.         *)
(***************************************************************************)
EXTENDS HeaderIndex, TLC

CONSTANTS g, a1, a2, a3, a4, b1, b2, b3, w2, x1

MCBlock == {g, a1, a2, a3, a4, b1, b2, b3, w2, x1}

MCParent == g :> NoBlock @@ a1 :> g @@ a2 :> a1 @@ a3 :> a2 @@ a4 :> a3
            @@ b1 :> g @@ b2 :> b1 @@ b3 :> b2 @@ w2 :> a1 @@ x1 :> g

MCHeight == [b \in MCBlock |->
    LET up[x \in MCBlock] == IF x = g THEN 0 ELSE 1 + up[MCParent[x]] IN up[b]]

MCAncestorAt == [b \in MCBlock |->
    LET at[h \in 0..MCHeight[b]] == IF h = MCHeight[b] THEN b ELSE MCParent[at[h + 1]]
    IN  [h \in 0..MCHeight[b] |-> at[h]]]

(* Chain a takes its time, chain b comes fast; a2 is ahead of the clock.   *)
MCTime == g :> 0 @@ a1 :> 4 @@ a2 :> 23 @@ a3 :> 8 @@ a4 :> 12
          @@ b1 :> 1 @@ b2 :> 2 @@ b3 :> 3 @@ w2 :> 8 @@ x1 :> 4

MCInitialBits == BigToCompact(60)

MCMinBits == BigToCompact(124)

(* The bits a header must have; w2 has those of b2 on the chain of a.      *)
MCHeaderOf == [b \in MCBlock |->
    LET Expected(p, hdr) ==
            CalcExpectedBits(Algo, MinDiff, 0, MCHeight[p],
                             [h \in 0..MCHeight[p] |-> hdr[MCAncestorAt[p][h]]])
        hdr[x \in MCBlock] ==
            [time |-> MCTime[x],
             bits |-> IF x = g THEN MCInitialBits
                      ELSE Expected(IF x = w2 THEN b1 ELSE MCParent[x], hdr)]
    IN  hdr[b]]

MCChainWork == [b \in MCBlock |->
    LET work[x \in MCBlock] ==
            CalcWork(MCHeaderOf[x].bits) + (IF x = g THEN 0 ELSE work[MCParent[x]])
    IN  work[b]]

MCBadPow == {x1}

MCBodies == {a1, a2}

MCOffsets == {1, 9}

PeerSymmetry == Permutations(Peer)

=============================================================================
