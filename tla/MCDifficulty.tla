---------------------------- MODULE MCDifficulty ----------------------------
(***************************************************************************)
(* Difficulty with digits of base 4 and targets below 4^6.                 *)
(***************************************************************************)
EXTENDS Difficulty

MCInitialBits == BigToCompact(8)

MCMinBits == BigToCompact(124)

=============================================================================
