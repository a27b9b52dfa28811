------------------------------- MODULE MCStore -------------------------------
(***************************************************************************)
(* An instance of Store: three blocks, of which the last two do not fit    *)
(* into one file.                                                          *)
(***************************************************************************)
EXTENDS Store

MCSize == <<1, 2, 2>>
MCBlock == DOMAIN MCSize

=============================================================================
