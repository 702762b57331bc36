--------------------------- MODULE MCBootloader -----------------------------
(* An instance of Bootloader for TLC: an image of two sectors and one of    *)
(* three.                                                                   *)
EXTENDS Bootloader, TLC

CONSTANTS old, new

MCImages == {old, new}
MCLength == old :> 2 @@ new :> 3
=============================================================================
