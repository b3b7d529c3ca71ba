----------------------------- MODULE MCBringUp ------------------------------
(***************************************************************************)
(* Three boards, images and USB, files around the size of a transfer and   *)
(* of a sector, and one too long for its header.                           *)
(***************************************************************************)
EXTENDS BringUp
=============================================================================
