------------------------------ MODULE MCBep3HTLC ------------------------------
(***************************************************************************)
(* A small instance of Bep3HTLC.                                           *)
(***************************************************************************)
EXTENDS MCBep3, Bep3HTLC
===============================================================================
