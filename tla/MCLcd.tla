------------------------------- MODULE MCLcd -------------------------------
(* Instances of Lcd for TLC.                                               *)
EXTENDS Lcd
=============================================================================
