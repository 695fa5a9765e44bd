------------------------------ MODULE MCLteApp ------------------------------
(* Instances of LteApp for TLC.                                            *)
EXTENDS LteApp
=============================================================================
