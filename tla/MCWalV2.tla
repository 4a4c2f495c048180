------------------------------ MODULE MCWalV2 ------------------------------
(***************************************************************************)
(* Instances of WalV2 for TLC.                                             *)
(***************************************************************************)
EXTENDS WalV2

=============================================================================
