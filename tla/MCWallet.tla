------------------------------ MODULE MCWallet ------------------------------
(***************************************************************************)
(* Small instances of Wallet.                                              *)
(***************************************************************************)
EXTENDS Wallet

CONSTANT p1
=============================================================================
