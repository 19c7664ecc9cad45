-------------------------------- MODULE MCCrm ---------------------------------
(***************************************************************************)
(* Small instances of Crm: all values are given in the cfg.                *)
(***************************************************************************)
EXTENDS Crm
=============================================================================
