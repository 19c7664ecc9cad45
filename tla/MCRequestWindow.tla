--------------------------- MODULE MCRequestWindow ----------------------------
(***************************************************************************)
(* Small instances of RequestWindow: all values are given in the cfg.      *)
(***************************************************************************)
EXTENDS RequestWindow
=============================================================================
