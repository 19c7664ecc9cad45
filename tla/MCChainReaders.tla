--------------------------- MODULE MCChainReaders ---------------------------
(***************************************************************************)
(* Small instances of ChainReaders: a scan reads at most two pages of one  *)
(* or two (the code: five of a hundred), so a few transfers overflow it.   *)
(***************************************************************************)
EXTENDS ChainReaders
=============================================================================
