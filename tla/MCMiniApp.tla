----------------------------- MODULE MCMiniApp ------------------------------
(* The mini app on a small account.                                        *)
EXTENDS MiniApp

=============================================================================
