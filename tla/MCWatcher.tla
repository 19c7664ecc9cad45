----------------------------- MODULE MCWatcher ------------------------------
(***************************************************************************)
(* Small instances of Watcher.                                             *)
(***************************************************************************)
EXTENDS Watcher, MCDeposits

(* The listener on and off; money left to the bot or to the administrator. *)
OnAndOff == {Setting("auto"), [Setting("semi") EXCEPT !.enabled = FALSE]}

TransferSymmetry == Permutations(Transfers)
=============================================================================
