-------------------------- MODULE MCAdminSessions ---------------------------
(***************************************************************************)
(* Small instances of AdminSessions.                                       *)
(***************************************************************************)
EXTENDS AdminSessions
=============================================================================
