---------------------------- MODULE MCSapServer ----------------------------
(* Instance of SapServer for TLC. *)
EXTENDS SapServer
=============================================================================
