---------------------------- MODULE MCDispatcher ----------------------------
(***************************************************************************)
(* Instances of Dispatcher for TLC. *)
(***************************************************************************)
EXTENDS Dispatcher
=============================================================================
