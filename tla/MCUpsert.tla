------------------------------ MODULE MCUpsert ------------------------------
(* Instances of Upsert for TLC. *)
EXTENDS Upsert
=============================================================================
