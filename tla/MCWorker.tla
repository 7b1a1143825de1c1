------------------------------ MODULE MCWorker ------------------------------
(***************************************************************************)
(* Instances of Worker for TLC, with the messages of MCConsumer.            *)
(***************************************************************************)
EXTENDS Worker, MCConsumer
=============================================================================
