----------------------------- MODULE MCConsumer -----------------------------
(* A consumer with a history of two slots for TLC.                           *)
EXTENDS Consumer

MCNever == -1
=============================================================================
