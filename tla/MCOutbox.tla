------------------------------ MODULE MCOutbox -------------------------------
(* Constants for the model-checking runs of Outbox. *)
EXTENDS Outbox
==============================================================================
