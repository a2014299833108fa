---------------------------- MODULE MCExchange ------------------------------
(* Every message the engine reads, each with its settings and one-shots. *)
EXTENDS Exchange

AllMessages == DOMAIN Messages

=============================================================================
