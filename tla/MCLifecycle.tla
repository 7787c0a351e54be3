----------------------------- MODULE MCLifecycle -----------------------------
(* The program with two IO threads, and with or without a worker. *)
EXTENDS Lifecycle
=============================================================================
