----------------------------- MODULE MCJsonStore -----------------------------
(* Clients and batches of JsonStore for the model checker.                 *)
EXTENDS JsonStore

CONSTANTS orchestrator, api, b1, b2, b3
=============================================================================
