----------------------------- MODULE MCEvControl -----------------------------
(* EvControl for the model checker; the values of the constants are in the  *)
(* configurations.                                                          *)
EXTENDS EvControl
=============================================================================
