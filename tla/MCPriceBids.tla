----------------------------- MODULE MCPriceBids ----------------------------
(* Constants for checking PriceBids with TLC. *)
EXTENDS PriceBids
=============================================================================
