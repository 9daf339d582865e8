----------------------------- MODULE MCListings -----------------------------
(* Constants for checking Listings with TLC. *)
EXTENDS Listings
=============================================================================
