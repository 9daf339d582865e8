------------------------------ MODULE MCVideos ------------------------------
(* Constants for checking Videos with TLC. *)
EXTENDS Videos
=============================================================================
