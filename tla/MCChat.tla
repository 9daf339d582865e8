------------------------------- MODULE MCChat -------------------------------
(* Constants for checking Chat with TLC. *)
EXTENDS Chat, TLC

CONSTANT c1

\* A text the app may send twice, and an upload it does not repeat.
MCSends == {[clientId |-> c1, kind |-> "text"],
            [clientId |-> NoClientId, kind |-> "upload"]}

Symmetry == Permutations(Requests) \union Permutations(Users)
=============================================================================
