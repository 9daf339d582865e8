----------------------------- MODULE MCAccounts -----------------------------
(* Constants for checking Accounts with TLC. *)
EXTENDS Accounts, TLC

MCSymmetry == Permutations(Users) \union Permutations(Calls)
=============================================================================
