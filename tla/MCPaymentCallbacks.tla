------------------------- MODULE MCPaymentCallbacks -------------------------
(* Constants for checking PaymentCallbacks with TLC. *)
EXTENDS PaymentCallbacks, TLC

MCTierTable == {[min |-> 2, percent |-> 50]}
MCSymmetry == Permutations(Calls) \union Permutations(Txns)
                \union Permutations(PaymentIds)
=============================================================================
