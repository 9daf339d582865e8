------------------------------- MODULE TopUps -------------------------------
(***************************************************************************)
(* What a top-up promises the one who pays it, whatever the providers'     *)
(* webhooks do: its money comes once and whole, bonus included, to the     *)
(* account the order was made for; it leaves that account again at most    *)
(* once, whole, and only while the account still holds that much; and an   *)
(* order that was dropped never moves money.  A purse is a number here,    *)
(* with no ledger behind it.                                               *)
(***************************************************************************)
EXTENDS Integers

CONSTANTS
    Payers,  \* accounts that have a purse
    Deals,   \* top-ups
    Nobody,  \* the payer of a top-up nobody asked for yet
    Limit    \* the most a purse holds

VARIABLES
    stage,   \* where each top-up stands
    payer,   \* whose it is
    worth,   \* what it brought
    purse    \* what each payer has

promised == <<stage, payer, worth, purse>>

PromiseInit ==
    /\ stage = [d \in Deals |-> "none"]
    /\ payer = [d \in Deals |-> Nobody]
    /\ worth = [d \in Deals |-> 0]
    /\ purse = [u \in Payers |-> 0]

Ask(d, u) ==
    /\ stage[d] = "none"
    /\ stage' = [stage EXCEPT ![d] = "open"]
    /\ payer' = [payer EXCEPT ![d] = u]
    /\ UNCHANGED <<worth, purse>>

\* Paid by the one who asked for it, or by a payer nobody waited for.
Arrive(d, u, w) ==
    /\ \/ stage[d] = "open" /\ payer[d] = u
       \/ stage[d] = "none"
    /\ purse[u] + w <= Limit
    /\ stage' = [stage EXCEPT ![d] = "paid"]
    /\ payer' = [payer EXCEPT ![d] = u]
    /\ worth' = [worth EXCEPT ![d] = w]
    /\ purse' = [purse EXCEPT ![u] = @ + w]

\* One of them by its provider, or all those that waited too long.
Drop(ds) ==
    /\ \A d \in ds : stage[d] = "open"
    /\ stage' = [d \in Deals |-> IF d \in ds THEN "dropped" ELSE stage[d]]
    /\ UNCHANGED <<payer, worth, purse>>

TakeBack(d) ==
    /\ stage[d] = "paid"
    /\ worth[d] <= purse[payer[d]]
    /\ stage' = [stage EXCEPT ![d] = "back"]
    /\ purse' = [purse EXCEPT ![payer[d]] = @ - worth[d]]
    /\ UNCHANGED <<payer, worth>>

Use(u, a) ==
    /\ a <= purse[u]
    /\ purse' = [purse EXCEPT ![u] = @ - a]
    /\ UNCHANGED <<stage, payer, worth>>

PromiseNext ==
    \/ \E d \in Deals, u \in Payers : Ask(d, u)
    \/ \E d \in Deals, u \in Payers, w \in 1..Limit : Arrive(d, u, w)
    \/ \E ds \in SUBSET Deals : Drop(ds)
    \/ \E d \in Deals : TakeBack(d)
    \/ \E u \in Payers, a \in 1..Limit : Use(u, a)

PromiseSpec == PromiseInit /\ [][PromiseNext]_promised
=============================================================================
