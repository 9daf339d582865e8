------------------------------ MODULE Charging ------------------------------
(***************************************************************************)
(* What posting an advert costs (ListingsService.create over               *)
(* WalletService.charge): nothing without a tariff, the free post of the   *)
(* account, else money; and what an administrator does beside it: the      *)
(* tariff, a free post given back, a balance adjusted under a client's key *)
(* (BillingAdminService).                                                  *)
(*                                                                         *)
(* A transaction holds the wallet row it changed and the free grant it     *)
(* inserted until it ends: others that need them wait, and see what it did *)
(* at its commit or, if it failed, nothing.                                *)
(***************************************************************************)
EXTENDS Requests, Integers, Sequences

CONSTANTS Ads, SellerOf,
          Staff,       \* the sellers who are administrators
          PostPrice,
          Keys,        \* idempotency keys of the dashboard
          Gift,        \* what an adjustment credits; a debit takes it back
          MaxBills,    \* bound: ledger rows
          MaxResets    \* bound: free posts given back to a seller

ASSUME ChargingBounds ==
    /\ PostPrice \in Nat \ {0} /\ Gift \in Nat \ {0}
    /\ MaxBills \in Nat /\ MaxResets \in Nat
    /\ None \notin Ads \cup Keys

VARIABLES posted,      \* the adverts that were saved
          purse,       \* wallets.balance
          bills,       \* wallet_transactions, oldest first
          grant,       \* free_grants of LISTING_POST: None or the advert
          postTariff,  \* there is an active LISTING_POST tariff
          chargeCalls, \* the requests in flight
          resets,      \* ghost: free posts given back to each seller
          due          \* ghost: the adverts posted while a post had a price

chargeVars == <<posted, purse, bills, grant, postTariff, chargeCalls, resets, due>>

money == <<purse, bills>>
Sellers == {SellerOf[l] : l \in Ads}

(* A row of the ledger: `after` is balance_after, `key` client_id. *)
Bill(u, amount, kind, ref, key) ==
    [user |-> u, amount |-> amount, after |-> purse[u] + amount,
     kind |-> kind, ref |-> ref, key |-> key]

ChargingInit ==
    /\ posted = {} /\ due = {}
    /\ purse = [u \in Sellers |-> 0]
    /\ bills = <<>>
    /\ grant = [u \in Sellers |-> None]
    /\ postTariff = TRUE
    /\ chargeCalls = [r \in Requests |-> Idle]
    /\ resets = [u \in Sellers |-> 0]

ChargeGoes(r, call) == chargeCalls' = [chargeCalls EXCEPT ![r] = call]

(* No other transaction that has not ended holds the money or the grant of *)
(* this seller.                                                            *)
Free(r, u) == \A q \in Requests \ {r} :
    chargeCalls[q].at = "save" /\ chargeCalls[q].terms # "free"
        => SellerOf[chargeCalls[q].ad] # u

(* debit and credit, refused below zero. *)
Moves(u, amount, kind, ref, key) ==
    /\ purse[u] + amount >= 0
    /\ Len(bills) < MaxBills
    /\ purse' = [purse EXCEPT ![u] = @ + amount]
    /\ bills' = Append(bills, Bill(u, amount, kind, ref, key))

(***************************************************************************)
(* create: the charge and the row in one transaction                       *)
(***************************************************************************)
AskPost(r, l) ==
    /\ chargeCalls[r] = Idle
    /\ l \notin posted
    /\ {q \in Requests : chargeCalls[q].at \in {"charge", "save"}
                         /\ chargeCalls[q].ad = l} = {}
    /\ ChargeGoes(r, [at |-> "charge", ad |-> l])
    /\ UNCHANGED <<posted, money, grant, postTariff, resets, due>>

(* How the post is paid for: administrators are never charged, and the     *)
(* grant is claimed only where money would have moved.                     *)
Terms(u) == IF ~postTariff \/ u \in Staff THEN "free"
            ELSE IF grant[u] = None THEN "grant" ELSE "money"

(* The charge, which an empty purse refuses (INSUFFICIENT_FUNDS). *)
ChargePost(r) ==
    LET call == chargeCalls[r]
        u == SellerOf[call.ad] IN
    /\ call.at = "charge"
    /\ Free(r, u)
    /\ IF Terms(u) = "money" /\ purse[u] < PostPrice
       THEN ChargeGoes(r, Idle)
       ELSE ChargeGoes(r, [at |-> "save", ad |-> call.ad, terms |-> Terms(u),
                           priced |-> postTariff /\ u \notin Staff])
    /\ UNCHANGED <<posted, money, grant, postTariff, resets, due>>

SavePost(r) ==
    LET call == chargeCalls[r]
        u == SellerOf[call.ad] IN
    /\ call.at = "save"
    /\ posted' = posted \cup {call.ad}
    /\ grant' = IF call.terms = "grant" THEN [grant EXCEPT ![u] = call.ad] ELSE grant
    /\ IF call.terms = "money"
       THEN Moves(u, -PostPrice, "LISTING_POST", call.ad, None)
       ELSE UNCHANGED money
    /\ due' = IF call.priced THEN due \cup {call.ad} ELSE due
    /\ ChargeGoes(r, Idle)
    /\ UNCHANGED <<postTariff, resets>>

(* A later statement fails, or the process stops: all of it rolls back. *)
FailPost(r) ==
    /\ chargeCalls[r].at = "save"
    /\ ChargeGoes(r, Idle)
    /\ UNCHANGED <<posted, money, grant, postTariff, resets, due>>

(***************************************************************************)
(* The administrator                                                       *)
(***************************************************************************)
SetPostTariff(active) ==
    /\ postTariff' = active
    /\ UNCHANGED <<posted, money, grant, chargeCalls, resets, due>>

(* resetFreeGrant: the row goes; refused when it is not there. *)
GiveBack(u) ==
    /\ grant[u] # None
    /\ resets[u] < MaxResets
    /\ grant' = [grant EXCEPT ![u] = None]
    /\ resets' = [resets EXCEPT ![u] = @ + 1]
    /\ UNCHANGED <<posted, money, postTariff, chargeCalls, due>>

Used(u, key) == \E i \in DOMAIN bills : bills[i].user = u /\ bills[i].key = key

(* adjustWallet: a key that was used answers what it did then... *)
AskAdjust(r, u, amount, key) ==
    /\ chargeCalls[r] = Idle
    /\ ~Used(u, key)
    /\ ChargeGoes(r, [at |-> "adjust", user |-> u, amount |-> amount, key |-> key])
    /\ UNCHANGED <<posted, money, grant, postTariff, resets, due>>

(* ...and if it was used since, the unique index refuses the row and the   *)
(* transaction rolls back.                                                 *)
FaultyDuplicate(u, key) == FALSE
Duplicate(u, key) == Used(u, key)

Adjust(r) ==
    LET call == chargeCalls[r] IN
    /\ call.at = "adjust"
    /\ Free(r, call.user)
    /\ ChargeGoes(r, Idle)
    /\ \/ /\ ~Duplicate(call.user, call.key)
          /\ Moves(call.user, call.amount, "ADMIN_ADJUST", None, call.key)
       \/ /\ Duplicate(call.user, call.key) \/ purse[call.user] + call.amount < 0
          /\ UNCHANGED money
    /\ UNCHANGED <<posted, grant, postTariff, resets, due>>

ChargingNext ==
    \/ \E r \in Requests :
          \/ \E l \in Ads : AskPost(r, l)
          \/ ChargePost(r) \/ SavePost(r) \/ FailPost(r)
          \/ \E u \in Sellers, amount \in {Gift, -Gift}, key \in Keys :
                AskAdjust(r, u, amount, key)
          \/ Adjust(r)
    \/ \E active \in BOOLEAN : SetPostTariff(active)
    \/ \E u \in Sellers : GiveBack(u)

ChargingSpec == ChargingInit /\ [][ChargingNext]_chargeVars

ChargingTypeOK ==
    /\ posted \subseteq Ads
    /\ purse \in [Sellers -> Nat]
    /\ grant \in [Sellers -> Ads \cup {None}]
    /\ Len(bills) <= MaxBills

BillsWhere(P(_)) == {i \in DOMAIN bills : P(bills[i])}

(* x is what the first n rows of the ledger leave this seller.             *)
Leaves(u, n, x) ==
    \/ x = 0 /\ \A j \in 1 .. n : bills[j].user # u
    \/ \E i \in 1 .. n : /\ bills[i].user = u /\ bills[i].after = x
                         /\ \A j \in i + 1 .. n : bills[j].user # u

(* Each post that had a price is paid for once, with money or with the one *)
(* free post of the account (and those given back), whatever races or      *)
(* fails: no row pays for an advert that was not saved, none is paid twice, *)
(* no key adjusts twice, and the rows explain the balance, one after the   *)
(* other.  (wallet.service.ts:135-324, billing-admin.service.ts:356-409)   *)
EachPostPaidOnce ==
    LET paid(l) == BillsWhere(LAMBDA b : b.kind = "LISTING_POST" /\ b.ref = l) IN
    /\ \A l \in Ads : Cardinality(paid(l)) <= IF l \in due THEN 1 ELSE 0
    /\ \A u \in Sellers :
          /\ grant[u] \in posted \cup {None}
          /\ Cardinality({l \in due : SellerOf[l] = u /\ paid(l) = {}})
                <= resets[u] + IF grant[u] = None THEN 0 ELSE 1
          /\ Leaves(u, Len(bills), purse[u])
          /\ \A i \in DOMAIN bills : bills[i].user = u =>
                Leaves(u, i - 1, bills[i].after - bills[i].amount)
          /\ \A key \in Keys : Cardinality(
                BillsWhere(LAMBDA b : b.user = u /\ b.key = key)) <= 1
=============================================================================
