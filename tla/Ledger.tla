------------------------------- MODULE Ledger -------------------------------
(***************************************************************************)
(* The wallet primitives every money movement goes through:                *)
(* WalletService.credit and WalletService.debit, as functions of one       *)
(* user's wallet.  Both run on the caller's transaction, so a module that  *)
(* uses them composes them inside ONE action: the action happens when      *)
(* every step of the transaction succeeds, and a transaction that rolls    *)
(* back changes nothing.                                                   *)
(*                                                                         *)
(* Amounts are integers in tiyin (toTiyin / fromTiyin): the code does all  *)
(* its arithmetic on integers and the column is exact, numeric(14,2).      *)
(***************************************************************************)
EXTENDS Integers, Sequences

CONSTANTS
    MaxBalance,  \* MAX_BALANCE, the largest balance numeric(14,2) can hold
    NoRef,       \* reference_id IS NULL
    NoKey        \* client_id IS NULL

ASSUME MaxBalanceAssumption == MaxBalance \in Nat

\* TxKind.
Kinds == {"TOPUP", "TOPUP_BONUS", "LISTING_POST", "LISTING_PROMOTE",
          "VIDEO_POST", "REFUND", "ADMIN_ADJUST"}

\* One wallet_transactions row; `after` is balance_after, `key` client_id.
RowType(Refs, Keys) ==
    [kind : Kinds, amount : Int, ref : Refs \union {NoRef},
     after : Nat, key : Keys \union {NoKey}]

\* A user's wallets row together with the wallet_transactions rows of that
\* user, oldest first.
WalletType(Refs, Keys) ==
    [balance : Nat, rows : Seq(RowType(Refs, Keys))]

\* What ensureWallet inserts for a user who has no wallet yet.
EmptyWallet == [balance |-> 0, rows |-> << >>]

Moved(w, delta, kind, ref, key) ==
    [balance |-> w.balance + delta,
     rows    |-> Append(w.rows, [kind |-> kind, amount |-> delta, ref |-> ref,
                                 after |-> w.balance + delta, key |-> key])]

CanCredit(w, a) == a > 0 /\ w.balance + a <= MaxBalance
Credit(w, a, kind, ref, key) == Moved(w, a, kind, ref, key)

\* Faulty: a debit that does not require the balance to cover it.
FaultyCanDebit(w, a) == a > 0

CanDebit(w, a) == a > 0 /\ w.balance >= a
Debit(w, a, kind, ref, key) == Moved(w, -a, kind, ref, key)

\* The partial unique indexes of wallet_transactions:
\* IDX_wallet_transaction_topup_once and IDX_wallet_transaction_client.
TopupFree(w, kind, ref) ==
    \A i \in DOMAIN w.rows : ~(w.rows[i].kind = kind /\ w.rows[i].ref = ref)
KeyFree(w, key) ==
    key = NoKey \/ \A i \in DOMAIN w.rows : w.rows[i].key # key

\* The ledger explains the balance: each row's balance_after is the previous
\* one plus the amount moved, no row ever left the column's range, and the
\* last row's balance_after is the balance in wallets.
Reconciles(w) ==
    /\ w.balance = IF w.rows = << >> THEN 0 ELSE w.rows[Len(w.rows)].after
    /\ \A i \in DOMAIN w.rows :
         /\ w.rows[i].after =
              (IF i = 1 THEN 0 ELSE w.rows[i - 1].after) + w.rows[i].amount
         /\ w.rows[i].after \in 0..MaxBalance
=============================================================================
