------------------------------ MODULE Payments ------------------------------
(***************************************************************************)
(* PaymentsService: the provider-neutral payment state machine, with the   *)
(* wallet it credits and the outbox it writes to.                          *)
(*                                                                         *)
(* One action is one database transaction of the service (or one           *)
(* conditional UPDATE, which is a transaction of its own).  An operation   *)
(* that finds its guard false returns false or throws and rolls back: it   *)
(* changes nothing here, and is what the callers in PaymentCallbacks see   *)
(* as a refusal.                                                           *)
(*                                                                         *)
(* The callers pass the payment they read earlier (`snap`), and the code   *)
(* takes the user, the amount and the bonus from that snapshot while it    *)
(* tests the status of the row itself; the actions do the same.            *)
(***************************************************************************)
EXTENDS Ledger, FiniteSets

CONSTANTS
    Users,      \* accounts with a wallet
    PaymentIds, \* ids of payments rows
    Txns,       \* provider_txn_id values the providers send
    NoTxn,      \* provider_txn_id IS NULL
    ClientIds,  \* the app's idempotency keys for a top-up attempt
    NoUser,     \* the owner of a payments row that does not exist yet
    Amounts,    \* top-up amounts, in tiyin
    Prices,     \* what the other services debit
    TierTable,  \* the bonus tiers an admin may have active
    MaxRows     \* bound: ledger rows per user that other movements may reach

ASSUME PaymentsAssumption ==
    /\ Amounts \subseteq Nat \ {0}
    /\ Prices \subseteq Nat \ {0}
    /\ TierTable \subseteq [min : Nat, percent : Nat]
    /\ NoTxn \notin Txns \union {"CLICK", "PAYME", "PAYNET"}
    /\ NoRef \notin PaymentIds
    /\ NoUser \notin Users
    /\ MaxRows \in Nat

VARIABLES
    pay,    \* payments
    wallet, \* wallets and wallet_transactions, per user
    tiers,  \* bonus_tiers rows with is_active
    events  \* the outbox: billing.payment.* events written, per payment

vars == <<pay, wallet, tiers, events>>

Providers == {"CLICK", "PAYME", "PAYNET"}
Statuses  == {"NONE", "CREATED", "PREPARED", "PAID", "CANCELLED"}
EventNames == {"paid", "cancelled", "reversed"}

\* OPEN
Open == {"CREATED", "PREPARED"}

\* A payments row.  `performed` is provider_perform_time IS NOT NULL; `idle`
\* is updated_at < now() - PAYMENT_TTL_HOURS; NONE is a row not inserted yet.
PaymentType ==
    [id : PaymentIds, status : Statuses, user : Users \union {NoUser},
     provider : Providers \union {NoTxn}, amount : Nat, bonus : Nat,
     txn : Txns \union {NoTxn}, key : ClientIds \union {NoKey},
     performed : BOOLEAN, idle : BOOLEAN]

NoPayment(p) ==
    [id |-> p, status |-> "NONE", user |-> NoUser, provider |-> NoTxn,
     amount |-> 0, bonus |-> 0, txn |-> NoTxn, key |-> NoKey,
     performed |-> FALSE, idle |-> FALSE]

TypeOK ==
    /\ pay \in [PaymentIds -> PaymentType]
    /\ \A p \in PaymentIds : pay[p].id = p
    /\ wallet \in [Users -> WalletType(PaymentIds, ClientIds)]
    /\ tiers \subseteq TierTable
    /\ events \in [PaymentIds -> Seq(EventNames)]

Init ==
    /\ pay = [p \in PaymentIds |-> NoPayment(p)]
    /\ wallet = [u \in Users |-> EmptyWallet]
    /\ tiers = {}
    /\ events = [p \in PaymentIds |-> << >>]

-----------------------------------------------------------------------------
\* bonusFor: the active tier with the largest minAmount that the amount
\* reaches.  A set, because no tier may fit; minAmount is unique among tiers.
BonusFor(a) ==
    LET fitting == {t \in tiers : t.min <= a}
        best    == {t \in fitting : \A o \in fitting : o.min <= t.min}
    IN  IF fitting = {} THEN {0} ELSE {(a * t.percent) \div 100 : t \in best}

\* IDX_payments_provider_txn: unique (provider, provider_txn_id).
TxnFree(prov, txn, p) ==
    \A q \in PaymentIds \ {p} : ~(pay[q].provider = prov /\ pay[q].txn = txn)

Publish(p, name) == events' = [events EXCEPT ![p] = Append(@, name)]

\* wallet.credit for the amount, then for the bonus if there is one.
TopUp(w, p, amount, bonus) ==
    LET topped == Credit(w, amount, "TOPUP", p, NoKey)
    IN  IF bonus > 0 THEN Credit(topped, bonus, "TOPUP_BONUS", p, NoKey)
                     ELSE topped

CanTopUp(w, p, amount, bonus) ==
    /\ CanCredit(w, amount)
    /\ TopupFree(w, "TOPUP", p)
    /\ bonus > 0 => /\ w.balance + amount + bonus <= MaxBalance
                    /\ TopupFree(w, "TOPUP_BONUS", p)

-----------------------------------------------------------------------------
\* TopupService.createOrder.  A repeated (user, clientId) inserts nothing and
\* reads back the order it made the first time.
CreateOrder(p, u, prov, a, key) ==
    /\ pay[p].status = "NONE"
    /\ key # NoKey =>
         \A q \in PaymentIds : ~(pay[q].user = u /\ pay[q].key = key)
    /\ pay' = [pay EXCEPT ![p] =
                 [NoPayment(p) EXCEPT !.status = "CREATED", !.user = u,
                     !.provider = prov, !.amount = a, !.key = key]]
    /\ UNCHANGED <<wallet, tiers, events>>

\* markPrepared: any open row, whichever transaction it waited on before.
CanPrepare(prov, snap, txn) ==
    /\ snap.provider = prov
    /\ pay[snap.id].provider = prov
    /\ pay[snap.id].status \in Open
    /\ TxnFree(prov, txn, snap.id)

MarkPrepared(prov, snap, txn) ==
    /\ CanPrepare(prov, snap, txn)
    /\ pay' = [pay EXCEPT ![snap.id].status = "PREPARED",
                          ![snap.id].txn = txn,
                          ![snap.id].idle = FALSE]
    /\ UNCHANGED <<wallet, tiers, events>>

\* markPaid: SELECT ... FOR UPDATE, the flip, the credits and the event are
\* one transaction.  BALANCE_LIMIT or a unique index rolls all of it back.
CanPay(prov, snap, txn, bonus) ==
    /\ snap.provider = prov
    /\ pay[snap.id].provider = prov
    /\ pay[snap.id].status = "PREPARED"
    /\ TxnFree(prov, txn, snap.id)
    /\ CanTopUp(wallet[snap.user], snap.id, snap.amount, bonus)

MarkPaid(prov, snap, txn) ==
    \E bonus \in BonusFor(snap.amount) :
      /\ CanPay(prov, snap, txn, bonus)
      /\ pay' = [pay EXCEPT ![snap.id].status = "PAID",
                            ![snap.id].bonus = bonus,
                            ![snap.id].txn = txn,
                            ![snap.id].performed = TRUE,
                            ![snap.id].idle = FALSE]
      /\ wallet' = [wallet EXCEPT ![snap.user] =
                      TopUp(@, snap.id, snap.amount, bonus)]
      /\ Publish(snap.id, "paid")
      /\ UNCHANGED tiers

\* recordPushPayment: the row is born PAID; the unique index decides a
\* duplicate (ON CONFLICT DO NOTHING).
RecordPushPayment(p, prov, u, a, txn) ==
    \E bonus \in BonusFor(a) :
      /\ pay[p].status = "NONE"
      /\ TxnFree(prov, txn, p)
      /\ CanTopUp(wallet[u], p, a, bonus)
      /\ pay' = [pay EXCEPT ![p] =
                   [NoPayment(p) EXCEPT !.status = "PAID", !.user = u,
                       !.provider = prov, !.amount = a, !.bonus = bonus,
                       !.txn = txn, !.performed = TRUE]]
      /\ wallet' = [wallet EXCEPT ![u] = TopUp(@, p, a, bonus)]
      /\ Publish(p, "paid")
      /\ UNCHANGED tiers

\* cancel: only an open row.
CanCancel(prov, snap) ==
    /\ snap.provider = prov
    /\ pay[snap.id].provider = prov
    /\ pay[snap.id].status \in Open

Cancel(prov, snap) ==
    /\ CanCancel(prov, snap)
    /\ pay' = [pay EXCEPT ![snap.id].status = "CANCELLED",
                          ![snap.id].idle = FALSE]
    /\ Publish(snap.id, "cancelled")
    /\ UNCHANGED <<wallet, tiers>>

\* Faulty: a reversal that forgets the bonus.
FaultyTotal(snap) == snap.amount

\* reverse: only a paid row, and only while the balance still covers what the
\* snapshot says was credited (ReversalNotPossibleError otherwise).
Total(snap) == snap.amount + snap.bonus

CanReverse(prov, snap) ==
    /\ snap.provider = prov
    /\ pay[snap.id].provider = prov
    /\ pay[snap.id].status = "PAID"
    /\ CanDebit(wallet[snap.user], Total(snap))

Reverse(prov, snap) ==
    /\ CanReverse(prov, snap)
    /\ pay' = [pay EXCEPT ![snap.id].status = "CANCELLED",
                          ![snap.id].idle = FALSE]
    /\ wallet' = [wallet EXCEPT ![snap.user] =
                    Debit(@, Total(snap), "REFUND", snap.id, NoKey)]
    /\ Publish(snap.id, "reversed")
    /\ UNCHANGED tiers

\* expireStalePayments: one UPDATE over every open row nobody touched for
\* PAYMENT_TTL_HOURS.  It writes no event.  (Faulty: only the unprepared ones.)
FaultyExpired == {p \in PaymentIds : pay[p].status = "CREATED" /\ pay[p].idle}
Expired == {p \in PaymentIds : pay[p].status \in Open /\ pay[p].idle}

ExpireStalePayments ==
    /\ Expired # {}
    /\ pay' = [p \in PaymentIds |->
                 IF p \in Expired
                 THEN [pay[p] EXCEPT !.status = "CANCELLED", !.idle = FALSE]
                 ELSE pay[p]]
    /\ UNCHANGED <<wallet, tiers, events>>

-----------------------------------------------------------------------------
\* Time: an open row goes PAYMENT_TTL_HOURS without an update.
GrowIdle(p) ==
    /\ pay[p].status \in Open
    /\ ~pay[p].idle
    /\ pay' = [pay EXCEPT ![p].idle = TRUE]
    /\ UNCHANGED <<wallet, tiers, events>>

\* The rest of the backend charging a wallet (WalletService.charge).
Spend(u, a) ==
    /\ Len(wallet[u].rows) < MaxRows
    /\ CanDebit(wallet[u], a)
    /\ wallet' = [wallet EXCEPT ![u] =
                    Debit(@, a, "LISTING_POST", NoRef, NoKey)]
    /\ UNCHANGED <<pay, tiers, events>>

\* An admin creates, deletes, activates or deactivates a bonus tier; min_amount
\* is unique.
SetTiers(new) ==
    /\ new # tiers
    /\ \A s, t \in new : s.min = t.min => s = t
    /\ tiers' = new
    /\ UNCHANGED <<pay, wallet, events>>

Next ==
    \/ \E p \in PaymentIds, u \in Users, prov \in Providers, a \in Amounts,
          key \in ClientIds \union {NoKey} : CreateOrder(p, u, prov, a, key)
    \/ \E p \in PaymentIds, txn \in Txns :
         MarkPrepared(pay[p].provider, pay[p], txn)
    \/ \E p \in PaymentIds, txn \in Txns :
         MarkPaid(pay[p].provider, pay[p], txn)
    \/ \E p \in PaymentIds, u \in Users, a \in Amounts, txn \in Txns :
         RecordPushPayment(p, "PAYNET", u, a, txn)
    \/ \E p \in PaymentIds : Cancel(pay[p].provider, pay[p])
    \/ \E p \in PaymentIds : Reverse(pay[p].provider, pay[p])
    \/ ExpireStalePayments
    \/ \E p \in PaymentIds : GrowIdle(p)
    \/ \E u \in Users, a \in Prices : Spend(u, a)
    \/ \E new \in SUBSET TierTable : SetTiers(new)

Spec == Init /\ [][Next]_vars

-----------------------------------------------------------------------------
\* What the payments rows and the wallets are to the one who pays.
Stage(row) ==
    CASE row.status = "NONE" -> "none"
      [] row.status \in Open -> "open"
      [] row.status = "PAID" -> "paid"
      [] OTHER -> IF row.performed THEN "back" ELSE "dropped"

Worth(row) == IF row.performed THEN row.amount + row.bonus ELSE 0

Stages == [p \in PaymentIds |-> Stage(pay[p])]
Owners == [p \in PaymentIds |-> pay[p].user]
Worths == [p \in PaymentIds |-> Worth(pay[p])]
Purses == [u \in Users |-> wallet[u].balance]

Promise == INSTANCE TopUps WITH
    Payers <- Users, Deals <- PaymentIds, Nobody <- NoUser, Limit <- MaxBalance,
    stage <- Stages, payer <- Owners, worth <- Worths, purse <- Purses

-----------------------------------------------------------------------------
\* The rows of kind k that payment p has in ledger w, and that there is exactly
\* one of them, which moved `delta`.
RowsIn(w, p, k) ==
    {i \in DOMAIN w.rows : w.rows[i].ref = p /\ w.rows[i].kind = k}

OneRow(w, p, k, delta) ==
    \E i \in RowsIn(w, p, k) :
      w.rows[i].amount = delta /\ \A j \in RowsIn(w, p, k) : j = i

Untouched(w, p) == \A i \in DOMAIN w.rows : w.rows[i].ref # p

\* Ledger w holds what payment row `row`, once paid, must have put there.
Settled(w, row) ==
    /\ OneRow(w, row.id, "TOPUP", row.amount)
    /\ IF row.bonus > 0 THEN OneRow(w, row.id, "TOPUP_BONUS", row.bonus)
                        ELSE RowsIn(w, row.id, "TOPUP_BONUS") = {}
    /\ IF row.status = "CANCELLED"
       THEN OneRow(w, row.id, "REFUND", -(row.amount + row.bonus))
       ELSE RowsIn(w, row.id, "REFUND") = {}

\* The wallet says what the payments table says (billing-admin's paymentDetail
\* exists to spot the opposite): a payment that was ever paid put exactly its
\* amount and its bonus in its owner's ledger, once each, whatever callbacks
\* were repeated; one that was taken back also has exactly one matching REFUND;
\* and no other payment ever moved money.
Booked(p) ==
    IF pay[p].performed
    THEN pay[p].status \in {"PAID", "CANCELLED"} /\ Settled(wallet[pay[p].user], pay[p])
    ELSE pay[p].status # "PAID" /\ \A u \in Users : Untouched(wallet[u], p)

PaymentsBooked == \A p \in PaymentIds : Booked(p)

\* Every wallet's ledger explains its balance, and no balance was ever below
\* zero or above the column's limit, through credits, refunds and charges.
WalletsReconcile == \A u \in Users : Reconciles(wallet[u])

\* No payment is announced paid twice, announced paid and then cancelled, or
\* reversed without having been announced paid; a paid payment is announced.
EventsOf(p) ==
    CASE pay[p].status = "PAID" -> {<<"paid">>}
      [] pay[p].status = "CANCELLED" /\ pay[p].performed -> {<<"paid", "reversed">>}
      [] pay[p].status = "CANCELLED" /\ ~pay[p].performed -> {<< >>, <<"cancelled">>}
      [] OTHER -> {<< >>}

EventsFollowStatus == \A p \in PaymentIds : events[p] \in EventsOf(p)
=============================================================================
