--------------------------- MODULE PaymentsProofs ---------------------------
(***************************************************************************)
(* What holds of Payments and of the webhooks on top of it, for every set  *)
(* of users, payments, amounts, tiers and deliveries.  First the service:  *)
(* it stays type correct, every wallet's ledger explains its balance, and  *)
(* every payment is booked as its row says.  Then the handlers: whatever   *)
(* copies they act on, each of their steps is a step of the service, so    *)
(* what holds of the service holds under them; and what they answer about  *)
(* money is true.                                                          *)
(***************************************************************************)
EXTENDS PaymentCallbacks, SequenceTheorems, TLAPS

Wallets == WalletType(PaymentIds, ClientIds)

-----------------------------------------------------------------------------
(* One movement. *)

\* The money operators keep a wallet well formed.
LEMMA MovedType ==
    ASSUME NEW w \in Wallets,
           NEW delta \in Int, w.balance + delta >= 0,
           NEW kind \in Kinds, NEW ref \in PaymentIds \union {NoRef}
    PROVE  Moved(w, delta, kind, ref, NoKey) \in Wallets
BY DEF Moved, Wallets, WalletType, RowType

\* A movement that keeps the balance in range keeps the ledger explaining it.
LEMMA MovedReconciles ==
    ASSUME NEW w \in Wallets, Reconciles(w),
           NEW delta \in Int, w.balance + delta \in 0..MaxBalance,
           NEW kind \in Kinds, NEW ref \in PaymentIds \union {NoRef}
    PROVE  Reconciles(Moved(w, delta, kind, ref, NoKey))
<1> DEFINE v == Moved(w, delta, kind, ref, NoKey)
           n == Len(w.rows)
<1>1. /\ w.rows \in Seq(RowType(PaymentIds, ClientIds))
      /\ w.balance \in Nat
  BY DEF Wallets, WalletType
<1>2. /\ n \in Nat
      /\ DOMAIN w.rows = 1..n
      /\ v.balance = w.balance + delta
      /\ Len(v.rows) = n + 1
      /\ DOMAIN v.rows = 1..(n + 1)
      /\ \A i \in 1..n : v.rows[i] = w.rows[i]
      /\ v.rows[n + 1].amount = delta
      /\ v.rows[n + 1].after = w.balance + delta
  BY <1>1 DEF Moved
<1>3. v.rows # << >>
  BY <1>2, <1>1
<1>4. v.balance = v.rows[Len(v.rows)].after
  BY <1>2
<1>5. ASSUME NEW i \in 1..n
      PROVE  /\ v.rows[i].after =
                  (IF i = 1 THEN 0 ELSE v.rows[i - 1].after) + v.rows[i].amount
             /\ v.rows[i].after \in 0..MaxBalance
  BY <1>1, <1>2, i = 1 \/ i - 1 \in 1..n DEF Reconciles
<1>6. n = 0 => w.balance = 0
  BY <1>1, <1>2 DEF Reconciles
<1>7. n # 0 => w.balance = w.rows[n].after /\ n \in 1..n
  BY <1>1, <1>2 DEF Reconciles
<1>8. /\ v.rows[n + 1].after =
           (IF n + 1 = 1 THEN 0 ELSE v.rows[n].after) + v.rows[n + 1].amount
      /\ v.rows[n + 1].after \in 0..MaxBalance
  BY <1>1, <1>2, <1>6, <1>7
<1>9. ASSUME NEW i \in DOMAIN v.rows
      PROVE  /\ v.rows[i].after =
                  (IF i = 1 THEN 0 ELSE v.rows[i - 1].after) + v.rows[i].amount
             /\ v.rows[i].after \in 0..MaxBalance
  <2>1. CASE i \in 1..n
    BY <2>1, <1>5
  <2>2. CASE i = n + 1
    BY <2>2, <1>2, <1>8
  <2> QED
    BY <2>1, <2>2, <1>2
<1> QED
  <2> HIDE DEF v
  <2>1. Reconciles(v)
    BY <1>3, <1>4, <1>9 DEF Reconciles
  <2> QED
    BY <2>1 DEF v

\* A balance its ledger explains is within the column's range.
LEMMA BalanceInRange ==
    ASSUME NEW w \in Wallets, Reconciles(w)
    PROVE  w.balance \in 0..MaxBalance
<1>1. w.rows \in Seq(RowType(PaymentIds, ClientIds))
  BY DEF Wallets, WalletType
<1>2. w.rows # << >> => Len(w.rows) \in DOMAIN w.rows
  BY <1>1
<1> QED
  BY <1>1, <1>2, MaxBalanceAssumption DEF Reconciles

\* What a movement does to the rows of a payment: a row of another payment or
\* of another kind leaves them as they are, and one of its own is added.
LEMMA MovedRows ==
    ASSUME NEW w \in Wallets, NEW delta \in Int, NEW kind \in Kinds,
           NEW ref \in PaymentIds \union {NoRef},
           NEW v, v = Moved(w, delta, kind, ref, NoKey), NEW n, n = Len(w.rows) + 1
    PROVE  /\ n \in Nat /\ n \notin DOMAIN w.rows
           /\ DOMAIN v.rows = DOMAIN w.rows \union {n}
           /\ \A i \in DOMAIN w.rows : v.rows[i] = w.rows[i]
           /\ v.rows[n].kind = kind /\ v.rows[n].ref = ref
           /\ v.rows[n].amount = delta
<1>1. w.rows \in Seq(RowType(PaymentIds, ClientIds))
  BY DEF Wallets, WalletType
<1> QED
  BY <1>1 DEF Moved

\* A movement leaves a payment's rows of any other kind, and the rows of any
\* other payment, as they are.
LEMMA OtherRows ==
    ASSUME NEW w \in Wallets, NEW delta \in Int, NEW kind \in Kinds,
           NEW ref \in PaymentIds \union {NoRef},
           NEW p \in PaymentIds, NEW k \in Kinds, ref # p \/ kind # k
    PROVE  LET v == Moved(w, delta, kind, ref, NoKey)
           IN  /\ RowsIn(v, p, k) = RowsIn(w, p, k)
               /\ \A d \in Int : OneRow(w, p, k, d) => OneRow(v, p, k, d)
<1> DEFINE v == Moved(w, delta, kind, ref, NoKey)
           n == Len(w.rows) + 1
<1>0. v = Moved(w, delta, kind, ref, NoKey) /\ n = Len(w.rows) + 1
  OBVIOUS
<1> HIDE DEF v, n
<1>1. /\ n \notin DOMAIN w.rows
      /\ DOMAIN v.rows = DOMAIN w.rows \union {n}
      /\ \A i \in DOMAIN w.rows : v.rows[i] = w.rows[i]
      /\ v.rows[n].kind = kind /\ v.rows[n].ref = ref
  BY <1>0, MovedRows
<1>2. RowsIn(v, p, k) = RowsIn(w, p, k)
  BY <1>1 DEF RowsIn
<1>3. ASSUME NEW d \in Int, OneRow(w, p, k, d) PROVE OneRow(v, p, k, d)
  BY <1>1, <1>2, <1>3 DEF OneRow, RowsIn
<1> QED
  BY <1>2, <1>3 DEF v

\* A movement of a kind the payment has no row of yet gives it exactly one.
LEMMA OwnRow ==
    ASSUME NEW w \in Wallets, NEW delta \in Int, NEW kind \in Kinds,
           NEW p \in PaymentIds, RowsIn(w, p, kind) = {}
    PROVE  OneRow(Moved(w, delta, kind, p, NoKey), p, kind, delta)
<1> DEFINE v == Moved(w, delta, kind, p, NoKey)
           n == Len(w.rows) + 1
<1>0. v = Moved(w, delta, kind, p, NoKey) /\ n = Len(w.rows) + 1
  OBVIOUS
<1> HIDE DEF v, n
<1>1. /\ n \notin DOMAIN w.rows
      /\ DOMAIN v.rows = DOMAIN w.rows \union {n}
      /\ \A i \in DOMAIN w.rows : v.rows[i] = w.rows[i]
      /\ v.rows[n].kind = kind /\ v.rows[n].ref = p
      /\ v.rows[n].amount = delta
  BY <1>0, MovedRows
<1>2. RowsIn(v, p, kind) = {n}
  BY <1>1 DEF RowsIn
<1>3. OneRow(v, p, kind, delta)
  BY <1>1, <1>2 DEF OneRow
<1> QED
  BY <1>3 DEF v

\* A movement that names another payment leaves an untouched one untouched.
LEMMA MovedUntouched ==
    ASSUME NEW w \in Wallets, NEW delta \in Int, NEW kind \in Kinds,
           NEW ref \in PaymentIds \union {NoRef},
           NEW p \in PaymentIds, ref # p, Untouched(w, p)
    PROVE  Untouched(Moved(w, delta, kind, ref, NoKey), p)
<1> DEFINE v == Moved(w, delta, kind, ref, NoKey)
           n == Len(w.rows) + 1
<1>0. v = Moved(w, delta, kind, ref, NoKey) /\ n = Len(w.rows) + 1
  OBVIOUS
<1> HIDE DEF v, n
<1>1. /\ DOMAIN v.rows = DOMAIN w.rows \union {n}
      /\ \A i \in DOMAIN w.rows : v.rows[i] = w.rows[i]
      /\ v.rows[n].ref = ref
  BY <1>0, MovedRows
<1>2. Untouched(v, p)
  BY <1>1 DEF Untouched
<1> QED
  BY <1>2 DEF v

-----------------------------------------------------------------------------
(* A top-up: one movement, or two. *)

\* The bonus of bonusFor is a whole, nonnegative amount whatever the tiers.
LEMMA BonusIsNat ==
    ASSUME tiers \subseteq TierTable, NEW a \in Nat
    PROVE  BonusFor(a) \subseteq Nat
<1>1. ASSUME NEW t \in TierTable PROVE (a * t.percent) \div 100 \in Nat
  <2>1. t.percent \in Nat
    BY PaymentsAssumption
  <2>2. a * t.percent \in Nat
    BY <2>1
  <2> QED
    BY <2>2
<1> QED
  BY <1>1 DEF BonusFor

\* An affordable top-up keeps the wallet well formed and explained.
LEMMA TopUpReconciles ==
    ASSUME NEW w \in Wallets, Reconciles(w), NEW p \in PaymentIds,
           NEW amount \in Nat, NEW bonus \in Nat, CanTopUp(w, p, amount, bonus)
    PROVE  TopUp(w, p, amount, bonus) \in Wallets
           /\ Reconciles(TopUp(w, p, amount, bonus))
<1> DEFINE topped == Moved(w, amount, "TOPUP", p, NoKey)
<1>1. /\ w.balance \in Nat
      /\ topped.balance = w.balance + amount
      /\ w.balance + amount \in 0..MaxBalance
      /\ bonus > 0 => topped.balance + bonus \in 0..MaxBalance
  BY MaxBalanceAssumption DEF CanTopUp, CanCredit, Moved, Wallets, WalletType
<1>2. topped \in Wallets /\ Reconciles(topped)
  BY <1>1, MovedType, MovedReconciles DEF Kinds
<1> HIDE DEF topped
<1>3. CASE bonus > 0
  <2>1. TopUp(w, p, amount, bonus) = Moved(topped, bonus, "TOPUP_BONUS", p, NoKey)
    BY <1>3 DEF TopUp, Credit, topped
  <2>2. topped.balance \in Nat
    BY <1>2 DEF Wallets, WalletType
  <2> QED
    BY <1>1, <1>2, <1>3, <2>1, <2>2, MovedType, MovedReconciles DEF Kinds
<1>4. CASE ~(bonus > 0)
  BY <1>2, <1>4 DEF TopUp, Credit, topped
<1> QED
  BY <1>3, <1>4

\* Ledger v has the rows of payment q that w has.
SameRows(w, v, q) ==
    /\ Untouched(w, q) => Untouched(v, q)
    /\ \A k \in Kinds : RowsIn(v, q, k) = RowsIn(w, q, k)
    /\ \A k \in Kinds, d \in Int : OneRow(w, q, k, d) => OneRow(v, q, k, d)

\* A movement leaves the rows of every payment it does not name alone.
LEMMA MovedOthers ==
    ASSUME NEW w \in Wallets, NEW delta \in Int, NEW kind \in Kinds,
           NEW ref \in PaymentIds \union {NoRef},
           NEW q \in PaymentIds, ref # q
    PROVE  SameRows(w, Moved(w, delta, kind, ref, NoKey), q)
BY OtherRows, MovedUntouched DEF SameRows

\* A top-up leaves the rows of every other payment alone.
LEMMA TopUpOthers ==
    ASSUME NEW w \in Wallets, NEW p \in PaymentIds, NEW amount \in Nat,
           NEW bonus \in Nat, CanTopUp(w, p, amount, bonus),
           NEW q \in PaymentIds \ {p}
    PROVE  SameRows(w, TopUp(w, p, amount, bonus), q)
<1> DEFINE topped == Moved(w, amount, "TOPUP", p, NoKey)
           v == TopUp(w, p, amount, bonus)
<1>1. w.balance \in Nat /\ amount > 0
  BY DEF CanTopUp, CanCredit, Wallets, WalletType
<1>2. topped \in Wallets
  BY <1>1, MovedType DEF Kinds
<1>3. SameRows(w, topped, q)
  BY MovedOthers DEF Kinds
<1> HIDE DEF topped
<1>4. CASE bonus > 0
  <2>1. v = Moved(topped, bonus, "TOPUP_BONUS", p, NoKey)
    BY <1>4 DEF TopUp, Credit, topped
  <2>2. SameRows(topped, v, q)
    BY <1>2, <2>1, MovedOthers DEF Kinds
  <2> QED
    BY <1>3, <2>2 DEF SameRows
<1>5. CASE ~(bonus > 0)
  BY <1>3, <1>5 DEF TopUp, Credit, topped
<1> QED
  BY <1>4, <1>5

\* It books a payment that had no row yet.
LEMMA TopUpBooks ==
    ASSUME NEW w \in Wallets, NEW p \in PaymentIds, NEW amount \in Nat,
           NEW bonus \in Nat, CanTopUp(w, p, amount, bonus), Untouched(w, p)
    PROVE  LET v == TopUp(w, p, amount, bonus)
           IN  /\ OneRow(v, p, "TOPUP", amount)
               /\ IF bonus > 0 THEN OneRow(v, p, "TOPUP_BONUS", bonus)
                               ELSE RowsIn(v, p, "TOPUP_BONUS") = {}
               /\ RowsIn(v, p, "REFUND") = {}
<1> DEFINE topped == Moved(w, amount, "TOPUP", p, NoKey)
           v == TopUp(w, p, amount, bonus)
<1>1. w.balance \in Nat /\ amount > 0
  BY DEF CanTopUp, CanCredit, Wallets, WalletType
<1>2. topped \in Wallets
  BY <1>1, MovedType DEF Kinds
<1>3. \A k \in Kinds : RowsIn(w, p, k) = {}
  BY DEF Untouched, RowsIn
<1>4. /\ OneRow(topped, p, "TOPUP", amount)
      /\ RowsIn(topped, p, "TOPUP_BONUS") = {}
      /\ RowsIn(topped, p, "REFUND") = {}
  BY <1>3, OwnRow, OtherRows DEF Kinds
<1> HIDE DEF topped
<1>5. CASE bonus > 0
  <2>1. v = Moved(topped, bonus, "TOPUP_BONUS", p, NoKey)
    BY <1>5 DEF TopUp, Credit, topped
  <2>2. OneRow(v, p, "TOPUP_BONUS", bonus)
    BY <1>2, <1>4, <2>1, OwnRow DEF Kinds
  <2>3. OneRow(v, p, "TOPUP", amount) /\ RowsIn(v, p, "REFUND") = {}
    BY <1>2, <1>4, <2>1, OtherRows DEF Kinds
  <2> QED
    BY <1>5, <2>2, <2>3
<1>6. CASE ~(bonus > 0)
  BY <1>4, <1>6 DEF TopUp, Credit, topped
<1> QED
  BY <1>5, <1>6

-----------------------------------------------------------------------------
(* The inductive invariant. *)

\* A payment that exists has an owner and a provider.
Owned ==
    \A p \in PaymentIds : pay[p].status # "NONE" =>
      pay[p].user \in Users /\ pay[p].provider \in Providers

Inv == TypeOK /\ Owned /\ WalletsReconcile /\ PaymentsBooked

\* A payment whose row and whose ledger rows a step leaves alone stays booked.
LEMMA BookedKept ==
    ASSUME TypeOK, NEW q \in PaymentIds, Booked(q),
           pay[q].performed => pay[q].user \in Users,
           \A u \in Users : SameRows(wallet[u], wallet'[u], q),
           pay'[q].performed = pay[q].performed,
           IF pay[q].performed
           THEN /\ pay'[q].id = q /\ pay'[q].user = pay[q].user
                /\ pay'[q].amount = pay[q].amount /\ pay'[q].bonus = pay[q].bonus
                /\ pay'[q].status = pay[q].status
           ELSE pay'[q].status # "PAID"
    PROVE  Booked(q)'
<1>1. pay[q].id = q /\ pay[q].amount \in Nat /\ pay[q].bonus \in Nat
  BY DEF TypeOK, PaymentType
<1>2. CASE pay[q].performed
  <2>1. Settled(wallet[pay[q].user], pay[q]) /\ pay[q].status \in {"PAID", "CANCELLED"}
    BY <1>2 DEF Booked
  <2>2. SameRows(wallet[pay[q].user], wallet'[pay[q].user], q)
    BY <1>2
  <2>3. Settled(wallet'[pay'[q].user], pay'[q])
    BY <1>1, <1>2, <2>1, <2>2 DEF Settled, SameRows, Kinds
  <2> QED
    BY <1>2, <2>1, <2>3 DEF Booked
<1>3. CASE ~pay[q].performed
  BY <1>3 DEF Booked, SameRows
<1> QED
  BY <1>2, <1>3

\* A ledger has its own rows.
LEMMA SameRowsRefl == ASSUME NEW w, NEW q PROVE SameRows(w, w, q)
BY DEF SameRows

\* Steps that leave the wallets alone and pay or take back nothing.
LEMMA BookedWithoutMoney ==
    ASSUME Inv, wallet' = wallet,
           NEW p \in PaymentIds, NEW row,
           pay' = [pay EXCEPT ![p] = row],
           ~pay[p].performed, row.performed = FALSE, row.status # "PAID"
    PROVE  PaymentsBooked'
<1> SUFFICES ASSUME NEW q \in PaymentIds PROVE Booked(q)'
  BY DEF PaymentsBooked
<1>1. \A u \in Users : SameRows(wallet[u], wallet'[u], q)
  BY SameRowsRefl
<1>2. /\ Booked(q) /\ pay[q].id = q /\ TypeOK
      /\ pay[q].performed => pay[q].user \in Users
  BY DEF Inv, PaymentsBooked, TypeOK, Owned, Booked
<1>3. CASE q = p
  <2>1. pay'[q] = row
    BY <1>3 DEF Inv, TypeOK
  <2>2. pay[q].performed = FALSE
    BY <1>3 DEF Inv, TypeOK, PaymentType
  <2> QED
    BY <1>1, <1>2, <1>3, <2>1, <2>2, BookedKept
<1>4. CASE q # p
  <2>1. pay'[q] = pay[q]
    BY <1>4 DEF Inv, TypeOK
  <2>2. ~pay[q].performed => pay[q].status # "PAID"
    BY <1>2 DEF Booked
  <2> QED
    BY <1>1, <1>2, <2>1, <2>2, BookedKept
<1> QED
  BY <1>3, <1>4

-----------------------------------------------------------------------------
(* Every step of the service preserves it. *)

\* The database starts with no payments and empty wallets.
LEMMA InitInv == Init => Inv
<1> SUFFICES ASSUME Init PROVE Inv
  OBVIOUS
<1>1. \A p \in PaymentIds : NoPayment(p) \in PaymentType
  BY DEF NoPayment, PaymentType, Statuses
<1>2. TypeOK
  BY <1>1 DEF Init, TypeOK, EmptyWallet, WalletType, NoPayment
<1>3. Owned
  BY DEF Init, Owned, NoPayment
<1>4. WalletsReconcile
  BY DEF Init, WalletsReconcile, Reconciles, EmptyWallet
<1>5. PaymentsBooked
  BY DEF Init, PaymentsBooked, Booked, NoPayment, Untouched, EmptyWallet
<1> QED
  BY <1>2, <1>3, <1>4, <1>5 DEF Inv

\* createOrder writes a row and moves no money.
LEMMA CreateOrderInv ==
    ASSUME Inv, NEW p \in PaymentIds, NEW u \in Users, NEW prov \in Providers,
           NEW a \in Amounts, NEW key \in ClientIds \union {NoKey},
           CreateOrder(p, u, prov, a, key)
    PROVE  Inv'
<1> DEFINE row == [NoPayment(p) EXCEPT !.status = "CREATED", !.user = u,
                     !.provider = prov, !.amount = a, !.key = key]
<1>1. /\ pay' = [pay EXCEPT ![p] = row]
      /\ UNCHANGED <<wallet, tiers, events>>
      /\ pay[p].status = "NONE"
  BY DEF CreateOrder
<1>2. row \in PaymentType /\ row.id = p
  BY PaymentsAssumption DEF NoPayment, PaymentType, Statuses
<1>3. TypeOK'
  BY <1>1, <1>2 DEF Inv, TypeOK
<1>4. Owned'
  BY <1>1 DEF Inv, TypeOK, Owned, NoPayment
<1>5. WalletsReconcile'
  BY <1>1 DEF Inv, WalletsReconcile
<1>6. PaymentsBooked'
  <2>1. ~pay[p].performed
    BY <1>1 DEF Inv, PaymentsBooked, Booked
  <2>2. row.performed = FALSE /\ row.status # "PAID"
    BY DEF NoPayment
  <2> HIDE DEF row
  <2> QED
    BY <1>1, <2>1, <2>2, BookedWithoutMoney
<1> QED
  BY <1>3, <1>4, <1>5, <1>6 DEF Inv

\* markPrepared rewrites an open row and moves no money.
LEMMA MarkPreparedInv ==
    ASSUME Inv, NEW p \in PaymentIds, NEW txn \in Txns,
           MarkPrepared(pay[p].provider, pay[p], txn)
    PROVE  Inv'
<1> DEFINE row == [pay[p] EXCEPT !.status = "PREPARED", !.txn = txn, !.idle = FALSE]
<1>1. pay[p].id = p /\ pay[p] \in PaymentType
  BY DEF Inv, TypeOK
<1>2. /\ pay' = [pay EXCEPT ![p] = row]
      /\ UNCHANGED <<wallet, tiers, events>>
      /\ pay[p].status \in Open
  BY <1>1 DEF MarkPrepared, CanPrepare
<1>3. row \in PaymentType /\ row.id = p
  BY <1>1 DEF PaymentType, Statuses
<1>4. TypeOK'
  BY <1>2, <1>3 DEF Inv, TypeOK
<1>5. Owned'
  BY <1>2 DEF Inv, TypeOK, Owned, Open
<1>6. WalletsReconcile'
  BY <1>2 DEF Inv, WalletsReconcile
<1>7. PaymentsBooked'
  <2>1. pay[p].performed = FALSE
    BY <1>1, <1>2 DEF Inv, PaymentsBooked, Booked, Open, PaymentType
  <2>2. row.performed = FALSE /\ row.status # "PAID"
    BY <1>1, <2>1 DEF PaymentType
  <2> HIDE DEF row
  <2> QED
    BY <1>2, <2>1, <2>2, BookedWithoutMoney
<1> QED
  BY <1>4, <1>5, <1>6, <1>7 DEF Inv

\* cancel closes an open row and moves no money.
LEMMA CancelInv ==
    ASSUME Inv, NEW p \in PaymentIds, Cancel(pay[p].provider, pay[p])
    PROVE  Inv'
<1> DEFINE row == [pay[p] EXCEPT !.status = "CANCELLED", !.idle = FALSE]
<1>1. pay[p].id = p /\ pay[p] \in PaymentType
  BY DEF Inv, TypeOK
<1>2. /\ pay' = [pay EXCEPT ![p] = row]
      /\ events' = [events EXCEPT ![p] = Append(@, "cancelled")]
      /\ UNCHANGED <<wallet, tiers>>
      /\ pay[p].status \in Open
  BY <1>1 DEF Cancel, CanCancel, Publish
<1>3. row \in PaymentType /\ row.id = p
  BY <1>1 DEF PaymentType, Statuses
<1>4. TypeOK'
  BY <1>2, <1>3 DEF Inv, TypeOK, EventNames
<1>5. Owned'
  BY <1>2 DEF Inv, TypeOK, Owned, Open
<1>6. WalletsReconcile'
  BY <1>2 DEF Inv, WalletsReconcile
<1>7. PaymentsBooked'
  <2>1. pay[p].performed = FALSE
    BY <1>1, <1>2 DEF Inv, PaymentsBooked, Booked, Open, PaymentType
  <2>2. row.performed = FALSE /\ row.status # "PAID"
    BY <1>1, <2>1 DEF PaymentType
  <2> HIDE DEF row
  <2> QED
    BY <1>2, <2>1, <2>2, BookedWithoutMoney
<1> QED
  BY <1>4, <1>5, <1>6, <1>7 DEF Inv

\* Time passing over an open row moves no money.
LEMMA GrowIdleInv ==
    ASSUME Inv, NEW p \in PaymentIds, GrowIdle(p)
    PROVE  Inv'
<1> DEFINE row == [pay[p] EXCEPT !.idle = TRUE]
<1>1. pay[p].id = p /\ pay[p] \in PaymentType
  BY DEF Inv, TypeOK
<1>2. /\ pay' = [pay EXCEPT ![p] = row]
      /\ UNCHANGED <<wallet, tiers, events>>
      /\ pay[p].status \in Open
  BY <1>1 DEF GrowIdle
<1>3. row \in PaymentType /\ row.id = p
  BY <1>1 DEF PaymentType
<1>4. TypeOK'
  BY <1>2, <1>3 DEF Inv, TypeOK
<1>5. Owned'
  BY <1>1, <1>2 DEF Inv, TypeOK, Owned, PaymentType
<1>6. WalletsReconcile'
  BY <1>2 DEF Inv, WalletsReconcile
<1>7. PaymentsBooked'
  <2>1. pay[p].performed = FALSE
    BY <1>1, <1>2 DEF Inv, PaymentsBooked, Booked, Open, PaymentType
  <2>2. row.performed = FALSE /\ row.status # "PAID"
    BY <1>1, <1>2, <2>1 DEF PaymentType, Open
  <2> HIDE DEF row
  <2> QED
    BY <1>2, <2>1, <2>2, BookedWithoutMoney
<1> QED
  BY <1>4, <1>5, <1>6, <1>7 DEF Inv

\* The two ways a payment becomes paid, markPaid and recordPushPayment: one
\* row, unpaid so far, is written PAID and its owner's wallet topped up.
LEMMA PaidInv ==
    ASSUME Inv, NEW p \in PaymentIds, NEW u \in Users, NEW row \in PaymentType,
           ~pay[p].performed,
           row.id = p, row.user = u, row.provider \in Providers,
           row.status = "PAID", row.performed = TRUE,
           CanTopUp(wallet[u], p, row.amount, row.bonus),
           pay' = [pay EXCEPT ![p] = row],
           wallet' = [wallet EXCEPT ![u] = TopUp(@, p, row.amount, row.bonus)],
           Publish(p, "paid"), tiers' = tiers
    PROVE  Inv'
<1> DEFINE v == TopUp(wallet[u], p, row.amount, row.bonus)
<1>1. /\ row.amount \in Nat /\ row.bonus \in Nat
      /\ wallet \in [Users -> Wallets]
      /\ Reconciles(wallet[u]) /\ Untouched(wallet[u], p)
  BY DEF PaymentType, Inv, TypeOK, Wallets, WalletsReconcile, PaymentsBooked, Booked
<1>2. v \in Wallets /\ Reconciles(v)
  BY <1>1, TopUpReconciles
<1> HIDE DEF v
<1>3. /\ wallet'[u] = v
      /\ \A o \in Users \ {u} : wallet'[o] = wallet[o]
      /\ wallet' \in [Users -> Wallets]
  BY <1>1, <1>2 DEF v
<1>4. TypeOK'
  BY <1>3 DEF Inv, TypeOK, Publish, EventNames, Wallets
<1>5. Owned'
  BY DEF Inv, TypeOK, Owned
<1>6. WalletsReconcile'
  BY <1>2, <1>3 DEF Inv, WalletsReconcile
<1>7. ASSUME NEW q \in PaymentIds PROVE Booked(q)'
  <2>1. CASE q = p
    <3>1. pay'[q] = row
      BY <2>1 DEF Inv, TypeOK
    <3>2. Settled(v, row)
      BY <1>1, TopUpBooks DEF Settled, v
    <3> QED
      BY <1>3, <3>1, <3>2 DEF Booked
  <2>2. CASE q # p
    <3>1. pay'[q] = pay[q] /\ Booked(q) /\ pay[q].id = q
      BY <2>2 DEF Inv, TypeOK, PaymentsBooked
    <3>2. ASSUME NEW o \in Users PROVE SameRows(wallet[o], wallet'[o], q)
      <4>1. CASE o = u
        <5>1. SameRows(wallet[u], v, q)
          BY <1>1, <2>2, TopUpOthers DEF v
        <5> QED
          BY <1>3, <4>1, <5>1
      <4>2. CASE o # u
        BY <1>3, <4>2, SameRowsRefl
      <4> QED
        BY <4>1, <4>2
    <3>3. pay[q].performed => pay[q].user \in Users
      BY <3>1 DEF Booked, Inv, Owned
    <3>4. ~pay[q].performed => pay[q].status # "PAID"
      BY <3>1 DEF Booked
    <3>5. TypeOK
      BY DEF Inv
    <3> QED
      BY <3>1, <3>2, <3>3, <3>4, <3>5, BookedKept
  <2> QED
    BY <2>1, <2>2
<1> QED
  BY <1>4, <1>5, <1>6, <1>7 DEF Inv, PaymentsBooked

\* markPaid takes the user, the amount and the id from the row it was handed.
LEMMA MarkPaidInv ==
    ASSUME Inv, NEW p \in PaymentIds, NEW txn \in Txns,
           MarkPaid(pay[p].provider, pay[p], txn)
    PROVE  Inv'
<1>1. pay[p].id = p /\ pay[p] \in PaymentType /\ tiers \subseteq TierTable
  BY DEF Inv, TypeOK
<1>2. pay[p].amount \in Nat
  BY <1>1 DEF PaymentType
<1>3. PICK bonus \in BonusFor(pay[p].amount) :
        /\ CanPay(pay[p].provider, pay[p], txn, bonus)
        /\ pay' = [pay EXCEPT ![p].status = "PAID", ![p].bonus = bonus,
                              ![p].txn = txn, ![p].performed = TRUE,
                              ![p].idle = FALSE]
        /\ wallet' = [wallet EXCEPT ![pay[p].user] =
                        TopUp(@, p, pay[p].amount, bonus)]
        /\ Publish(p, "paid")
        /\ UNCHANGED tiers
  BY <1>1 DEF MarkPaid
<1> DEFINE row == [pay[p] EXCEPT !.status = "PAID", !.bonus = bonus, !.txn = txn,
                                 !.performed = TRUE, !.idle = FALSE]
<1>4. bonus \in Nat
  BY <1>1, <1>2, <1>3, BonusIsNat
<1>5. pay[p].status = "PREPARED"
      /\ CanTopUp(wallet[pay[p].user], p, pay[p].amount, bonus)
  BY <1>1, <1>3 DEF CanPay
<1>6. pay' = [pay EXCEPT ![p] = row]
  BY <1>3
<1>7. /\ row \in PaymentType /\ row.id = p /\ row.user = pay[p].user
      /\ row.provider = pay[p].provider /\ row.amount = pay[p].amount
      /\ row.bonus = bonus /\ row.status = "PAID" /\ row.performed = TRUE
  BY <1>1, <1>4 DEF PaymentType, Statuses
<1>8. pay[p].user \in Users /\ pay[p].provider \in Providers
  BY <1>5 DEF Inv, Owned
<1>9. ~pay[p].performed
  BY <1>5 DEF Inv, PaymentsBooked, Booked
<1> HIDE DEF row
<1> QED
  BY <1>3, <1>5, <1>6, <1>7, <1>8, <1>9, PaidInv

\* recordPushPayment inserts the row it pays.
LEMMA RecordPushPaymentInv ==
    ASSUME Inv, NEW p \in PaymentIds, NEW u \in Users, NEW a \in Amounts,
           NEW txn \in Txns, RecordPushPayment(p, "PAYNET", u, a, txn)
    PROVE  Inv'
<1>1. a \in Nat /\ tiers \subseteq TierTable
  BY PaymentsAssumption DEF Inv, TypeOK
<1>2. PICK bonus \in BonusFor(a) :
        /\ pay[p].status = "NONE"
        /\ CanTopUp(wallet[u], p, a, bonus)
        /\ pay' = [pay EXCEPT ![p] =
                     [NoPayment(p) EXCEPT !.status = "PAID", !.user = u,
                         !.provider = "PAYNET", !.amount = a, !.bonus = bonus,
                         !.txn = txn, !.performed = TRUE]]
        /\ wallet' = [wallet EXCEPT ![u] = TopUp(@, p, a, bonus)]
        /\ Publish(p, "paid")
        /\ UNCHANGED tiers
  BY DEF RecordPushPayment
<1> DEFINE row == [NoPayment(p) EXCEPT !.status = "PAID", !.user = u,
                      !.provider = "PAYNET", !.amount = a, !.bonus = bonus,
                      !.txn = txn, !.performed = TRUE]
<1>3. bonus \in Nat
  BY <1>1, <1>2, BonusIsNat
<1>4. /\ row \in PaymentType /\ row.id = p /\ row.user = u
      /\ row.provider \in Providers /\ row.amount = a /\ row.bonus = bonus
      /\ row.status = "PAID" /\ row.performed = TRUE
  BY <1>1, <1>3 DEF NoPayment, PaymentType, Statuses, Providers
<1>5. ~pay[p].performed
  BY <1>2 DEF Inv, PaymentsBooked, Booked
<1>6. pay' = [pay EXCEPT ![p] = row]
  BY <1>2
<1> HIDE DEF row
<1> QED
  BY <1>2, <1>4, <1>5, <1>6, PaidInv

\* reverse: one REFUND row in the owner's ledger, the whole top-up taken back.
LEMMA ReverseInv ==
    ASSUME Inv, NEW p \in PaymentIds, Reverse(pay[p].provider, pay[p])
    PROVE  Inv'
<1> DEFINE u == pay[p].user
           total == pay[p].amount + pay[p].bonus
           row == [pay[p] EXCEPT !.status = "CANCELLED", !.idle = FALSE]
           v == Moved(wallet[u], -total, "REFUND", p, NoKey)
<1>1. pay[p].id = p /\ pay[p] \in PaymentType
  BY DEF Inv, TypeOK
<1>2. /\ pay[p].status = "PAID"
      /\ pay' = [pay EXCEPT ![p] = row]
      /\ wallet' = [wallet EXCEPT ![u] = v]
      /\ Publish(p, "reversed")
      /\ UNCHANGED tiers
      /\ wallet[u].balance >= total
  BY <1>1 DEF Reverse, CanReverse, CanDebit, Debit, Total
<1>3. /\ u \in Users /\ pay[p].provider \in Providers
      /\ pay[p].performed = TRUE
      /\ pay[p].amount \in Nat /\ pay[p].bonus \in Nat /\ total \in Nat
      /\ Settled(wallet[u], pay[p])
      /\ wallet \in [Users -> Wallets]
      /\ Reconciles(wallet[u]) /\ wallet[u].balance \in 0..MaxBalance
  <2>1. u \in Users /\ pay[p].provider \in Providers
    BY <1>2 DEF Inv, Owned
  <2>2. pay[p].performed = TRUE /\ Settled(wallet[u], pay[p])
    BY <1>1, <1>2 DEF Inv, PaymentsBooked, Booked, PaymentType
  <2>3. pay[p].amount \in Nat /\ pay[p].bonus \in Nat
    BY <1>1 DEF PaymentType
  <2>4. wallet \in [Users -> Wallets] /\ Reconciles(wallet[u])
    BY <2>1 DEF Inv, TypeOK, Wallets, WalletsReconcile
  <2>5. wallet[u].balance \in 0..MaxBalance
    BY <2>1, <2>4, BalanceInRange
  <2> QED
    BY <2>1, <2>2, <2>3, <2>4, <2>5
<1>4. v \in Wallets /\ Reconciles(v)
  <2>1. -total \in Int /\ wallet[u] \in Wallets
        /\ wallet[u].balance + (-total) \in 0..MaxBalance
    <3> HIDE DEF total
    <3> QED
      BY <1>2, <1>3, MaxBalanceAssumption
  <2> HIDE DEF total, u
  <2> QED
    BY <1>3, <2>1, MovedType, MovedReconciles DEF Kinds
<1>5. Settled(v, row)
  <2> DEFINE w == wallet[u]
  <2>1. w \in Wallets /\ -total \in Int
    BY <1>3
  <2>2. /\ OneRow(w, p, "TOPUP", pay[p].amount)
        /\ IF pay[p].bonus > 0 THEN OneRow(w, p, "TOPUP_BONUS", pay[p].bonus)
                               ELSE RowsIn(w, p, "TOPUP_BONUS") = {}
        /\ RowsIn(w, p, "REFUND") = {}
    BY <1>1, <1>2, <1>3 DEF Settled
  <2> HIDE DEF w
  <2>3. v = Moved(w, -total, "REFUND", p, NoKey)
    BY DEF w
  <2> HIDE DEF v, total
  <2>4. OneRow(v, p, "REFUND", -total)
    BY <2>1, <2>2, <2>3, OwnRow DEF Kinds
  <2>5. OneRow(v, p, "TOPUP", pay[p].amount)
    BY <1>3, <2>1, <2>2, <2>3, OtherRows DEF Kinds
  <2>6. IF pay[p].bonus > 0 THEN OneRow(v, p, "TOPUP_BONUS", pay[p].bonus)
                            ELSE RowsIn(v, p, "TOPUP_BONUS") = {}
    BY <1>3, <2>1, <2>2, <2>3, OtherRows DEF Kinds
  <2>7. /\ row.id = p /\ row.amount = pay[p].amount
        /\ row.bonus = pay[p].bonus /\ row.status = "CANCELLED"
    BY <1>1 DEF PaymentType
  <2> QED
    BY <2>4, <2>5, <2>6, <2>7 DEF Settled, total
<1> HIDE DEF v
<1>6. /\ wallet'[u] = v
      /\ \A o \in Users \ {u} : wallet'[o] = wallet[o]
      /\ wallet' \in [Users -> Wallets]
  BY <1>2, <1>3, <1>4
<1>7. /\ row \in PaymentType /\ row.id = p /\ row.user = u
      /\ row.status = "CANCELLED" /\ row.performed = TRUE
      /\ row.provider = pay[p].provider
  BY <1>1, <1>3 DEF PaymentType, Statuses
<1> HIDE DEF row
<1>8. TypeOK'
  BY <1>2, <1>6, <1>7 DEF Inv, TypeOK, Publish, EventNames, Wallets
<1>9. Owned'
  BY <1>2, <1>3, <1>7 DEF Inv, TypeOK, Owned
<1>10. WalletsReconcile'
  BY <1>4, <1>6 DEF Inv, WalletsReconcile
<1>11. ASSUME NEW q \in PaymentIds PROVE Booked(q)'
  <2>1. CASE q = p
    <3>1. pay'[q] = row
      BY <1>2, <2>1 DEF Inv, TypeOK
    <3> QED
      BY <1>5, <1>6, <1>7, <3>1 DEF Booked
  <2>2. CASE q # p
    <3>1. pay'[q] = pay[q] /\ Booked(q) /\ pay[q].id = q /\ TypeOK
      BY <1>2, <2>2 DEF Inv, TypeOK, PaymentsBooked
    <3>2. ASSUME NEW o \in Users PROVE SameRows(wallet[o], wallet'[o], q)
      <4>1. CASE o = u
        <5>1. SameRows(wallet[u], v, q)
          BY <1>3, <2>2, MovedOthers DEF v, Kinds
        <5> QED
          BY <1>6, <4>1, <5>1
      <4>2. CASE o # u
        BY <1>6, <4>2, SameRowsRefl
      <4> QED
        BY <4>1, <4>2
    <3>3. pay[q].performed => pay[q].user \in Users
      BY <3>1 DEF Booked, Inv, Owned
    <3>4. ~pay[q].performed => pay[q].status # "PAID"
      BY <3>1 DEF Booked
    <3> QED
      BY <3>1, <3>2, <3>3, <3>4, BookedKept
  <2> QED
    BY <2>1, <2>2
<1> QED
  BY <1>8, <1>9, <1>10, <1>11 DEF Inv, PaymentsBooked

\* expireStalePayments closes open rows only, so it takes no money back.
LEMMA ExpireInv ==
    ASSUME Inv, ExpireStalePayments
    PROVE  Inv'
<1>1. /\ pay' = [p \in PaymentIds |->
                   IF p \in Expired
                   THEN [pay[p] EXCEPT !.status = "CANCELLED", !.idle = FALSE]
                   ELSE pay[p]]
      /\ UNCHANGED <<wallet, tiers, events>>
  BY DEF ExpireStalePayments
<1>2. ASSUME NEW p \in PaymentIds
      PROVE  /\ pay'[p] \in PaymentType /\ pay'[p].id = p
             /\ pay'[p].user = pay[p].user /\ pay'[p].provider = pay[p].provider
             /\ pay'[p].amount = pay[p].amount /\ pay'[p].bonus = pay[p].bonus
             /\ pay'[p].performed = pay[p].performed
             /\ p \notin Expired => pay'[p].status = pay[p].status
             /\ p \in Expired => /\ pay[p].status \in Open
                                 /\ pay'[p].status = "CANCELLED"
  <2>1. pay[p] \in PaymentType /\ pay[p].id = p
    BY DEF Inv, TypeOK
  <2>2. CASE p \in Expired
    <3>1. pay'[p] = [pay[p] EXCEPT !.status = "CANCELLED", !.idle = FALSE]
      BY <1>1, <2>2
    <3>2. pay[p].status \in Open
      BY <2>2 DEF Expired
    <3> QED
      BY <2>1, <2>2, <3>1, <3>2 DEF PaymentType, Statuses
  <2>3. CASE p \notin Expired
    BY <1>1, <2>1, <2>3
  <2> QED
    BY <2>2, <2>3
<1>3. TypeOK'
  BY <1>1, <1>2 DEF Inv, TypeOK
<1>4. Owned'
  BY <1>2 DEF Inv, Owned, Open
<1>5. WalletsReconcile'
  BY <1>1 DEF Inv, WalletsReconcile
<1>6. ASSUME NEW q \in PaymentIds PROVE Booked(q)'
  <2>1. Booked(q) /\ TypeOK
    BY DEF Inv, PaymentsBooked
  <2>2. \A u \in Users : SameRows(wallet[u], wallet'[u], q)
    BY <1>1, SameRowsRefl
  <2>3. pay[q].performed => pay[q].user \in Users /\ q \notin Expired
    BY <2>1, <1>2 DEF Booked, Inv, Owned, Open
  <2>4. ~pay[q].performed => pay'[q].status # "PAID"
    BY <2>1, <1>2 DEF Booked
  <2> QED
    BY <1>2, <2>1, <2>2, <2>3, <2>4, BookedKept
<1> QED
  BY <1>3, <1>4, <1>5, <1>6 DEF Inv, PaymentsBooked

\* A charge names no payment, so it leaves every payment's rows alone.
LEMMA SpendInv ==
    ASSUME Inv, NEW u \in Users, NEW a \in Prices, Spend(u, a)
    PROVE  Inv'
<1> DEFINE v == Moved(wallet[u], -a, "LISTING_POST", NoRef, NoKey)
<1>1. /\ a \in Nat /\ wallet[u].balance >= a
      /\ wallet' = [wallet EXCEPT ![u] = v]
      /\ UNCHANGED <<pay, tiers, events>>
  BY PaymentsAssumption DEF Spend, CanDebit, Debit
<1>2. /\ wallet \in [Users -> Wallets] /\ Reconciles(wallet[u])
      /\ wallet[u].balance \in 0..MaxBalance
  <2>1. wallet \in [Users -> Wallets] /\ Reconciles(wallet[u])
    BY DEF Inv, TypeOK, Wallets, WalletsReconcile
  <2> QED
    BY <2>1, BalanceInRange
<1>3. v \in Wallets /\ Reconciles(v)
  <2>1. -a \in Int /\ wallet[u].balance + (-a) \in 0..MaxBalance
    BY <1>1, <1>2, MaxBalanceAssumption
  <2> QED
    BY <1>2, <2>1, MovedType, MovedReconciles DEF Kinds
<1>4. ASSUME NEW q \in PaymentIds PROVE SameRows(wallet[u], v, q)
  BY <1>1, <1>2, MovedOthers, PaymentsAssumption DEF Kinds
<1> HIDE DEF v
<1>5. /\ wallet'[u] = v
      /\ \A o \in Users \ {u} : wallet'[o] = wallet[o]
      /\ wallet' \in [Users -> Wallets]
  BY <1>1, <1>2, <1>3
<1>6. TypeOK'
  BY <1>1, <1>5 DEF Inv, TypeOK, Wallets
<1>7. Owned' /\ WalletsReconcile'
  BY <1>1, <1>3, <1>5 DEF Inv, Owned, WalletsReconcile
<1>8. ASSUME NEW q \in PaymentIds PROVE Booked(q)'
  <2>1. Booked(q) /\ TypeOK /\ pay' = pay /\ pay[q].id = q
    BY <1>1 DEF Inv, PaymentsBooked, TypeOK
  <2>2. \A o \in Users : SameRows(wallet[o], wallet'[o], q)
    BY <1>4, <1>5, SameRowsRefl
  <2>3. /\ pay[q].performed => pay[q].user \in Users
        /\ ~pay[q].performed => pay[q].status # "PAID"
    BY <2>1 DEF Booked, Inv, Owned
  <2> QED
    BY <2>1, <2>2, <2>3, BookedKept
<1> QED
  BY <1>6, <1>7, <1>8 DEF Inv, PaymentsBooked

\* Tiers decide future bonuses only; a stuttering step decides nothing.
LEMMA UntouchedInv ==
    ASSUME Inv, UNCHANGED <<pay, wallet, events>>, tiers' \subseteq TierTable
    PROVE  Inv'
BY DEF Inv, TypeOK, Owned, WalletsReconcile, PaymentsBooked, Booked

\* Every step of the service preserves the invariant.
LEMMA NextInv == Inv /\ [Next]_vars => Inv'
<1> SUFFICES ASSUME Inv, [Next]_vars PROVE Inv'
  OBVIOUS
<1>1. ASSUME NEW p \in PaymentIds, NEW u \in Users, NEW prov \in Providers,
             NEW a \in Amounts, NEW key \in ClientIds \union {NoKey},
             CreateOrder(p, u, prov, a, key)
      PROVE  Inv'
  BY <1>1, CreateOrderInv
<1>2. ASSUME NEW p \in PaymentIds, NEW txn \in Txns,
             MarkPrepared(pay[p].provider, pay[p], txn)
      PROVE  Inv'
  BY <1>2, MarkPreparedInv
<1>3. ASSUME NEW p \in PaymentIds, NEW txn \in Txns,
             MarkPaid(pay[p].provider, pay[p], txn)
      PROVE  Inv'
  BY <1>3, MarkPaidInv
<1>4. ASSUME NEW p \in PaymentIds, NEW u \in Users, NEW a \in Amounts,
             NEW txn \in Txns, RecordPushPayment(p, "PAYNET", u, a, txn)
      PROVE  Inv'
  BY <1>4, RecordPushPaymentInv
<1>5. ASSUME NEW p \in PaymentIds, Cancel(pay[p].provider, pay[p]) PROVE Inv'
  BY <1>5, CancelInv
<1>6. ASSUME NEW p \in PaymentIds, Reverse(pay[p].provider, pay[p]) PROVE Inv'
  BY <1>6, ReverseInv
<1>7. CASE ExpireStalePayments
  BY <1>7, ExpireInv
<1>8. ASSUME NEW p \in PaymentIds, GrowIdle(p) PROVE Inv'
  BY <1>8, GrowIdleInv
<1>9. ASSUME NEW u \in Users, NEW a \in Prices, Spend(u, a) PROVE Inv'
  BY <1>9, SpendInv
<1>10. ASSUME NEW new \in SUBSET TierTable, SetTiers(new) PROVE Inv'
  BY <1>10, UntouchedInv DEF SetTiers
<1>11. CASE UNCHANGED vars
  <2>1. tiers' \subseteq TierTable
    BY <1>11 DEF vars, Inv, TypeOK
  <2> QED
    BY <1>11, <2>1, UntouchedInv DEF vars
<1> QED
  BY <1>1, <1>2, <1>3, <1>4, <1>5, <1>6, <1>7, <1>8, <1>9, <1>10, <1>11 DEF Next

-----------------------------------------------------------------------------
(* The theorems. *)

\* The invariant holds in every reachable state.
THEOREM Invariant == Spec => []Inv
BY InitInv, NextInv, PTL DEF Spec

\* PaymentsService and the wallet it credits only ever hold well formed rows.
THEOREM TypeCorrect == Spec => []TypeOK
<1>1. Inv => TypeOK
  BY DEF Inv
<1> QED
  BY <1>1, Invariant, PTL

\* Through every credit, bonus, refund and charge, in any order and for any
\* amounts and limit, a user's wallet_transactions explain the balance in
\* wallets, and no balance was ever negative or above MAX_BALANCE.
THEOREM LedgersReconcile == Spec => []WalletsReconcile
<1>1. Inv => WalletsReconcile
  BY DEF Inv
<1> QED
  BY <1>1, Invariant, PTL

\* However callbacks repeat, cross and go stale, markPaid, recordPushPayment,
\* cancel, reverse and the sweep leave every paid payment credited exactly
\* once, every reversed one also refunded exactly once and in full, and every
\* other payment without a row in any ledger.
THEOREM MoneyIsBooked == Spec => []PaymentsBooked
<1>1. Inv => PaymentsBooked
  BY DEF Inv
<1> QED
  BY <1>1, Invariant, PTL

-----------------------------------------------------------------------------
(* What the service promises its payers. *)

\* Each of these is a function, and nothing but what it gives.
LEMMA Shown ==
    /\ Stages = [p \in PaymentIds |-> Stages[p]]
    /\ Owners = [p \in PaymentIds |-> Owners[p]]
    /\ Worths = [p \in PaymentIds |-> Worths[p]]
    /\ Purses = [u \in Users |-> Purses[u]]
<1>1. \A p \in PaymentIds : Stages[p] = Stage(pay[p]) /\ Owners[p] = pay[p].user
                             /\ Worths[p] = Worth(pay[p])
  BY DEF Stages, Owners, Worths
<1>2. \A u \in Users : Purses[u] = wallet[u].balance
  BY DEF Purses
<1>3. Stages = [p \in PaymentIds |-> Stages[p]]
  BY <1>1 DEF Stages
<1>4. Owners = [p \in PaymentIds |-> Owners[p]]
  BY <1>1 DEF Owners
<1>5. Worths = [p \in PaymentIds |-> Worths[p]]
  BY <1>1 DEF Worths
<1>6. Purses = [u \in Users |-> Purses[u]]
  BY <1>2 DEF Purses
<1> QED
  BY <1>3, <1>4, <1>5, <1>6

\* One row written, as the payer sees it.
LEMMA RowShows ==
    ASSUME Inv, NEW p \in PaymentIds, NEW row, pay' = [pay EXCEPT ![p] = row]
    PROVE  /\ Stages' = [Stages EXCEPT ![p] = Stage(row)]
           /\ Owners' = [Owners EXCEPT ![p] = row.user]
           /\ Worths' = [Worths EXCEPT ![p] = Worth(row)]
<1>1. \A q \in PaymentIds : pay'[q] = IF q = p THEN row ELSE pay[q]
  BY DEF Inv, TypeOK
<1>2. \A q \in PaymentIds : Stage(pay'[q]) = IF q = p THEN Stage(row) ELSE Stage(pay[q])
  BY <1>1
<1>3. \A q \in PaymentIds : Worth(pay'[q]) = IF q = p THEN Worth(row) ELSE Worth(pay[q])
  BY <1>1
<1>4. Stages' = [Stages EXCEPT ![p] = Stage(row)]
  BY <1>2 DEF Stages
<1>5. Owners' = [Owners EXCEPT ![p] = row.user]
  <2>1. \A q \in PaymentIds : pay'[q].user = IF q = p THEN row.user ELSE pay[q].user
    BY <1>1
  <2> QED
    BY <2>1 DEF Owners
<1>6. Worths' = [Worths EXCEPT ![p] = Worth(row)]
  BY <1>3 DEF Worths
<1> QED
  BY <1>4, <1>5, <1>6

\* A row written over with one that stands the same shows nothing.
LEMMA RowHides ==
    ASSUME Inv, NEW p \in PaymentIds, NEW row, pay' = [pay EXCEPT ![p] = row],
           Stage(row) = Stage(pay[p]), row.user = pay[p].user,
           Worth(row) = Worth(pay[p])
    PROVE  UNCHANGED <<Stages, Owners, Worths>>
<1>1. /\ Stages[p] = Stage(pay[p]) /\ Owners[p] = pay[p].user
      /\ Worths[p] = Worth(pay[p])
  BY DEF Stages, Owners, Worths
<1>2. /\ Stages' = [Stages EXCEPT ![p] = Stage(row)]
      /\ Owners' = [Owners EXCEPT ![p] = row.user]
      /\ Worths' = [Worths EXCEPT ![p] = Worth(row)]
  BY RowShows
<1>3. Stages' = Stages
  BY <1>1, <1>2, Shown
<1>4. Owners' = Owners
  BY <1>1, <1>2, Shown
<1>5. Worths' = Worths
  BY <1>1, <1>2, Shown
<1> QED
  BY <1>3, <1>4, <1>5

\* One wallet moved.
LEMMA PurseShows ==
    ASSUME Inv, NEW u \in Users, NEW w, wallet' = [wallet EXCEPT ![u] = w]
    PROVE  Purses' = [Purses EXCEPT ![u] = w.balance]
<1>1. \A o \in Users : wallet'[o] = IF o = u THEN w ELSE wallet[o]
  BY DEF Inv, TypeOK
<1>2. \A o \in Users : wallet'[o].balance = IF o = u THEN w.balance ELSE wallet[o].balance
  BY <1>1
<1> QED
  BY <1>2 DEF Purses

\* A top-up fills the purse with its amount and its bonus.
LEMMA TopUpFills ==
    ASSUME NEW w \in Wallets, NEW p \in PaymentIds, NEW amount \in Nat,
           NEW bonus \in Nat, CanTopUp(w, p, amount, bonus)
    PROVE  /\ TopUp(w, p, amount, bonus).balance = w.balance + (amount + bonus)
           /\ w.balance + (amount + bonus) <= MaxBalance
           /\ amount + bonus \in 1..MaxBalance
<1>1. w.balance \in Nat
  BY DEF Wallets, WalletType
<1> QED
  BY <1>1, MaxBalanceAssumption
     DEF CanTopUp, CanCredit, TopUp, Credit, Moved

\* How a row stands to its payer: only a paid one or one that was taken back
\* is worth something.
LEMMA RowStands ==
    ASSUME Inv, NEW p \in PaymentIds
    PROVE  /\ pay[p] \in PaymentType /\ pay[p].id = p
           /\ pay[p].amount \in Nat /\ pay[p].bonus \in Nat
           /\ Stages[p] = Stage(pay[p]) /\ Owners[p] = pay[p].user
           /\ Worths[p] = Worth(pay[p])
           /\ pay[p].status # "NONE" => pay[p].user \in Users
           /\ pay[p].performed => pay[p].status \in {"PAID", "CANCELLED"}
           /\ pay[p].status = "PAID" => pay[p].performed
BY DEF Inv, TypeOK, PaymentType, Owned, PaymentsBooked, Booked, Stages, Owners, Worths

\* A paid row, written by markPaid or by recordPushPayment, is an arrival.
LEMMA PaidArrives ==
    ASSUME Inv, NEW p \in PaymentIds, NEW u \in Users, NEW amount \in Nat,
           NEW bonus \in Nat, NEW row,
           \/ pay[p].status \in Open /\ pay[p].user = u
           \/ pay[p].status = "NONE",
           CanTopUp(wallet[u], p, amount, bonus),
           pay' = [pay EXCEPT ![p] = row],
           wallet' = [wallet EXCEPT ![u] = TopUp(@, p, amount, bonus)],
           row.status = "PAID", row.user = u, row.amount = amount,
           row.bonus = bonus, row.performed = TRUE
    PROVE  Promise!Arrive(p, u, amount + bonus) /\ amount + bonus \in 1..MaxBalance
<1>1. wallet[u] \in Wallets
  BY DEF Inv, TypeOK, Wallets
<1>2. /\ TopUp(wallet[u], p, amount, bonus).balance = wallet[u].balance + (amount + bonus)
      /\ wallet[u].balance + (amount + bonus) <= MaxBalance
      /\ amount + bonus \in 1..MaxBalance
  BY <1>1, TopUpFills
<1>3. /\ Stages' = [Stages EXCEPT ![p] = Stage(row)]
      /\ Owners' = [Owners EXCEPT ![p] = row.user]
      /\ Worths' = [Worths EXCEPT ![p] = Worth(row)]
  BY RowShows
<1>4. Stage(row) = "paid" /\ Worth(row) = amount + bonus
  BY DEF Stage, Worth, Total, Open
<1>5. Purses' = [Purses EXCEPT ![u] = TopUp(wallet[u], p, amount, bonus).balance]
  BY PurseShows
<1>6. Purses' = [Purses EXCEPT ![u] = wallet[u].balance + (amount + bonus)]
  BY <1>2, <1>5
<1>7. Purses[u] = wallet[u].balance
  BY DEF Purses
<1>8. \/ Stages[p] = "open" /\ Owners[p] = u
      \/ Stages[p] = "none"
  BY RowStands DEF Stage, Open
<1> QED
  BY <1>2, <1>3, <1>4, <1>6, <1>7, <1>8 DEF Promise!Arrive

\* cancel and expireStalePayments drop open rows.
LEMMA Drops ==
    ASSUME Inv, NEW ps \in SUBSET PaymentIds, UNCHANGED wallet,
           \A p \in ps : pay[p].status \in Open,
           \A p \in PaymentIds :
             IF p \in ps
             THEN /\ pay'[p].status = "CANCELLED" /\ pay'[p].user = pay[p].user
                  /\ pay'[p].performed = pay[p].performed
             ELSE pay'[p] = pay[p]
    PROVE  Promise!Drop(ps)
<1>1. ASSUME NEW p \in ps
      PROVE  /\ Stage(pay[p]) = "open" /\ Stage(pay'[p]) = "dropped"
             /\ Worth(pay[p]) = 0 /\ Worth(pay'[p]) = 0
  <2>1. p \in PaymentIds /\ pay[p].status \in Open /\ pay[p].performed \in BOOLEAN
    BY DEF Inv, TypeOK, PaymentType
  <2>2. ~pay[p].performed
    BY <2>1, RowStands DEF Open
  <2> QED
    BY <2>1, <2>2 DEF Stage, Worth, Open
<1>2. \A p \in ps : Stages[p] = "open"
  BY <1>1 DEF Stages
<1>3. Stages' = [p \in PaymentIds |-> IF p \in ps THEN "dropped" ELSE Stages[p]]
  BY <1>1 DEF Stages
<1>4. Owners' = Owners
  BY DEF Owners
<1>5. Worths' = Worths
  BY <1>1 DEF Worths
<1>6. Purses' = Purses
  BY DEF Purses
<1> QED
  BY <1>2, <1>3, <1>4, <1>5, <1>6 DEF Promise!Drop

\* reverse takes a top-up back.
LEMMA ReverseTakesBack ==
    ASSUME Inv, NEW p \in PaymentIds, Reverse(pay[p].provider, pay[p])
    PROVE  Promise!TakeBack(p)
<1> DEFINE u == pay[p].user
           row == [pay[p] EXCEPT !.status = "CANCELLED", !.idle = FALSE]
<1>1. /\ pay[p] \in PaymentType /\ pay[p].id = p
      /\ pay[p].amount \in Nat /\ pay[p].bonus \in Nat
  BY RowStands
<1>2. /\ pay[p].status = "PAID"
      /\ CanDebit(wallet[u], Total(pay[p]))
      /\ pay' = [pay EXCEPT ![p].status = "CANCELLED", ![p].idle = FALSE]
      /\ wallet' = [wallet EXCEPT ![u] = Debit(@, Total(pay[p]), "REFUND", p, NoKey)]
  BY <1>1 DEF Reverse, CanReverse
<1>3. u \in Users /\ pay[p].performed
  BY <1>2, RowStands
<1>4. wallet[u] \in Wallets /\ wallet[u].balance \in Nat
  BY <1>3 DEF Inv, TypeOK, Wallets, WalletType
<1>5. pay' = [pay EXCEPT ![p] = row]
  BY <1>2
<1>6. Stage(row) = "back" /\ row.user = u /\ Worth(row) = Worth(pay[p])
      /\ Worth(pay[p]) = Total(pay[p])
  BY <1>1, <1>3 DEF Stage, Worth, Total, Open, PaymentType
<1>7. /\ Stages' = [Stages EXCEPT ![p] = Stage(row)]
      /\ Owners' = [Owners EXCEPT ![p] = row.user]
      /\ Worths' = [Worths EXCEPT ![p] = Worth(row)]
  BY <1>5, RowShows
<1> HIDE DEF row
<1>8. Owners' = Owners /\ Worths' = Worths
  <2>1. Owners[p] = row.user /\ Worths[p] = Worth(row)
    BY <1>6, RowStands
  <2>2. Owners' = Owners
    BY <1>7, <2>1, Shown
  <2>3. Worths' = Worths
    BY <1>7, <2>1, Shown
  <2> QED
    BY <2>2, <2>3
<1>9. Purses' = [Purses EXCEPT ![u] = wallet[u].balance - Total(pay[p])]
  <2>1. wallet' = [wallet EXCEPT ![u] = Debit(wallet[u], Total(pay[p]), "REFUND", p, NoKey)]
    BY <1>2
  <2>2. Debit(wallet[u], Total(pay[p]), "REFUND", p, NoKey).balance
          = wallet[u].balance - Total(pay[p])
    BY <1>1, <1>4 DEF Debit, Moved, Total
  <2> QED
    BY <1>3, <2>1, <2>2, PurseShows
<1>10. Purses[u] = wallet[u].balance /\ Worths[p] = Total(pay[p]) /\ Owners[p] = u
       /\ Stages[p] = "paid"
  BY <1>2, <1>3, <1>6, RowStands DEF Purses, Stage, Open
<1>11. Total(pay[p]) <= wallet[u].balance
  BY <1>1, <1>2, <1>4 DEF CanDebit, Total
<1> QED
  BY <1>6, <1>7, <1>8, <1>9, <1>10, <1>11 DEF Promise!TakeBack

\* Every step of the service is a step of the promise, or shows nothing of it.
LEMMA NextIsPromised == Inv /\ [Next]_vars => [Promise!PromiseNext]_(Promise!promised)
<1> SUFFICES ASSUME Inv, [Next]_vars
             PROVE  Promise!PromiseNext \/ UNCHANGED <<Stages, Owners, Worths, Purses>>
  BY DEF Promise!promised
<1>1. ASSUME UNCHANGED wallet PROVE Purses' = Purses
  BY <1>1 DEF Purses
<1>2. ASSUME UNCHANGED pay PROVE UNCHANGED <<Stages, Owners, Worths>>
  BY <1>2 DEF Stages, Owners, Worths
<1>3. ASSUME NEW p \in PaymentIds, NEW u \in Users, NEW prov \in Providers,
             NEW a \in Amounts, NEW key \in ClientIds \union {NoKey},
             CreateOrder(p, u, prov, a, key)
      PROVE  Promise!PromiseNext
  <2> DEFINE row == [NoPayment(p) EXCEPT !.status = "CREATED", !.user = u,
                       !.provider = prov, !.amount = a, !.key = key]
  <2>1. pay[p].status = "NONE" /\ UNCHANGED wallet /\ pay' = [pay EXCEPT ![p] = row]
    BY <1>3 DEF CreateOrder
  <2>2. Stage(row) = "open" /\ row.user = u /\ Worth(row) = 0
    BY DEF Stage, Worth, NoPayment, Open
  <2>3. Stages[p] = "none" /\ Worths[p] = 0
    <3>1. ~pay[p].performed
      BY <2>1, RowStands
    <3> QED
      BY <2>1, <3>1, RowStands DEF Stage, Worth, Open
  <2>4. /\ Stages' = [Stages EXCEPT ![p] = Stage(row)]
        /\ Owners' = [Owners EXCEPT ![p] = row.user]
        /\ Worths' = [Worths EXCEPT ![p] = Worth(row)]
    BY <2>1, RowShows
  <2> HIDE DEF row
  <2>5. Worths' = Worths
    BY <2>2, <2>3, <2>4, Shown
  <2>6. Promise!Ask(p, u)
    BY <2>1, <2>2, <2>3, <2>4, <2>5, <1>1 DEF Promise!Ask
  <2> QED
    BY <2>6 DEF Promise!PromiseNext
<1>4. ASSUME NEW p \in PaymentIds, NEW txn \in Txns,
             MarkPrepared(pay[p].provider, pay[p], txn)
      PROVE  UNCHANGED <<Stages, Owners, Worths, Purses>>
  <2> DEFINE row == [pay[p] EXCEPT !.status = "PREPARED", !.txn = txn, !.idle = FALSE]
  <2>1. pay[p] \in PaymentType /\ pay[p].id = p
    BY RowStands
  <2>2. /\ pay[p].status \in Open /\ UNCHANGED wallet
        /\ pay' = [pay EXCEPT ![p] = row]
    BY <1>4, <2>1 DEF MarkPrepared, CanPrepare
  <2>3. Stage(row) = Stage(pay[p]) /\ row.user = pay[p].user /\ Worth(row) = Worth(pay[p])
    BY <2>1, <2>2 DEF Stage, Worth, Total, Open, PaymentType
  <2> QED
    BY <2>2, <2>3, RowHides, <1>1
<1>5. ASSUME NEW p \in PaymentIds, NEW txn \in Txns,
             MarkPaid(pay[p].provider, pay[p], txn)
      PROVE  Promise!PromiseNext
  <2>1. pay[p].id = p /\ pay[p] \in PaymentType /\ pay[p].amount \in Nat
        /\ tiers \subseteq TierTable
    BY RowStands DEF Inv, TypeOK
  <2>2. PICK bonus \in BonusFor(pay[p].amount) :
          /\ CanPay(pay[p].provider, pay[p], txn, bonus)
          /\ pay' = [pay EXCEPT ![p].status = "PAID", ![p].bonus = bonus,
                                ![p].txn = txn, ![p].performed = TRUE,
                                ![p].idle = FALSE]
          /\ wallet' = [wallet EXCEPT ![pay[p].user] =
                          TopUp(@, p, pay[p].amount, bonus)]
    BY <1>5, <2>1 DEF MarkPaid
  <2> DEFINE row == [pay[p] EXCEPT !.status = "PAID", !.bonus = bonus, !.txn = txn,
                                   !.performed = TRUE, !.idle = FALSE]
  <2>3. bonus \in Nat
    BY <2>1, <2>2, BonusIsNat
  <2>4. pay[p].status = "PREPARED"
        /\ CanTopUp(wallet[pay[p].user], p, pay[p].amount, bonus)
    BY <2>1, <2>2 DEF CanPay
  <2>5. pay[p].user \in Users /\ pay[p].status \in Open
    BY <2>4, RowStands DEF Open
  <2>6. /\ pay' = [pay EXCEPT ![p] = row]
        /\ row.status = "PAID" /\ row.user = pay[p].user
        /\ row.amount = pay[p].amount /\ row.bonus = bonus /\ row.performed = TRUE
    BY <2>1, <2>2 DEF PaymentType
  <2> HIDE DEF row
  <2>7. /\ Promise!Arrive(p, pay[p].user, pay[p].amount + bonus)
        /\ pay[p].amount + bonus \in 1..MaxBalance
    BY <2>1, <2>2, <2>3, <2>4, <2>5, <2>6, PaidArrives
  <2> QED
    BY <2>5, <2>7 DEF Promise!PromiseNext
<1>6. ASSUME NEW p \in PaymentIds, NEW u \in Users, NEW a \in Amounts,
             NEW txn \in Txns, RecordPushPayment(p, "PAYNET", u, a, txn)
      PROVE  Promise!PromiseNext
  <2>1. a \in Nat /\ tiers \subseteq TierTable
    BY PaymentsAssumption DEF Inv, TypeOK
  <2>2. PICK bonus \in BonusFor(a) :
          /\ pay[p].status = "NONE"
          /\ CanTopUp(wallet[u], p, a, bonus)
          /\ pay' = [pay EXCEPT ![p] =
                       [NoPayment(p) EXCEPT !.status = "PAID", !.user = u,
                           !.provider = "PAYNET", !.amount = a, !.bonus = bonus,
                           !.txn = txn, !.performed = TRUE]]
          /\ wallet' = [wallet EXCEPT ![u] = TopUp(@, p, a, bonus)]
    BY <1>6 DEF RecordPushPayment
  <2> DEFINE row == [NoPayment(p) EXCEPT !.status = "PAID", !.user = u,
                        !.provider = "PAYNET", !.amount = a, !.bonus = bonus,
                        !.txn = txn, !.performed = TRUE]
  <2>3. bonus \in Nat
    BY <2>1, <2>2, BonusIsNat
  <2>4. /\ row.status = "PAID" /\ row.user = u
        /\ row.amount = a /\ row.bonus = bonus /\ row.performed = TRUE
    BY DEF NoPayment
  <2>5. pay' = [pay EXCEPT ![p] = row]
    BY <2>2
  <2> HIDE DEF row
  <2>6. /\ Promise!Arrive(p, u, a + bonus) /\ a + bonus \in 1..MaxBalance
    BY <2>1, <2>2, <2>3, <2>4, <2>5, PaidArrives
  <2> QED
    BY <2>6 DEF Promise!PromiseNext
<1>7. ASSUME NEW p \in PaymentIds, Cancel(pay[p].provider, pay[p])
      PROVE  Promise!PromiseNext
  <2>1. pay[p] \in PaymentType /\ pay[p].id = p
    BY RowStands
  <2>2. /\ pay[p].status \in Open /\ UNCHANGED wallet
        /\ pay' = [pay EXCEPT ![p].status = "CANCELLED", ![p].idle = FALSE]
    BY <1>7, <2>1 DEF Cancel, CanCancel
  <2>3. ASSUME NEW q \in PaymentIds
        PROVE  IF q \in {p}
               THEN /\ pay'[q].status = "CANCELLED" /\ pay'[q].user = pay[q].user
                    /\ pay'[q].performed = pay[q].performed
               ELSE pay'[q] = pay[q]
    BY <2>1, <2>2 DEF Inv, TypeOK, PaymentType
  <2>4. Promise!Drop({p})
    BY <2>2, <2>3, Drops
  <2> QED
    BY <2>4 DEF Promise!PromiseNext
<1>8. ASSUME NEW p \in PaymentIds, Reverse(pay[p].provider, pay[p])
      PROVE  Promise!PromiseNext
  BY <1>8, ReverseTakesBack DEF Promise!PromiseNext
<1>9. CASE ExpireStalePayments
  <2>1. ASSUME NEW q \in PaymentIds
        PROVE  IF q \in Expired
               THEN /\ pay'[q].status = "CANCELLED" /\ pay'[q].user = pay[q].user
                    /\ pay'[q].performed = pay[q].performed
               ELSE pay'[q] = pay[q]
    BY <1>9, RowStands DEF ExpireStalePayments, PaymentType
  <2>2. Expired \in SUBSET PaymentIds /\ \A q \in Expired : pay[q].status \in Open
    BY DEF Expired
  <2>3. Promise!Drop(Expired)
    BY <1>9, <2>1, <2>2, Drops DEF ExpireStalePayments
  <2> QED
    BY <2>2, <2>3 DEF Promise!PromiseNext
<1>10. ASSUME NEW p \in PaymentIds, GrowIdle(p)
       PROVE  UNCHANGED <<Stages, Owners, Worths, Purses>>
  <2> DEFINE row == [pay[p] EXCEPT !.idle = TRUE]
  <2>1. pay[p] \in PaymentType
    BY RowStands
  <2>2. UNCHANGED wallet /\ pay' = [pay EXCEPT ![p] = row]
    BY <1>10 DEF GrowIdle
  <2>3. Stage(row) = Stage(pay[p]) /\ row.user = pay[p].user /\ Worth(row) = Worth(pay[p])
    BY <2>1 DEF Stage, Worth, Total, PaymentType
  <2> QED
    BY <2>2, <2>3, RowHides, <1>1
<1>11. ASSUME NEW u \in Users, NEW a \in Prices, Spend(u, a)
       PROVE  Promise!PromiseNext
  <2>1. a \in Nat \ {0} /\ wallet[u] \in Wallets /\ wallet[u].balance \in 0..MaxBalance
    BY PaymentsAssumption, BalanceInRange DEF Inv, TypeOK, Wallets, WalletsReconcile
  <2>2. /\ CanDebit(wallet[u], a) /\ UNCHANGED pay
        /\ wallet' = [wallet EXCEPT ![u] = Debit(wallet[u], a, "LISTING_POST", NoRef, NoKey)]
    BY <1>11 DEF Spend
  <2>3. Debit(wallet[u], a, "LISTING_POST", NoRef, NoKey).balance = wallet[u].balance - a
    BY <2>1 DEF Debit, Moved
  <2>4. Purses' = [Purses EXCEPT ![u] = wallet[u].balance - a]
    BY <2>2, <2>3, PurseShows
  <2>5. Purses[u] = wallet[u].balance
    BY DEF Purses
  <2>6. a <= wallet[u].balance /\ a \in 1..MaxBalance
    BY <2>1, <2>2, MaxBalanceAssumption DEF CanDebit
  <2>7. Promise!Use(u, a)
    BY <2>2, <2>4, <2>5, <2>6, <1>2 DEF Promise!Use
  <2> QED
    BY <2>6, <2>7 DEF Promise!PromiseNext
<1>12. ASSUME \/ \E new \in SUBSET TierTable : SetTiers(new)
              \/ UNCHANGED vars
       PROVE  UNCHANGED <<Stages, Owners, Worths, Purses>>
  BY <1>12, <1>1, <1>2 DEF SetTiers, vars
<1> QED
  BY <1>3, <1>4, <1>5, <1>6, <1>7, <1>8, <1>9, <1>10, <1>11, <1>12 DEF Next

\* An account's top-ups are what it was promised: the money of each comes once
\* and whole, with its bonus, into the purse of the one it was asked for, and is
\* taken back at most once, whole, from that purse, which is never overdrawn;
\* an order that was cancelled or expired never moved money.
THEOREM TopUpsArePromised == Spec => Promise!PromiseSpec
<1>1. Init => Promise!PromiseInit
  <2> SUFFICES ASSUME Init PROVE Promise!PromiseInit
    OBVIOUS
  <2>1. \A p \in PaymentIds :
          Stage(pay[p]) = "none" /\ pay[p].user = NoUser /\ Worth(pay[p]) = 0
    <3>1. ASSUME NEW p \in PaymentIds
          PROVE  pay[p].status = "NONE" /\ pay[p].user = NoUser /\ ~pay[p].performed
      BY DEF Init, NoPayment
    <3> QED
      BY <3>1 DEF Stage, Worth, Open
  <2>2. \A u \in Users : wallet[u].balance = 0
    BY DEF Init, EmptyWallet
  <2> QED
    BY <2>1, <2>2 DEF Promise!PromiseInit, Stages, Owners, Worths, Purses
<1> QED
  BY <1>1, NextIsPromised, Invariant, PTL DEF Spec, Promise!PromiseSpec

-----------------------------------------------------------------------------
(* What a step may do to one payment. *)

\* The steps of the service, for callers that order payments of the providers
\* in Ordered and reverse payments of those in Reversible.
ServiceStep(Ordered, Reversible) ==
    \/ \E p \in PaymentIds, u \in Users, prov \in Ordered, a \in Amounts,
          key \in ClientIds \union {NoKey} : CreateOrder(p, u, prov, a, key)
    \/ \E p \in PaymentIds, txn \in Txns :
         MarkPrepared(pay[p].provider, pay[p], txn)
    \/ \E p \in PaymentIds, txn \in Txns :
         MarkPaid(pay[p].provider, pay[p], txn)
    \/ \E p \in PaymentIds, u \in Users, a \in Amounts, txn \in Txns :
         RecordPushPayment(p, "PAYNET", u, a, txn)
    \/ \E p \in PaymentIds : Cancel(pay[p].provider, pay[p])
    \/ \E p \in PaymentIds :
         pay[p].provider \in Reversible /\ Reverse(pay[p].provider, pay[p])
    \/ ExpireStalePayments
    \/ \E p \in PaymentIds : GrowIdle(p)
    \/ \E u \in Users, a \in Prices : Spend(u, a)
    \/ \E new \in SUBSET TierTable : SetTiers(new)
    \/ UNCHANGED vars

\* Row r and events e become row n and events f: nothing but `idle`, or one of
\* the transitions of the state machine.
Same(r, n) ==
    /\ n.provider = r.provider /\ n.user = r.user /\ n.amount = r.amount
    /\ n.performed = r.performed /\ n.bonus = r.bonus

Transition(Ordered, Reversible, r, n, e, f) ==
    \/ n.status = r.status /\ Same(r, n) /\ n.txn = r.txn /\ f = e
    \/ /\ r.status = "NONE" /\ n.status = "CREATED" /\ n.provider \in Ordered
       /\ n.performed = FALSE /\ f = e
    \/ r.status \in Open /\ n.status = "PREPARED" /\ Same(r, n) /\ f = e
    \/ /\ r.status = "PREPARED" /\ n.status = "PAID" /\ n.performed = TRUE
       /\ n.provider = r.provider /\ n.user = r.user /\ n.amount = r.amount
       /\ f = Append(e, "paid")
    \/ /\ r.status = "NONE" /\ n.status = "PAID" /\ n.performed = TRUE
       /\ n.provider = "PAYNET" /\ f = Append(e, "paid")
    \/ /\ r.status \in Open /\ n.status = "CANCELLED" /\ Same(r, n)
       /\ f \in {e, Append(e, "cancelled")}
    \/ /\ r.status = "PAID" /\ n.status = "CANCELLED" /\ Same(r, n)
       /\ n.txn = r.txn /\ r.provider \in Reversible /\ f = Append(e, "reversed")

\* A step that writes one row moves no other.
LEMMA OneRowMoves ==
    ASSUME TypeOK, NEW Ordered, NEW Reversible, NEW p \in PaymentIds,
           NEW n, pay' = [pay EXCEPT ![p] = n],
           NEW es, events' = [events EXCEPT ![p] = es],
           Transition(Ordered, Reversible, pay[p], n, events[p], es)
    PROVE  \A q \in PaymentIds :
             Transition(Ordered, Reversible, pay[q], pay'[q], events[q], events'[q])
<1> SUFFICES ASSUME NEW q \in PaymentIds
             PROVE  Transition(Ordered, Reversible, pay[q], pay'[q],
                               events[q], events'[q])
  OBVIOUS
<1>1. CASE q = p
  <2>1. pay'[q] = n /\ events'[q] = es
    BY <1>1 DEF TypeOK
  <2> QED
    BY <1>1, <2>1
<1>2. CASE q # p
  <2>1. pay'[q] = pay[q] /\ events'[q] = events[q]
    BY <1>2 DEF TypeOK
  <2> QED
    BY <2>1 DEF Transition, Same
<1> QED
  BY <1>1, <1>2

\* Every step takes every payment along its state machine.
LEMMA Transitions ==
    ASSUME Inv, NEW Ordered, NEW Reversible,
           ServiceStep(Ordered, Reversible)
    PROVE  \A q \in PaymentIds :
             Transition(Ordered, Reversible, pay[q], pay'[q], events[q], events'[q])
<1> DEFINE T(r, n, e, f) == Transition(Ordered, Reversible, r, n, e, f)
           Goal == \A q \in PaymentIds : T(pay[q], pay'[q], events[q], events'[q])
<1>0. TypeOK /\ \A p \in PaymentIds : pay[p] \in PaymentType /\ pay[p].id = p
  BY DEF Inv, TypeOK
<1>1. ASSUME NEW p \in PaymentIds, NEW u \in Users, NEW prov \in Ordered,
             NEW a \in Amounts, NEW key \in ClientIds \union {NoKey},
             CreateOrder(p, u, prov, a, key)
      PROVE  Goal
  <2> DEFINE n == [NoPayment(p) EXCEPT !.status = "CREATED", !.user = u,
                      !.provider = prov, !.amount = a, !.key = key]
  <2>1. pay' = [pay EXCEPT ![p] = n] /\ events' = events /\ pay[p].status = "NONE"
    BY <1>1 DEF CreateOrder
  <2>2. n.status = "CREATED" /\ n.provider = prov /\ n.performed = FALSE
    BY DEF NoPayment
  <2> HIDE DEF n
  <2>3. T(pay[p], n, events[p], events[p])
    BY <2>1, <2>2 DEF Transition
  <2>4. events' = [events EXCEPT ![p] = events[p]]
    BY <1>0, <2>1 DEF TypeOK
  <2> QED
    BY <1>0, <2>1, <2>3, <2>4, OneRowMoves
<1>2. ASSUME NEW p \in PaymentIds, NEW txn \in Txns,
             MarkPrepared(pay[p].provider, pay[p], txn)
      PROVE  Goal
  <2> DEFINE n == [pay[p] EXCEPT !.status = "PREPARED", !.txn = txn, !.idle = FALSE]
  <2>1. pay' = [pay EXCEPT ![p] = n] /\ events' = events /\ pay[p].status \in Open
    BY <1>0, <1>2 DEF MarkPrepared, CanPrepare
  <2>2. n.status = "PREPARED" /\ Same(pay[p], n)
    BY <1>0 DEF Same, PaymentType
  <2> HIDE DEF n
  <2>3. T(pay[p], n, events[p], events[p])
    BY <2>1, <2>2 DEF Transition
  <2>4. events' = [events EXCEPT ![p] = events[p]]
    BY <1>0, <2>1 DEF TypeOK
  <2> QED
    BY <1>0, <2>1, <2>3, <2>4, OneRowMoves
<1>3. ASSUME NEW p \in PaymentIds, NEW txn \in Txns,
             MarkPaid(pay[p].provider, pay[p], txn)
      PROVE  Goal
  <2>1. PICK bonus \in BonusFor(pay[p].amount) :
          /\ pay[p].status = "PREPARED"
          /\ pay' = [pay EXCEPT ![p].status = "PAID", ![p].bonus = bonus,
                                ![p].txn = txn, ![p].performed = TRUE,
                                ![p].idle = FALSE]
          /\ Publish(p, "paid")
    BY <1>0, <1>3 DEF MarkPaid, CanPay
  <2> DEFINE n == [pay[p] EXCEPT !.status = "PAID", !.bonus = bonus, !.txn = txn,
                                 !.performed = TRUE, !.idle = FALSE]
             es == Append(events[p], "paid")
  <2>2. pay' = [pay EXCEPT ![p] = n] /\ events' = [events EXCEPT ![p] = es]
    BY <2>1 DEF Publish
  <2>3. /\ n.status = "PAID" /\ n.performed = TRUE /\ n.provider = pay[p].provider
        /\ n.user = pay[p].user /\ n.amount = pay[p].amount
    BY <1>0 DEF PaymentType
  <2> HIDE DEF n
  <2>4. T(pay[p], n, events[p], es)
    BY <2>1, <2>3 DEF Transition
  <2> QED
    BY <1>0, <2>2, <2>4, OneRowMoves
<1>4. ASSUME NEW p \in PaymentIds, NEW u \in Users, NEW a \in Amounts,
             NEW txn \in Txns, RecordPushPayment(p, "PAYNET", u, a, txn)
      PROVE  Goal
  <2>1. PICK bonus \in BonusFor(a) :
          /\ pay[p].status = "NONE"
          /\ pay' = [pay EXCEPT ![p] =
                       [NoPayment(p) EXCEPT !.status = "PAID", !.user = u,
                           !.provider = "PAYNET", !.amount = a, !.bonus = bonus,
                           !.txn = txn, !.performed = TRUE]]
          /\ Publish(p, "paid")
    BY <1>4 DEF RecordPushPayment
  <2> DEFINE n == [NoPayment(p) EXCEPT !.status = "PAID", !.user = u,
                      !.provider = "PAYNET", !.amount = a, !.bonus = bonus,
                      !.txn = txn, !.performed = TRUE]
             es == Append(events[p], "paid")
  <2>2. pay' = [pay EXCEPT ![p] = n] /\ events' = [events EXCEPT ![p] = es]
    BY <2>1 DEF Publish
  <2>3. n.status = "PAID" /\ n.performed = TRUE /\ n.provider = "PAYNET"
    BY DEF NoPayment
  <2> HIDE DEF n
  <2>4. T(pay[p], n, events[p], es)
    BY <2>1, <2>3 DEF Transition
  <2> QED
    BY <1>0, <2>2, <2>4, OneRowMoves
<1>5. ASSUME NEW p \in PaymentIds, Cancel(pay[p].provider, pay[p]) PROVE Goal
  <2> DEFINE n == [pay[p] EXCEPT !.status = "CANCELLED", !.idle = FALSE]
             es == Append(events[p], "cancelled")
  <2>1. /\ pay' = [pay EXCEPT ![p] = n] /\ events' = [events EXCEPT ![p] = es]
        /\ pay[p].status \in Open
    BY <1>0, <1>5 DEF Cancel, CanCancel, Publish
  <2>2. n.status = "CANCELLED" /\ Same(pay[p], n)
    BY <1>0 DEF Same, PaymentType
  <2> HIDE DEF n
  <2>3. T(pay[p], n, events[p], es)
    BY <2>1, <2>2 DEF Transition
  <2> QED
    BY <1>0, <2>1, <2>3, OneRowMoves
<1>6. ASSUME NEW p \in PaymentIds, pay[p].provider \in Reversible,
             Reverse(pay[p].provider, pay[p])
      PROVE  Goal
  <2> DEFINE n == [pay[p] EXCEPT !.status = "CANCELLED", !.idle = FALSE]
             es == Append(events[p], "reversed")
  <2>1. /\ pay' = [pay EXCEPT ![p] = n] /\ events' = [events EXCEPT ![p] = es]
        /\ pay[p].status = "PAID"
    BY <1>0, <1>6 DEF Reverse, CanReverse, Publish
  <2>2. n.status = "CANCELLED" /\ Same(pay[p], n) /\ n.txn = pay[p].txn
    BY <1>0 DEF Same, PaymentType
  <2> HIDE DEF n
  <2>3. T(pay[p], n, events[p], es)
    BY <1>6, <2>1, <2>2 DEF Transition
  <2> QED
    BY <1>0, <2>1, <2>3, OneRowMoves
<1>7. CASE ExpireStalePayments
  <2>1. /\ pay' = [p \in PaymentIds |->
                     IF p \in Expired
                     THEN [pay[p] EXCEPT !.status = "CANCELLED", !.idle = FALSE]
                     ELSE pay[p]]
        /\ events' = events
    BY <1>7 DEF ExpireStalePayments
  <2>2. ASSUME NEW q \in PaymentIds
        PROVE  T(pay[q], pay'[q], events[q], events'[q])
    <3>1. CASE q \in Expired
      <4>1. pay'[q] = [pay[q] EXCEPT !.status = "CANCELLED", !.idle = FALSE]
        BY <2>1, <3>1
      <4>2. pay[q].status \in Open
        BY <3>1 DEF Expired
      <4>3. pay'[q].status = "CANCELLED" /\ Same(pay[q], pay'[q])
        BY <1>0, <4>1 DEF Same, PaymentType
      <4> QED
        BY <2>1, <4>2, <4>3 DEF Transition
    <3>2. CASE q \notin Expired
      BY <2>1, <3>2 DEF Transition, Same
    <3> QED
      BY <3>1, <3>2
  <2> QED
    BY <2>2
<1>8. ASSUME NEW p \in PaymentIds, GrowIdle(p) PROVE Goal
  <2> DEFINE n == [pay[p] EXCEPT !.idle = TRUE]
  <2>1. pay' = [pay EXCEPT ![p] = n] /\ events' = events
    BY <1>8 DEF GrowIdle
  <2>2. n.status = pay[p].status /\ Same(pay[p], n) /\ n.txn = pay[p].txn
    BY <1>0 DEF Same, PaymentType
  <2> HIDE DEF n
  <2>3. T(pay[p], n, events[p], events[p])
    BY <2>2 DEF Transition
  <2>4. events' = [events EXCEPT ![p] = events[p]]
    BY <1>0, <2>1 DEF TypeOK
  <2> QED
    BY <1>0, <2>1, <2>3, <2>4, OneRowMoves
<1>9. ASSUME UNCHANGED <<pay, events>> PROVE Goal
  BY <1>9 DEF Transition, Same
<1>10. ASSUME NEW u \in Users, NEW a \in Prices, Spend(u, a) PROVE Goal
  BY <1>9, <1>10 DEF Spend
<1>11. ASSUME NEW new \in SUBSET TierTable, SetTiers(new) PROVE Goal
  BY <1>9, <1>11 DEF SetTiers
<1>12. CASE UNCHANGED vars
  BY <1>9, <1>12 DEF vars
<1> QED
  BY <1>1, <1>2, <1>3, <1>4, <1>5, <1>6, <1>7, <1>8, <1>10, <1>11, <1>12
     DEF ServiceStep

\* Whatever providers its callers serve, they take steps of the service.
LEMMA ServiceStepIsNext ==
    ASSUME NEW Ordered \in SUBSET Providers, NEW Reversible,
           ServiceStep(Ordered, Reversible)
    PROVE  [Next]_vars
BY DEF ServiceStep, Next

LEMMA NextIsServiceStep ==
    ASSUME Inv, [Next]_vars
    PROVE  ServiceStep(Providers, Providers)
<1>1. ASSUME NEW p \in PaymentIds, Reverse(pay[p].provider, pay[p])
      PROVE  pay[p].provider \in Providers
  <2>1. pay[p].status = "PAID"
    BY <1>1 DEF Reverse, CanReverse, Inv, TypeOK
  <2> QED
    BY <2>1 DEF Inv, Owned
<1> QED
  BY <1>1 DEF ServiceStep, Next

\* The second event of a payment comes after the first.
LEMMA AppendToOne ==
    ASSUME NEW a, NEW b
    PROVE  Append(<<a>>, b) = <<a, b>>
<1> DEFINE s == Append(<<a>>, b)
           t == <<a, b>>
<1>1. s \in Seq({a, b}) /\ Len(s) = 2 /\ s[1] = a /\ s[2] = b
  OBVIOUS
<1>2. t \in Seq({a, b}) /\ Len(t) = 2 /\ t[1] = a /\ t[2] = b
  OBVIOUS
<1> HIDE DEF s, t
<1>3. \A i \in 1..Len(s) : s[i] = t[i]
  BY <1>1, <1>2
<1>4. s = t
  BY <1>1, <1>2, <1>3, SeqEqual
<1> QED
  BY <1>4 DEF s, t

\* The events of a payment follow it along its state machine.
LEMMA EventsKept ==
    ASSUME Inv, EventsFollowStatus, NEW Ordered, NEW Reversible,
           ServiceStep(Ordered, Reversible)
    PROVE  EventsFollowStatus'
<1> SUFFICES ASSUME NEW p \in PaymentIds PROVE events'[p] \in EventsOf(p)'
  BY DEF EventsFollowStatus
<1> DEFINE r == pay[p]
           n == pay'[p]
           e == events[p]
           f == events'[p]
<1>1. Transition(Ordered, Reversible, r, n, e, f)
  BY Transitions
<1>2. /\ r.status \in Statuses /\ r.performed \in BOOLEAN
      /\ r.performed => r.status \in {"PAID", "CANCELLED"}
      /\ r.status = "PAID" => r.performed
  BY DEF Inv, TypeOK, PaymentType, PaymentsBooked, Booked
<1>3. /\ r.status = "PAID" => e = <<"paid">>
      /\ r.status = "CANCELLED" /\ r.performed => e = <<"paid", "reversed">>
      /\ r.status = "CANCELLED" /\ ~r.performed => e \in {<< >>, <<"cancelled">>}
      /\ r.status \in {"NONE", "CREATED", "PREPARED"} => e = << >>
  BY DEF EventsFollowStatus, EventsOf
<1>4. /\ Append(<< >>, "paid") = <<"paid">>
      /\ Append(<< >>, "cancelled") = <<"cancelled">>
      /\ Append(<<"paid">>, "reversed") = <<"paid", "reversed">>
  <2>1. Append(<< >>, "paid") = <<"paid">>
    OBVIOUS
  <2>2. Append(<< >>, "cancelled") = <<"cancelled">>
    OBVIOUS
  <2> QED
    BY <2>1, <2>2, AppendToOne
<1> HIDE DEF r, n, e, f
<1>5. /\ n.status = "PAID" => f = <<"paid">>
      /\ n.status = "CANCELLED" /\ n.performed => f = <<"paid", "reversed">>
      /\ n.status = "CANCELLED" /\ ~n.performed => f \in {<< >>, <<"cancelled">>}
      /\ n.status \notin {"PAID", "CANCELLED"} => f = << >>
  BY <1>1, <1>2, <1>3, <1>4 DEF Transition, Same, Open, Statuses
<1>6. CASE n.status = "PAID"
  BY <1>5, <1>6 DEF n, f, EventsOf
<1>7. CASE n.status = "CANCELLED" /\ n.performed
  BY <1>5, <1>7 DEF n, f, EventsOf
<1>8. CASE n.status = "CANCELLED" /\ ~n.performed
  BY <1>5, <1>8 DEF n, f, EventsOf
<1>9. CASE n.status \notin {"PAID", "CANCELLED"}
  BY <1>5, <1>9 DEF n, f, EventsOf
<1> QED
  BY <1>6, <1>7, <1>8, <1>9

\* However the steps of the service interleave, nobody is told that a payment
\* was paid twice, paid and then cancelled, or reversed before it was paid, and
\* every paid payment is announced, once.
THEOREM EventsAreTrue == Spec => []EventsFollowStatus
<1>1. Init => EventsFollowStatus
  BY DEF Init, EventsFollowStatus, EventsOf, NoPayment
<1>2. Inv /\ EventsFollowStatus /\ [Next]_vars => EventsFollowStatus'
  BY NextIsServiceStep, EventsKept
<1> QED
  BY <1>1, <1>2, Invariant, PTL DEF Spec

-----------------------------------------------------------------------------
(* The webhooks: what their handlers hold and say. *)

\* What the webhooks and the app ask of the service: the app orders Click and
\* Payme payments, Paynet pushes its own, and Click never takes one back.
Called == ServiceStep({"CLICK", "PAYME"}, {"PAYME", "PAYNET"})

\* What each provider's payments are like because of that.
Unborn     == \A p \in PaymentIds : pay[p].status = "NONE" => pay[p].provider = NoTxn
PaynetPaid == \A p \in PaymentIds : pay[p].provider = "PAYNET" => pay[p].performed
ClickStays ==
    \A p \in PaymentIds :
      pay[p].provider = "CLICK" /\ pay[p].performed => pay[p].status = "PAID"
Rules == Unborn /\ PaynetPaid /\ ClickStays

\* What is still true of a row that was copied into s: whose it is and for how
\* much; and once it was paid, its bonus and its transaction.
CopyOf(s, row) ==
    /\ s \in PaymentType
    /\ row.status # "NONE"
    /\ s.provider = row.provider /\ s.user = row.user /\ s.amount = row.amount
    /\ s.status = "PAID" => s.performed
    /\ s.performed => row.performed /\ s.bonus = row.bonus /\ s.txn = row.txn

\* A handler of request r that is at pc holds such a copy; one that takes money
\* back holds the copy of a payment of its transaction that was paid.
Held(r, pc, s, rows) ==
    /\ pc = "timeout" => r.op \in {"payme.create", "payme.perform"}
    /\ pc \in {"act", "timeout", "reread"} /\ r.op # "paynet.perform" =>
         /\ CopyOf(s, rows[s.id])
         /\ r.op = "payme.cancel" =>
              /\ s.provider = "PAYME" /\ s.txn = r.txn
              /\ pc = "reread" => s.performed
         /\ r.op = "paynet.cancel" =>
              s.provider = "PAYNET" /\ s.txn = r.txn /\ s.performed

\* Some payment of this transaction was paid; it was given back.
Paid(rows, prov, txn) ==
    \E p \in PaymentIds :
      rows[p].provider = prov /\ rows[p].txn = txn /\ rows[p].performed
GivenBack(rows, prov, txn) ==
    \E p \in PaymentIds :
      /\ rows[p].provider = prov /\ rows[p].txn = txn
      /\ rows[p].performed /\ rows[p].status = "CANCELLED"

\* Answer ans to request r says the truth about the money.
Told(r, ans, rows) ==
    /\ ans = "OK" /\ r.op = "click.complete" =>
         Paid(rows, "CLICK", r.txn) /\ ~GivenBack(rows, "CLICK", r.txn)
    /\ ans = "OK" /\ r.op = "paynet.perform" => Paid(rows, "PAYNET", r.txn)
    /\ ans = "REVERSED" =>
         GivenBack(rows, IF r.op = "paynet.cancel" THEN "PAYNET" ELSE "PAYME", r.txn)
    /\ ans = "CANNOT_CANCEL" =>
         Paid(rows, IF r.op = "paynet.cancel" THEN "PAYNET" ELSE "PAYME", r.txn)

Sound(rec, rows) ==
    rec.pc # "idle" =>
      /\ rec.req \in Requests
      /\ Held(rec.req, rec.pc, rec.snap, rows)
      /\ rec.pc = "done" => Told(rec.req, rec.ans, rows)

CallInv ==
    /\ Inv /\ EventsFollowStatus /\ Rules
    /\ call \in [Calls -> CallType]
    /\ \A c \in Calls : Sound(call[c], pay)

-----------------------------------------------------------------------------
(* None of it is undone by what others do meanwhile. *)

\* What the invariant of the service says of one row.
LEMMA RowFacts ==
    ASSUME Inv, NEW p \in PaymentIds
    PROVE  /\ pay[p] \in PaymentType /\ pay[p].id = p
           /\ pay[p].status \in Statuses /\ pay[p].performed \in BOOLEAN
           /\ pay[p].performed => pay[p].status \in {"PAID", "CANCELLED"}
           /\ pay[p].status = "PAID" => pay[p].performed
BY DEF Inv, TypeOK, PaymentType, PaymentsBooked, Booked

LEMMA RulesKept ==
    ASSUME Inv, Rules, Called
    PROVE  Rules'
<1> SUFFICES ASSUME NEW p \in PaymentIds
             PROVE  /\ pay'[p].status = "NONE" => pay'[p].provider = NoTxn
                    /\ pay'[p].provider = "PAYNET" => pay'[p].performed
                    /\ pay'[p].provider = "CLICK" /\ pay'[p].performed =>
                         pay'[p].status = "PAID"
  BY DEF Rules, Unborn, PaynetPaid, ClickStays
<1> DEFINE r == pay[p]
           n == pay'[p]
<1>1. Transition({"CLICK", "PAYME"}, {"PAYME", "PAYNET"}, r, n, events[p], events'[p])
  BY Transitions DEF Called
<1>2. /\ r.status = "NONE" => r.provider = NoTxn
      /\ r.provider = "PAYNET" => r.performed
      /\ r.provider = "CLICK" /\ r.performed => r.status = "PAID"
  BY DEF Rules, Unborn, PaynetPaid, ClickStays
<1>3. r.performed => r.status \in {"PAID", "CANCELLED"}
  BY RowFacts
<1> HIDE DEF r, n
<1>4. /\ n.status = "NONE" => n.provider = NoTxn
      /\ n.provider = "PAYNET" => n.performed
      /\ n.provider = "CLICK" /\ n.performed => n.status = "PAID"
  BY <1>1, <1>2, <1>3 DEF Transition, Same, Open
<1> QED
  BY <1>4 DEF r, n

\* A copy stays a copy, and money that was paid or given back stays so.
LEMMA RowKept ==
    ASSUME Inv, Called, NEW p \in PaymentIds
    PROVE  /\ \A s : CopyOf(s, pay[p]) => CopyOf(s, pay'[p])
           /\ pay[p].performed =>
                /\ pay'[p].performed
                /\ pay'[p].provider = pay[p].provider /\ pay'[p].txn = pay[p].txn
                /\ pay[p].status = "CANCELLED" => pay'[p].status = "CANCELLED"
<1> DEFINE r == pay[p]
           n == pay'[p]
<1>1. Transition({"CLICK", "PAYME"}, {"PAYME", "PAYNET"}, r, n, events[p], events'[p])
  BY Transitions DEF Called
<1>2. /\ r.performed => r.status \in {"PAID", "CANCELLED"}
      /\ r.status \in Statuses
  BY RowFacts
<1> HIDE DEF r, n
<1>3. /\ r.status # "NONE" =>
           /\ n.status # "NONE" /\ n.provider = r.provider
           /\ n.user = r.user /\ n.amount = r.amount
      /\ r.performed =>
           /\ n.performed /\ n.bonus = r.bonus /\ n.txn = r.txn
           /\ n.provider = r.provider
           /\ r.status = "CANCELLED" => n.status = "CANCELLED"
  BY <1>1, <1>2 DEF Transition, Same, Open, Statuses
<1>4. ASSUME NEW s, CopyOf(s, r) PROVE CopyOf(s, n)
  BY <1>3, <1>4 DEF CopyOf
<1> QED
  BY <1>3, <1>4 DEF r, n

LEMMA MoneyKept ==
    ASSUME Inv, Called, NEW prov, NEW txn
    PROVE  /\ Paid(pay, prov, txn) => Paid(pay', prov, txn)
           /\ GivenBack(pay, prov, txn) => GivenBack(pay', prov, txn)
<1>1. ASSUME Paid(pay, prov, txn) PROVE Paid(pay', prov, txn)
  <2>1. PICK p \in PaymentIds :
          pay[p].provider = prov /\ pay[p].txn = txn /\ pay[p].performed
    BY <1>1 DEF Paid
  <2>2. pay'[p].provider = prov /\ pay'[p].txn = txn /\ pay'[p].performed
    BY <2>1, RowKept
  <2> QED
    BY <2>2 DEF Paid
<1>2. ASSUME GivenBack(pay, prov, txn) PROVE GivenBack(pay', prov, txn)
  <2>1. PICK p \in PaymentIds :
          /\ pay[p].provider = prov /\ pay[p].txn = txn
          /\ pay[p].performed /\ pay[p].status = "CANCELLED"
    BY <1>2 DEF GivenBack
  <2>2. /\ pay'[p].provider = prov /\ pay'[p].txn = txn
        /\ pay'[p].performed /\ pay'[p].status = "CANCELLED"
    BY <2>1, RowKept
  <2> QED
    BY <2>2 DEF GivenBack
<1> QED
  BY <1>1, <1>2

LEMMA ClickNotGivenBack ==
    ASSUME Rules, NEW txn
    PROVE  ~GivenBack(pay, "CLICK", txn)
BY DEF Rules, ClickStays, GivenBack

\* So a handler left alone stays sound.
LEMMA SoundKept ==
    ASSUME Inv, Rules, Called, NEW rec \in CallType, Sound(rec, pay)
    PROVE  Sound(rec, pay')
<1> SUFFICES ASSUME rec.pc # "idle"
             PROVE  /\ Held(rec.req, rec.pc, rec.snap, pay')
                    /\ rec.pc = "done" => Told(rec.req, rec.ans, pay')
  BY DEF Sound
<1>1. Held(rec.req, rec.pc, rec.snap, pay')
  <2> SUFFICES ASSUME rec.pc \in {"act", "timeout", "reread"},
                      rec.req.op # "paynet.perform"
               PROVE  CopyOf(rec.snap, pay'[rec.snap.id])
    BY DEF Sound, Held
  <2>1. CopyOf(rec.snap, pay[rec.snap.id]) /\ rec.snap.id \in PaymentIds
    BY DEF Sound, Held, CopyOf, PaymentType
  <2> QED
    BY <2>1, RowKept
<1>2. rec.pc = "done" => Told(rec.req, rec.ans, pay')
  <2>1. ~GivenBack(pay', "CLICK", rec.req.txn)
    BY RulesKept DEF GivenBack, Rules, ClickStays
  <2>2. rec.pc = "done" => Told(rec.req, rec.ans, pay)
    BY DEF Sound
  <2> QED
    BY <2>1, <2>2, MoneyKept DEF Told
<1> QED
  BY <1>1, <1>2

\* A step of the service that takes delivery c to a sound record.
LEMMA CallMoves ==
    ASSUME CallInv, Called, NEW c \in Calls, NEW rec \in CallType,
           call' = [call EXCEPT ![c] = rec], Sound(rec, pay')
    PROVE  CallInv'
<1>1. Inv' /\ EventsFollowStatus' /\ Rules'
  <2>1. {"CLICK", "PAYME"} \in SUBSET Providers
    BY DEF Providers
  <2>2. [Next]_vars
    BY <2>1, ServiceStepIsNext DEF Called
  <2> QED
    BY <2>2, NextInv, EventsKept, RulesKept DEF CallInv, Called
<1>2. call' \in [Calls -> CallType]
  BY DEF CallInv
<1>3. ASSUME NEW d \in Calls PROVE Sound(call'[d], pay')
  <2>1. CASE d = c
    <3>1. call'[d] = rec
      BY <2>1 DEF CallInv
    <3> QED
      BY <3>1
  <2>2. CASE d # c
    <3>1. call'[d] = call[d] /\ call[d] \in CallType
      BY <2>2 DEF CallInv
    <3> QED
      BY <3>1, SoundKept DEF CallInv
  <2> QED
    BY <2>1, <2>2
<1> QED
  BY <1>1, <1>2, <1>3 DEF CallInv

\* One that takes no delivery anywhere.
LEMMA CallsStay ==
    ASSUME CallInv, Called, UNCHANGED call
    PROVE  CallInv'
<1>1. {"CLICK", "PAYME"} \in SUBSET Providers
  BY DEF Providers
<1>2. [Next]_vars
  BY <1>1, ServiceStepIsNext DEF Called
<1>3. Inv' /\ EventsFollowStatus' /\ Rules'
  BY <1>2, NextInv, EventsKept, RulesKept DEF CallInv, Called
<1>4. ASSUME NEW c \in Calls PROVE Sound(call'[c], pay')
  BY SoundKept DEF CallInv
<1> QED
  BY <1>3, <1>4 DEF CallInv

-----------------------------------------------------------------------------
(* The steps of a handler, whatever it answers. *)

LEMMA RequestType ==
    ASSUME NEW r \in Requests
    PROVE  /\ r.txn \in Txns
           /\ r.op \in {"payme.create", "click.prepare", "click.complete"} =>
                r.pid \in PaymentIds
           /\ r.op = "paynet.perform" => r.user \in Users /\ r.amount \in Amounts
BY DEF Requests

LEMMA ReadsAreSteps == UNCHANGED vars => Called
BY DEF Called, ServiceStep

\* Most answers say nothing about money.
LEMMA PlainAnswer ==
    ASSUME NEW r, NEW ans, NEW rows, ans \notin {"OK", "REVERSED", "CANNOT_CANCEL"}
    PROVE  Told(r, ans, rows)
BY DEF Told

LEMMA AtOnceSound ==
    ASSUME CallInv, UNCHANGED vars, NEW c \in Calls, NEW r \in Requests,
           NEW ans \in Answers, Told(r, ans, pay), AtOnce(c, r, ans)
    PROVE  CallInv'
<1> DEFINE rec == [pc |-> "done", req |-> r, snap |-> NoCall, ans |-> ans]
<1>1. rec \in CallType
  BY DEF CallType, Steps
<1>2. Sound(rec, pay') /\ Called
  BY ReadsAreSteps DEF vars, Sound, Held
<1>3. call' = [call EXCEPT ![c] = rec]
  BY DEF AtOnce
<1> HIDE DEF rec
<1> QED
  BY <1>1, <1>2, <1>3, CallMoves

LEMMA HoldSound ==
    ASSUME CallInv, UNCHANGED vars, NEW c \in Calls, NEW r \in Requests,
           NEW pc \in Steps \ {"idle", "done"}, NEW snap \in PaymentType \union {NoCall},
           Held(r, pc, snap, pay), Hold(c, r, pc, snap)
    PROVE  CallInv'
<1> DEFINE rec == [pc |-> pc, req |-> r, snap |-> snap, ans |-> "none"]
<1>1. rec \in CallType
  BY DEF CallType, Steps, Answers
<1>2. Sound(rec, pay') /\ Called
  BY ReadsAreSteps DEF vars, Sound
<1>3. call' = [call EXCEPT ![c] = rec]
  BY DEF Hold
<1> HIDE DEF rec
<1> QED
  BY <1>1, <1>2, <1>3, CallMoves

LEMMA AnswerSound ==
    ASSUME CallInv, Called, NEW c \in Calls, call[c].pc # "idle",
           NEW ans \in Answers, Told(Req(c), ans, pay'), Answer(c, ans)
    PROVE  CallInv'
<1> DEFINE rec == [call[c] EXCEPT !.pc = "done", !.snap = NoCall, !.ans = ans]
<1>1. call[c] \in CallType /\ call[c].req \in Requests
  BY DEF CallInv, Sound
<1>2. rec \in CallType /\ rec.pc = "done" /\ rec.req = Req(c) /\ rec.ans = ans
  BY <1>1 DEF CallType, Steps, Req
<1>3. call' = [call EXCEPT ![c] = rec]
  BY DEF Answer
<1> HIDE DEF rec
<1>4. Sound(rec, pay')
  BY <1>1, <1>2 DEF Sound, Held, Req
<1> QED
  BY <1>2, <1>3, <1>4, CallMoves

LEMMA RereadSound ==
    ASSUME CallInv, Called, NEW c \in Calls, call[c].pc # "idle",
           Held(Req(c), "reread", Snap(c), pay'), Goto(c, "reread")
    PROVE  CallInv'
<1> DEFINE rec == [call[c] EXCEPT !.pc = "reread"]
<1>1. call[c] \in CallType /\ call[c].req \in Requests
  BY DEF CallInv, Sound
<1>2. rec \in CallType /\ rec.pc = "reread" /\ rec.req = Req(c) /\ rec.snap = Snap(c)
  BY <1>1 DEF CallType, Steps, Req, Snap
<1>3. call' = [call EXCEPT ![c] = rec]
  BY DEF Goto
<1> HIDE DEF rec
<1>4. Sound(rec, pay')
  BY <1>1, <1>2 DEF Sound, Held, Req
<1> QED
  BY <1>2, <1>3, <1>4, CallMoves

\* What a handler knows once it holds a copy.
LEMMA HeldRow ==
    ASSUME CallInv, NEW c \in Calls, call[c].pc \in {"act", "timeout", "reread"},
           call[c].req.op # "paynet.perform"
    PROVE  /\ Req(c) \in Requests
           /\ Snap(c) \in PaymentType /\ Snap(c).id \in PaymentIds
           /\ CopyOf(Snap(c), pay[Snap(c).id])
           /\ pay[Snap(c).id].id = Snap(c).id
<1>1. Sound(call[c], pay)
  BY DEF CallInv
<1>2. Req(c) \in Requests /\ CopyOf(Snap(c), pay[Snap(c).id])
  BY <1>1 DEF Sound, Held, Req, Snap
<1>3. Snap(c) \in PaymentType /\ Snap(c).id \in PaymentIds
  BY <1>2 DEF CopyOf, PaymentType
<1> QED
  BY <1>2, <1>3, RowFacts DEF CallInv

\* A row somebody finds exists, and what is copied of it is a copy.
LEMMA Copied ==
    ASSUME CallInv, NEW p \in PaymentIds, pay[p].provider \in Providers
    PROVE  CopyOf(pay[p], pay[pay[p].id])
<1>1. pay[p].status # "NONE"
  BY PaymentsAssumption DEF CallInv, Rules, Unborn, Providers
<1>2. pay[p] \in PaymentType /\ pay[p].id = p /\ (pay[p].status = "PAID" => pay[p].performed)
  BY RowFacts DEF CallInv
<1> QED
  BY <1>1, <1>2 DEF CopyOf

-----------------------------------------------------------------------------
(* A transition that goes through on a copy goes through on the row. *)

LEMMA PreparedOnTheRow ==
    ASSUME NEW s, s.id \in PaymentIds, CopyOf(s, pay[s.id]), pay[s.id].id = s.id,
           NEW prov, NEW txn \in Txns, MarkPrepared(prov, s, txn)
    PROVE  Called
<1> DEFINE p == s.id
<1>1. MarkPrepared(pay[p].provider, pay[p], txn)
  BY DEF MarkPrepared, CanPrepare, CopyOf
<1> QED
  BY <1>1 DEF Called, ServiceStep

LEMMA PaidOnTheRow ==
    ASSUME NEW s, s.id \in PaymentIds, CopyOf(s, pay[s.id]), pay[s.id].id = s.id,
           NEW prov, NEW txn \in Txns, MarkPaid(prov, s, txn)
    PROVE  Called
<1> DEFINE p == s.id
<1>1. MarkPaid(pay[p].provider, pay[p], txn)
  BY DEF MarkPaid, CanPay, CopyOf
<1> QED
  BY <1>1 DEF Called, ServiceStep

LEMMA CancelledOnTheRow ==
    ASSUME NEW s, s.id \in PaymentIds, CopyOf(s, pay[s.id]), pay[s.id].id = s.id,
           NEW prov, Cancel(prov, s)
    PROVE  Called
<1> DEFINE p == s.id
<1>1. Cancel(pay[p].provider, pay[p])
  BY DEF Cancel, CanCancel, CopyOf
<1> QED
  BY <1>1 DEF Called, ServiceStep

\* Only the copy of a payment that was paid when it was read has the bonus that
\* the reversal must take back.
LEMMA ReversedOnTheRow ==
    ASSUME NEW s, s.id \in PaymentIds, CopyOf(s, pay[s.id]), pay[s.id].id = s.id,
           s.performed, NEW prov \in {"PAYME", "PAYNET"}, Reverse(prov, s)
    PROVE  Called
<1> DEFINE p == s.id
<1>1. Total(s) = Total(pay[p]) /\ s.user = pay[p].user
  BY DEF CopyOf, Total
<1>2. Reverse(pay[p].provider, pay[p]) /\ pay[p].provider = prov
  BY <1>1 DEF Reverse, CanReverse
<1> QED
  BY <1>2 DEF Called, ServiceStep

-----------------------------------------------------------------------------
(* One delivery: its first read. *)

LEMMA FoundOne ==
    ASSUME NEW prov, NEW txn, NEW p \in Find(prov, txn)
    PROVE  p \in PaymentIds /\ pay[p].provider = prov /\ pay[p].txn = txn
BY DEF Find

LEMMA PaymeCreateFindSound ==
    ASSUME CallInv, NEW c \in Calls, NEW r \in Requests, PaymeCreateFind(c, r)
    PROVE  Called /\ CallInv'
<1>0. r.op = "payme.create" /\ UNCHANGED vars
  BY DEF PaymeCreateFind, Arrives, ReadOnly
<1>1. ASSUME Hold(c, r, "order", NoCall) PROVE CallInv'
  BY <1>0, <1>1, HoldSound DEF Held, Steps
<1>2. ASSUME NEW p \in Find("PAYME", r.txn), Hold(c, r, "timeout", pay[p])
      PROVE  CallInv'
  <2>1. p \in PaymentIds /\ pay[p].provider \in Providers
    BY FoundOne DEF Providers
  <2>2. pay[p] \in PaymentType /\ CopyOf(pay[p], pay[pay[p].id])
    BY <2>1, Copied, RowFacts DEF CallInv
  <2> QED
    BY <1>0, <1>2, <2>2, HoldSound DEF Held, Steps
<1>3. ASSUME NEW ans \in {"CANNOT_PERFORM", "CREATED"}, AtOnce(c, r, ans)
      PROVE  CallInv'
  BY <1>0, <1>3, AtOnceSound, PlainAnswer DEF Answers
<1> QED
  BY <1>0, <1>1, <1>2, <1>3, ReadsAreSteps DEF PaymeCreateFind

LEMMA PaymePerformFindSound ==
    ASSUME CallInv, NEW c \in Calls, NEW r \in Requests, PaymePerformFind(c, r)
    PROVE  Called /\ CallInv'
<1>0. r.op = "payme.perform" /\ UNCHANGED vars
  BY DEF PaymePerformFind, Arrives, ReadOnly
<1>1. ASSUME NEW p \in Find("PAYME", r.txn), NEW pc \in {"act", "timeout"},
             Hold(c, r, pc, pay[p])
      PROVE  CallInv'
  <2>1. p \in PaymentIds /\ pay[p].provider \in Providers
    BY FoundOne DEF Providers
  <2>2. pay[p] \in PaymentType /\ CopyOf(pay[p], pay[pay[p].id])
    BY <2>1, Copied, RowFacts DEF CallInv
  <2> QED
    BY <1>0, <1>1, <2>2, HoldSound DEF Held, Steps
<1>2. ASSUME NEW ans \in {"NOT_FOUND", "PERFORMED", "CANNOT_PERFORM"},
             AtOnce(c, r, ans)
      PROVE  CallInv'
  BY <1>0, <1>2, AtOnceSound, PlainAnswer DEF Answers
<1> QED
  BY <1>0, <1>1, <1>2, ReadsAreSteps DEF PaymePerformFind

\* A cancelled row that was performed was paid under this very transaction.
LEMMA StateOfTold ==
    ASSUME CallInv, NEW p \in PaymentIds, NEW r, r.op \in {"payme.cancel", "paynet.cancel"},
           pay[p].provider = (IF r.op = "paynet.cancel" THEN "PAYNET" ELSE "PAYME"),
           pay[p].txn = r.txn
    PROVE  StateOf(pay[p]) \in Answers /\ Told(r, StateOf(pay[p]), pay)
<1> DEFINE ans == StateOf(pay[p])
<1>1. /\ pay[p].performed => pay[p].status \in {"PAID", "CANCELLED"}
      /\ ans \in {"PERFORMED", "CREATED", "REVERSED", "CANCELLED"}
      /\ ans = "REVERSED" => pay[p].performed /\ pay[p].status # "PAID"
  BY RowFacts DEF CallInv, StateOf
<1> HIDE DEF ans
<1>2. CASE ans = "REVERSED"
  <2>1. pay[p].performed /\ pay[p].status = "CANCELLED"
    BY <1>1, <1>2
  <2>2. GivenBack(pay, IF r.op = "paynet.cancel" THEN "PAYNET" ELSE "PAYME", r.txn)
    BY <2>1 DEF GivenBack
  <2>3. Told(r, ans, pay)
    BY <1>2, <2>2 DEF Told
  <2> QED
    BY <1>1, <2>3 DEF ans, Answers
<1>3. CASE ans # "REVERSED"
  <2>1. ans \in Answers /\ Told(r, ans, pay)
    BY <1>1, <1>3, PlainAnswer DEF Answers
  <2> QED
    BY <2>1 DEF ans
<1> QED
  BY <1>2, <1>3

LEMMA PaymeCancelFindSound ==
    ASSUME CallInv, NEW c \in Calls, NEW r \in Requests, PaymeCancelFind(c, r)
    PROVE  Called /\ CallInv'
<1>0. r.op = "payme.cancel" /\ UNCHANGED vars
  BY DEF PaymeCancelFind, Arrives, ReadOnly
<1>1. ASSUME NEW p \in Find("PAYME", r.txn), Hold(c, r, "act", pay[p])
      PROVE  CallInv'
  <2>1. p \in PaymentIds /\ pay[p].provider = "PAYME" /\ pay[p].txn = r.txn
    BY FoundOne
  <2>2. pay[p] \in PaymentType /\ CopyOf(pay[p], pay[pay[p].id])
    BY <2>1, Copied, RowFacts DEF CallInv, Providers
  <2> QED
    BY <1>0, <1>1, <2>1, <2>2, HoldSound DEF Held, Steps
<1>2. ASSUME NEW p \in Find("PAYME", r.txn), AtOnce(c, r, StateOf(pay[p]))
      PROVE  CallInv'
  <2>1. p \in PaymentIds /\ pay[p].provider = "PAYME" /\ pay[p].txn = r.txn
    BY FoundOne
  <2> QED
    BY <1>0, <1>2, <2>1, AtOnceSound, StateOfTold
<1>3. ASSUME AtOnce(c, r, "NOT_FOUND") PROVE CallInv'
  BY <1>0, <1>3, AtOnceSound, PlainAnswer DEF Answers
<1> QED
  BY <1>0, <1>1, <1>2, <1>3, ReadsAreSteps DEF PaymeCancelFind

\* Click names our own row.
LEMMA ClickFindSound ==
    ASSUME CallInv, NEW c \in Calls, NEW r \in Requests,
           ClickPrepareFind(c, r) \/ ClickCompleteFind(c, r)
    PROVE  Called /\ CallInv'
<1>0. /\ r.op \in {"click.prepare", "click.complete"} /\ UNCHANGED vars
      /\ r.pid \in PaymentIds
  BY RequestType DEF ClickPrepareFind, ClickCompleteFind, Arrives, ReadOnly
<1>1. ASSUME pay[r.pid].provider = "CLICK", Hold(c, r, "act", pay[r.pid])
      PROVE  CallInv'
  <2>1. pay[r.pid] \in PaymentType /\ CopyOf(pay[r.pid], pay[pay[r.pid].id])
    BY <1>0, <1>1, Copied, RowFacts DEF CallInv, Providers
  <2> QED
    BY <1>0, <1>1, <2>1, HoldSound DEF Held, Steps
<1>2. ASSUME NEW ans \in {"NOT_FOUND", "ALREADY_PAID", "CANCELLED"}, AtOnce(c, r, ans)
      PROVE  CallInv'
  BY <1>0, <1>2, AtOnceSound, PlainAnswer DEF Answers
<1> QED
  BY <1>0, <1>1, <1>2, ReadsAreSteps DEF ClickPrepareFind, ClickCompleteFind

LEMMA PaynetPerformFindSound ==
    ASSUME CallInv, NEW c \in Calls, NEW r \in Requests, PaynetPerformFind(c, r)
    PROVE  Called /\ CallInv'
<1>0. r.op = "paynet.perform" /\ UNCHANGED vars
  BY DEF PaynetPerformFind, Arrives, ReadOnly
<1>1. ASSUME Hold(c, r, "act", NoCall) PROVE CallInv'
  BY <1>0, <1>1, HoldSound DEF Held, Steps
<1>2. ASSUME AtOnce(c, r, "EXISTS") PROVE CallInv'
  BY <1>0, <1>2, AtOnceSound, PlainAnswer DEF Answers
<1> QED
  BY <1>0, <1>1, <1>2, ReadsAreSteps DEF PaynetPerformFind

\* Every payment of Paynet was paid: one that is cancelled was given back.
LEMMA PaynetCancelFindSound ==
    ASSUME CallInv, NEW c \in Calls, NEW r \in Requests, PaynetCancelFind(c, r)
    PROVE  Called /\ CallInv'
<1>0. r.op = "paynet.cancel" /\ UNCHANGED vars
  BY DEF PaynetCancelFind, Arrives, ReadOnly
<1>1. ASSUME NEW p \in Find("PAYNET", r.txn)
      PROVE  /\ p \in PaymentIds /\ pay[p].provider = "PAYNET" /\ pay[p].txn = r.txn
             /\ pay[p].performed
  BY <1>1, FoundOne DEF CallInv, Rules, PaynetPaid
<1>2. ASSUME NEW p \in Find("PAYNET", r.txn), Hold(c, r, "act", pay[p])
      PROVE  CallInv'
  <2>1. pay[p] \in PaymentType /\ CopyOf(pay[p], pay[pay[p].id])
    BY <1>1, <1>2, Copied, RowFacts DEF CallInv, Providers
  <2> QED
    BY <1>0, <1>1, <1>2, <2>1, HoldSound DEF Held, Steps
<1>3. ASSUME NEW p \in Find("PAYNET", r.txn), pay[p].status = "CANCELLED",
             AtOnce(c, r, "REVERSED")
      PROVE  CallInv'
  <2>1. GivenBack(pay, "PAYNET", r.txn)
    BY <1>1, <1>3 DEF GivenBack
  <2>2. Told(r, "REVERSED", pay)
    BY <1>0, <2>1 DEF Told
  <2> QED
    BY <1>0, <1>3, <2>2, AtOnceSound DEF Answers
<1>4. ASSUME AtOnce(c, r, "NOT_FOUND") PROVE CallInv'
  BY <1>0, <1>4, AtOnceSound, PlainAnswer DEF Answers
<1> QED
  BY <1>0, <1>2, <1>3, <1>4, ReadsAreSteps DEF PaynetCancelFind

LEMMA DeliverySound ==
    ASSUME CallInv, NEW c \in Calls, NEW r \in Requests, Delivery(c, r)
    PROVE  Called /\ CallInv'
BY PaymeCreateFindSound, PaymePerformFindSound, PaymeCancelFindSound,
   ClickFindSound, PaynetPerformFindSound, PaynetCancelFindSound DEF Delivery

-----------------------------------------------------------------------------
(* One delivery: its later steps. *)

LEMMA PrepareSound ==
    ASSUME CallInv, NEW c \in Calls, call[c].pc = "act",
           call[c].req.op # "paynet.perform", NEW prov,
           NEW granted \in {"CREATED", "OK"}, NEW refused \in {"BUSY", "CANCELLED"},
           Req(c).op \notin {"click.complete"},
           Prepare(c, prov, granted, refused)
    PROVE  Called /\ CallInv'
<1>1. Req(c) \in Requests /\ Req(c).txn \in Txns
  BY HeldRow, RequestType
<1>2. CASE MarkPrepared(prov, Snap(c), Req(c).txn) /\ Answer(c, granted)
  <2>1. Called
    BY <1>1, <1>2, HeldRow, PreparedOnTheRow
  <2>2. Told(Req(c), granted, pay')
    BY DEF Told, Req
  <2> QED
    BY <1>2, <2>1, <2>2, AnswerSound DEF Answers
<1>3. ASSUME NEW ans \in {"SYSTEM", "BUSY", "CANCELLED"}, Answer(c, ans), UNCHANGED vars
      PROVE  Called /\ CallInv'
  BY <1>3, AnswerSound, PlainAnswer, ReadsAreSteps DEF Answers
<1> QED
  BY <1>2, <1>3 DEF Prepare, ReadOnly

LEMMA CancelAndAnswerSound ==
    ASSUME CallInv, NEW c \in Calls, call[c].pc \in {"act", "timeout"},
           call[c].req.op # "paynet.perform", NEW prov,
           NEW ans \in {"CANNOT_PERFORM", "CANCELLED"}, CancelAndAnswer(c, prov, ans)
    PROVE  Called /\ CallInv'
<1>1. Called
  BY HeldRow, CancelledOnTheRow, ReadsAreSteps DEF CancelAndAnswer
<1> QED
  BY <1>1, AnswerSound, PlainAnswer DEF CancelAndAnswer, Answers

\* A payment that goes through is found under the transaction that paid it.
LEMMA PaySound ==
    ASSUME CallInv, NEW c \in Calls, call[c].pc = "act",
           call[c].req.op # "paynet.perform", NEW prov, NEW paid \in {"PERFORMED", "OK"},
           paid = "OK" => prov = "CLICK",
           Pay(c, prov, paid)
    PROVE  Called /\ CallInv'
<1> DEFINE s == Snap(c)
           p == Snap(c).id
<1>1. /\ Req(c) \in Requests /\ Req(c).txn \in Txns /\ p \in PaymentIds
      /\ CopyOf(s, pay[p]) /\ pay[p].id = p
  BY HeldRow, RequestType
<1>2. MarkPaid(prov, s, Req(c).txn) /\ Answer(c, paid)
  BY DEF Pay
<1>3. Called
  BY <1>1, <1>2, PaidOnTheRow
<1>4. paid = "OK" => Paid(pay', "CLICK", Req(c).txn)
  <2> SUFFICES ASSUME prov = "CLICK" PROVE Paid(pay', "CLICK", Req(c).txn)
    OBVIOUS
  <2> DEFINE t == Req(c).txn
  <2>1. PICK bonus \in BonusFor(s.amount) :
          /\ pay[p].provider = "CLICK"
          /\ pay' = [pay EXCEPT ![p].status = "PAID", ![p].bonus = bonus,
                                ![p].txn = t, ![p].performed = TRUE,
                                ![p].idle = FALSE]
    BY <1>2 DEF MarkPaid, CanPay
  <2>2. pay \in [PaymentIds -> PaymentType]
    BY DEF CallInv, Inv, TypeOK
  <2> HIDE DEF t, p
  <2>3. pay'[p].provider = "CLICK" /\ pay'[p].txn = t /\ pay'[p].performed
    BY <1>1, <2>1, <2>2 DEF PaymentType
  <2> QED
    BY <1>1, <2>3 DEF Paid, t
<1>5. ~GivenBack(pay', "CLICK", Req(c).txn)
  BY <1>3, RulesKept DEF CallInv, GivenBack, Rules, ClickStays
<1>6. Told(Req(c), paid, pay')
  BY <1>4, <1>5 DEF Told, Req
<1> QED
  BY <1>2, <1>3, <1>6, AnswerSound DEF Answers

LEMMA PayThrowsSound ==
    ASSUME CallInv, NEW c \in Calls, call[c].pc # "idle", NEW prov, PayThrows(c, prov)
    PROVE  Called /\ CallInv'
<1>1. Called
  BY ReadsAreSteps DEF PayThrows, ReadOnly
<1> QED
  BY <1>1, AnswerSound, PlainAnswer DEF PayThrows, Answers

LEMMA PaymePerformPaySound ==
    ASSUME CallInv, NEW c \in Calls, PaymePerformPay(c)
    PROVE  Called /\ CallInv'
<1>0. call[c].pc = "act" /\ call[c].req.op = "payme.perform"
  BY DEF PaymePerformPay, At
<1>1. ASSUME Goto(c, "reread"), UNCHANGED vars PROVE Called /\ CallInv'
  <2>1. Held(Req(c), "reread", Snap(c), pay')
    BY <1>0, <1>1, HeldRow DEF vars, Held, Req
  <2> QED
    BY <1>0, <1>1, <2>1, RereadSound, ReadsAreSteps
<1> QED
  BY <1>0, <1>1, PaySound, PayThrowsSound DEF PaymePerformPay, ReadOnly

LEMMA PaymePerformRereadSound ==
    ASSUME CallInv, NEW c \in Calls, PaymePerformReread(c)
    PROVE  Called /\ CallInv'
<1>1. PICK ans \in {"SYSTEM", "PERFORMED"} :
        Answer(c, ans) /\ call[c].pc = "reread" /\ UNCHANGED vars
  BY DEF PaymePerformReread, At, ReadOnly
<1> QED
  BY <1>1, AnswerSound, PlainAnswer, ReadsAreSteps DEF Answers

\* What a handler that takes money back knows of its payment.
LEMMA TakesBack ==
    ASSUME CallInv, NEW c \in Calls, call[c].pc \in {"act", "reread"},
           NEW prov \in {"PAYME", "PAYNET"},
           call[c].req.op = IF prov = "PAYNET" THEN "paynet.cancel" ELSE "payme.cancel"
    PROVE  /\ Req(c) \in Requests
           /\ Snap(c) \in PaymentType /\ Snap(c).id \in PaymentIds
           /\ CopyOf(Snap(c), pay[Snap(c).id]) /\ pay[Snap(c).id].id = Snap(c).id
           /\ pay[Snap(c).id].provider = prov
           /\ Snap(c).provider = prov /\ Snap(c).txn = Req(c).txn
           /\ prov = "PAYNET" \/ call[c].pc = "reread" => Snap(c).performed
           /\ Snap(c).performed =>
                pay[Snap(c).id].performed /\ pay[Snap(c).id].txn = Req(c).txn
<1>1. Sound(call[c], pay)
  BY DEF CallInv
<1>2. /\ Snap(c).provider = prov /\ Snap(c).txn = Req(c).txn
      /\ prov = "PAYNET" \/ call[c].pc = "reread" => Snap(c).performed
  BY <1>1 DEF Sound, Held, Req, Snap
<1> QED
  BY <1>2, HeldRow DEF CopyOf

\* The reversal goes through, is refused because the money is spent, or finds
\* the payment taken back already.
LEMMA ReverseSound ==
    ASSUME CallInv, NEW c \in Calls, call[c].pc = "act",
           NEW prov \in {"PAYME", "PAYNET"},
           call[c].req.op = IF prov = "PAYNET" THEN "paynet.cancel" ELSE "payme.cancel",
           Snap(c).performed
    PROVE  /\ ReverseAndReread(c, prov) => Called /\ CallInv'
           /\ ReversalNotPossible(c, prov) => Called /\ CallInv'
           /\ Goto(c, "reread") /\ ReadOnly => Called /\ CallInv'
           /\ Answer(c, "REVERSED") /\ ReadOnly /\ pay[Snap(c).id].status # "PAID" =>
                Called /\ CallInv'
<1> DEFINE s == Snap(c)
           p == Snap(c).id
           op == Req(c).op
<1>1. /\ Req(c) \in Requests /\ s \in PaymentType /\ p \in PaymentIds
      /\ CopyOf(s, pay[p]) /\ pay[p].id = p /\ pay[p].provider = prov
      /\ s.provider = prov /\ s.txn = Req(c).txn
      /\ pay[p].performed /\ pay[p].txn = Req(c).txn
  BY TakesBack
<1>2. /\ op = IF prov = "PAYNET" THEN "paynet.cancel" ELSE "payme.cancel"
      /\ prov = IF op = "paynet.cancel" THEN "PAYNET" ELSE "PAYME"
  BY DEF Req
<1>3. ASSUME Called, Goto(c, "reread") PROVE Called /\ CallInv'
  <2>1. CopyOf(s, pay'[p])
    BY <1>1, <1>3, RowKept DEF CallInv
  <2>2. Held(Req(c), "reread", s, pay')
    BY <1>1, <1>2, <2>1 DEF Held
  <2> QED
    BY <1>3, <2>2, RereadSound
<1>4. ASSUME ReverseAndReread(c, prov) PROVE Called /\ CallInv'
  <2>1. Called
    BY <1>1, <1>4, ReversedOnTheRow DEF ReverseAndReread
  <2> QED
    BY <1>3, <1>4, <2>1 DEF ReverseAndReread
<1>5. ASSUME ReversalNotPossible(c, prov) PROVE Called /\ CallInv'
  <2>1. Called /\ pay' = pay
    BY <1>5, ReadsAreSteps DEF ReversalNotPossible, ReadOnly, vars
  <2>2. Paid(pay, prov, Req(c).txn)
    BY <1>1 DEF Paid
  <2>3. Told(Req(c), "CANNOT_CANCEL", pay')
    BY <1>2, <2>1, <2>2 DEF Told
  <2> QED
    BY <1>5, <2>1, <2>3, AnswerSound DEF ReversalNotPossible, Answers
<1>6. ASSUME Answer(c, "REVERSED"), ReadOnly, pay[p].status # "PAID"
      PROVE  Called /\ CallInv'
  <2>1. Called /\ pay' = pay
    BY <1>6, ReadsAreSteps DEF ReadOnly, vars
  <2>2. pay[p].status = "CANCELLED"
    BY <1>1, <1>6, RowFacts DEF CallInv
  <2>3. GivenBack(pay, prov, Req(c).txn)
    BY <1>1, <2>2 DEF GivenBack
  <2>4. Told(Req(c), "REVERSED", pay')
    BY <1>2, <2>1, <2>3 DEF Told
  <2> QED
    BY <1>6, <2>1, <2>4, AnswerSound DEF Answers
<1> QED
  BY <1>3, <1>4, <1>5, <1>6, ReadsAreSteps DEF ReadOnly

LEMMA PaymeCancelPaidSound ==
    ASSUME CallInv, NEW c \in Calls, PaymeCancelPaid(c)
    PROVE  Called /\ CallInv'
<1>1. /\ call[c].pc = "act" /\ call[c].req.op = "payme.cancel"
      /\ Snap(c).status = "PAID"
  BY DEF PaymeCancelPaid, At
<1>2. Snap(c).performed
  BY <1>1, HeldRow DEF CopyOf
<1> QED
  BY <1>1, <1>2, ReverseSound DEF PaymeCancelPaid

LEMMA PaynetCancelReverseSound ==
    ASSUME CallInv, NEW c \in Calls, PaynetCancelReverse(c)
    PROVE  Called /\ CallInv'
<1>1. call[c].pc = "act" /\ call[c].req.op = "paynet.cancel"
  BY DEF PaynetCancelReverse, At
<1>2. Snap(c).performed
  BY <1>1, TakesBack
<1> QED
  BY <1>1, <1>2, ReverseSound DEF PaynetCancelReverse

LEMMA CancelRereadSound ==
    ASSUME CallInv, NEW c \in Calls, CancelReread(c)
    PROVE  Called /\ CallInv'
<1> DEFINE p == Snap(c).id
           ans == StateOf(pay[p])
<1>1. /\ call[c].pc = "reread" /\ Req(c).op \in {"payme.cancel", "paynet.cancel"}
      /\ Answer(c, ans) /\ Called /\ pay' = pay
  BY ReadsAreSteps DEF CancelReread, ReadOnly, vars
<1>2. /\ p \in PaymentIds /\ pay[p].txn = Req(c).txn
      /\ pay[p].provider = IF Req(c).op = "paynet.cancel" THEN "PAYNET" ELSE "PAYME"
  <2>1. CASE Req(c).op = "paynet.cancel"
    BY <1>1, <2>1, TakesBack DEF Req
  <2>2. CASE Req(c).op = "payme.cancel"
    BY <1>1, <2>2, TakesBack DEF Req
  <2> QED
    BY <1>1, <2>1, <2>2
<1>3. ans \in Answers /\ Told(Req(c), ans, pay)
  BY <1>1, <1>2, StateOfTold
<1> HIDE DEF ans
<1> QED
  BY <1>1, <1>3, AnswerSound

\* Paynet's push: the row is born paid, under its transaction.
LEMMA PaynetPerformRecordSound ==
    ASSUME CallInv, NEW c \in Calls, PaynetPerformRecord(c)
    PROVE  Called /\ CallInv'
<1> DEFINE r == Req(c)
<1>1. call[c].pc = "act" /\ r.op = "paynet.perform"
  BY DEF PaynetPerformRecord, At, Req
<1>2. r \in Requests /\ r.user \in Users /\ r.amount \in Amounts /\ r.txn \in Txns
  <2>1. r \in Requests
    BY <1>1 DEF CallInv, Sound, Req
  <2> QED
    BY <1>1, <2>1, RequestType
<1>3. ASSUME NEW p \in PaymentIds, Answer(c, "OK"),
             RecordPushPayment(p, "PAYNET", r.user, r.amount, r.txn)
      PROVE  Called /\ CallInv'
  <2>1. Called
    BY <1>2, <1>3 DEF Called, ServiceStep
  <2> DEFINE u == r.user
             a == r.amount
             t == r.txn
  <2>2. PICK bonus \in BonusFor(a) :
          pay' = [pay EXCEPT ![p] =
                   [NoPayment(p) EXCEPT !.status = "PAID", !.user = u,
                       !.provider = "PAYNET", !.amount = a, !.bonus = bonus,
                       !.txn = t, !.performed = TRUE]]
    BY <1>3 DEF RecordPushPayment
  <2>3. pay'[p].provider = "PAYNET" /\ pay'[p].txn = t /\ pay'[p].performed
    <3> HIDE DEF u, a, t
    <3> QED
      BY <2>2 DEF CallInv, Inv, TypeOK, NoPayment
  <2>4. Told(r, "OK", pay')
    BY <1>1, <2>3 DEF Told, Paid
  <2> QED
    BY <1>1, <1>3, <2>1, <2>4, AnswerSound DEF Answers
<1>4. ASSUME NEW ans \in {"EXISTS", "SYSTEM"}, Answer(c, ans), UNCHANGED vars
      PROVE  Called /\ CallInv'
  BY <1>1, <1>4, AnswerSound, PlainAnswer, ReadsAreSteps DEF Answers
<1> QED
  BY <1>3, <1>4 DEF PaynetPerformRecord, ReadOnly

\* Payme's create with no transaction yet looks for the order.
LEMMA PaymeCreateOrderSound ==
    ASSUME CallInv, NEW c \in Calls, PaymeCreateOrder(c)
    PROVE  Called /\ CallInv'
<1> DEFINE r == Req(c)
<1>1. call[c].pc = "order" /\ r.op = "payme.create" /\ UNCHANGED vars
  BY DEF PaymeCreateOrder, At, Req, ReadOnly
<1>2. r \in Requests /\ r.pid \in PaymentIds
  <2>1. r \in Requests
    BY <1>1 DEF CallInv, Sound, Req
  <2> QED
    BY <1>1, <2>1, RequestType
<1>3. ASSUME pay[r.pid].provider = "PAYME", Hold(c, r, "act", pay[r.pid])
      PROVE  CallInv'
  <2>1. pay[r.pid] \in PaymentType /\ CopyOf(pay[r.pid], pay[pay[r.pid].id])
    BY <1>2, <1>3, Copied, RowFacts DEF CallInv, Providers
  <2> QED
    BY <1>1, <1>2, <1>3, <2>1, HoldSound DEF Held, Steps
<1>4. ASSUME NEW ans \in {"NOT_FOUND", "BUSY"}, Answer(c, ans) PROVE CallInv'
  BY <1>1, <1>4, AnswerSound, PlainAnswer, ReadsAreSteps DEF Answers
<1> QED
  BY <1>1, <1>3, <1>4, ReadsAreSteps DEF PaymeCreateOrder

LEMMA ClickCompletePaySound ==
    ASSUME CallInv, NEW c \in Calls, ClickCompletePay(c)
    PROVE  Called /\ CallInv'
<1>0. call[c].pc = "act" /\ call[c].req.op = "click.complete"
  BY DEF ClickCompletePay, At
<1>1. ASSUME Answer(c, "ALREADY_PAID"), UNCHANGED vars PROVE Called /\ CallInv'
  BY <1>0, <1>1, AnswerSound, PlainAnswer, ReadsAreSteps DEF Answers
<1> QED
  BY <1>0, <1>1, PaySound, PayThrowsSound DEF ClickCompletePay, ReadOnly

LEMMA HandlerSound ==
    ASSUME CallInv, NEW c \in Calls, Handler(c)
    PROVE  Called /\ CallInv'
<1>1. CASE PaymeCreatePrepare(c)
  BY <1>1, PrepareSound DEF PaymeCreatePrepare, At, Req
<1>2. CASE ClickPreparePrepare(c)
  BY <1>2, PrepareSound DEF ClickPreparePrepare, At, Req
<1>3. CASE PaymeTimeout(c)
  <2>1. call[c].req.op # "paynet.perform"
    BY <1>3 DEF PaymeTimeout, CallInv, Sound, Held
  <2> QED
    BY <1>3, <2>1, CancelAndAnswerSound DEF PaymeTimeout
<1>4. CASE PaymeCancelPrepared(c)
  BY <1>4, CancelAndAnswerSound DEF PaymeCancelPrepared, At
<1>5. CASE ClickCompleteFailed(c)
  BY <1>5, CancelAndAnswerSound DEF ClickCompleteFailed, At
<1> QED
  BY <1>1, <1>2, <1>3, <1>4, <1>5, PaymeCreateOrderSound, PaymePerformPaySound,
     PaymePerformRereadSound, PaymeCancelPaidSound, ClickCompletePaySound,
     PaynetPerformRecordSound, PaynetCancelReverseSound, CancelRereadSound DEF Handler

-----------------------------------------------------------------------------
(* The theorems. *)

\* The clock, the cron, the app, the admin and the user around the webhooks.
LEMMA AroundSound ==
    ASSUME CallInv, Around
    PROVE  Called /\ CallInv'
<1>1. Called
  BY DEF Around, OrderPlaced, Called, ServiceStep
<1>2. UNCHANGED call
  BY DEF Around, cbVars
<1> QED
  BY <1>1, <1>2, CallsStay

LEMMA CallNextSound ==
    ASSUME CallInv, [CallNext]_allVars
    PROVE  Called /\ CallInv'
<1>1. ASSUME UNCHANGED vars, UNCHANGED call PROVE Called /\ CallInv'
  BY <1>1, CallsStay, ReadsAreSteps
<1>2. ASSUME NEW p \in PaymentIds, GrowAged(p) PROVE Called /\ CallInv'
  BY <1>1, <1>2 DEF GrowAged
<1>3. CASE UNCHANGED allVars
  BY <1>1, <1>3 DEF allVars
<1> QED
  BY <1>2, <1>3, DeliverySound, HandlerSound, AroundSound DEF CallNext

LEMMA CallInitSound == CallInit => CallInv
<1> SUFFICES ASSUME CallInit PROVE CallInv
  OBVIOUS
<1>1. Inv
  BY InitInv DEF CallInit
<1>2. EventsFollowStatus
  BY DEF CallInit, Init, EventsFollowStatus, EventsOf, NoPayment
<1>3. Rules
  BY PaymentsAssumption
     DEF CallInit, Init, Rules, Unborn, PaynetPaid, ClickStays, NoPayment
<1>4. call \in [Calls -> CallType]
  BY DEF CallInit, CallType, Steps, Answers
<1>5. \A c \in Calls : Sound(call[c], pay)
  BY DEF CallInit, Sound
<1> QED
  BY <1>1, <1>2, <1>3, <1>4, <1>5 DEF CallInv

LEMMA CallInvariant == CallSpec => []CallInv
<1>1. CallInv /\ [CallNext]_allVars => CallInv'
  BY CallNextSound
<1> QED
  BY <1>1, CallInitSound, PTL DEF CallSpec

\* Whatever number of deliveries, retries and cancellations of the three
\* providers interleave, with whatever stale copies of the rows, every step of
\* every handler is a step PaymentsService could take on the rows themselves.
THEOREM HandlersActOnTheRow == CallSpec => ActsOnTheRow
<1>1. CallInit => Init
  BY DEF CallInit
<1>2. CallInv /\ [CallNext]_allVars => [Next]_vars
  <2>1. {"CLICK", "PAYME"} \in SUBSET Providers
    BY DEF Providers
  <2> QED
    BY <2>1, CallNextSound, ServiceStepIsNext DEF Called
<1>3. CallSpec => Spec
  BY <1>1, <1>2, CallInvariant, PTL DEF CallSpec, Spec
<1> QED
  BY <1>3, TopUpsArePromised DEF ActsOnTheRow

\* So under any interleaving of webhooks every paid payment is credited exactly
\* once and every reversed one taken back exactly once and in full...
THEOREM WebhooksBookMoney == CallSpec => []PaymentsBooked
<1>1. CallInv => PaymentsBooked
  BY DEF CallInv, Inv
<1> QED
  BY <1>1, CallInvariant, PTL

\* ... and every wallet's ledger explains its balance.
THEOREM WebhooksKeepLedgers == CallSpec => []WalletsReconcile
<1>1. CallInv => WalletsReconcile
  BY DEF CallInv, Inv
<1> QED
  BY <1>1, CallInvariant, PTL

\* What a provider was finally told about money is true and stays true: "OK"
\* means paid, "cancelled after it was performed" means given back, and the
\* refusal to cancel means paid; and what the rest of the backend is told of a
\* payment, through the outbox, is its history.
THEOREM AnswersStayTrue == CallSpec => []AnswersHold
<1>1. CallInv => AnswersHold
  <2> SUFFICES ASSUME CallInv PROVE AnswersHold
    OBVIOUS
  <2>1. ASSUME NEW c \in Calls, call[c].pc = "done" PROVE Told(Req(c), call[c].ans, pay)
    BY <2>1 DEF CallInv, Sound, Req
  <2>2. \A prov, txn :
          /\ Paid(pay, prov, txn) <=> \E p \in Find(prov, txn) : pay[p].performed
          /\ GivenBack(pay, prov, txn) <=>
               \E p \in Find(prov, txn) :
                 pay[p].performed /\ pay[p].status = "CANCELLED"
    BY DEF Paid, GivenBack, Find
  <2> QED
    BY <2>1, <2>2 DEF AnswersHold, CallInv, Told
<1> QED
  BY <1>1, CallInvariant, PTL
=============================================================================
