-------------------------- MODULE PaymentCallbacks --------------------------
(***************************************************************************)
(* The webhooks of the three payment providers (PaymeProvider,             *)
(* ClickProvider, PaynetProvider) on top of PaymentsService.               *)
(*                                                                         *)
(* A webhook handler awaits the database between its steps, so any number  *)
(* of deliveries, retries included, interleave with each other, with the   *)
(* expiry cron and with the user spending.  Each await is one action here: *)
(* a handler first reads the payment into `snap`, decides on that copy,    *)
(* and only then calls the service, which decides on the row.              *)
(*                                                                         *)
(* Authorization, signatures, malformed bodies and wrong amounts are       *)
(* refused before anything is read and change nothing: they are left out.  *)
(***************************************************************************)
EXTENDS Payments

CONSTANTS
    Calls,   \* deliveries of a webhook; a retry is one more delivery
    NoCall   \* the request of a delivery that has not arrived

VARIABLES
    call,    \* the handler running for each delivery
    aged     \* payments whose provider_create_time is over PAYME_TIMEOUT_MS ago

cbVars == <<call, aged>>
allVars == <<vars, call, aged>>

Requests ==
    [op : {"payme.create", "click.prepare"}, txn : Txns, pid : PaymentIds]
    \union
    [op : {"payme.perform", "payme.cancel", "paynet.cancel"}, txn : Txns]
    \union
    [op : {"click.complete"}, txn : Txns, pid : PaymentIds, failed : BOOLEAN]
    \union
    [op : {"paynet.perform"}, txn : Txns, user : Users, amount : Amounts]

\* The protocol codes, by what they tell the provider; "REVERSED" is cancelled
\* after it was performed, "SYSTEM" a handler that threw.
Answers == {"CREATED", "PERFORMED", "CANCELLED", "REVERSED", "BUSY",
            "CANNOT_PERFORM", "CANNOT_CANCEL", "NOT_FOUND", "EXISTS",
            "ALREADY_PAID", "OK", "SYSTEM", "none"}

\* What a handler is about to do: nothing yet, look for the order, call the
\* service, cancel a transaction that timed out, read the row again, nothing.
Steps == {"idle", "order", "act", "timeout", "reread", "done"}

CallType ==
    [pc : Steps, req : Requests \union {NoCall},
     snap : PaymentType \union {NoCall}, ans : Answers]

CallInit ==
    /\ Init
    /\ call = [c \in Calls |-> [pc |-> "idle", req |-> NoCall,
                                snap |-> NoCall, ans |-> "none"]]
    /\ aged = {}

-----------------------------------------------------------------------------
At(c, op, pc) == call[c].pc = pc /\ call[c].req.op = op
Req(c)  == call[c].req
Snap(c) == call[c].snap

\* findByProviderTxn
Find(prov, txn) ==
    {p \in PaymentIds : pay[p].provider = prov /\ pay[p].txn = txn}

\* Delivery c of request r arrives, and its handler does its first read: it
\* answers at once, or it holds the copy of row p and will next do `pc`.
Arrives(c, r, op) == call[c].pc = "idle" /\ r.op = op

AtOnce(c, r, ans) ==
    call' = [call EXCEPT ![c] =
               [pc |-> "done", req |-> r, snap |-> NoCall, ans |-> ans]]
Hold(c, r, pc, snap) ==
    call' = [call EXCEPT ![c] =
               [pc |-> pc, req |-> r, snap |-> snap, ans |-> "none"]]

\* A later step of the handler.
Goto(c, pc) == call' = [call EXCEPT ![c].pc = pc]
Answer(c, ans) ==
    call' = [call EXCEPT ![c].pc = "done", ![c].snap = NoCall, ![c].ans = ans]

\* A step that only reads.
ReadOnly == UNCHANGED <<vars, aged>>

-----------------------------------------------------------------------------
\* PaymeProvider.create
PaymeCreateFind(c, r) ==
    /\ Arrives(c, r, "payme.create")
    /\ LET found == Find("PAYME", r.txn) IN
       \/ /\ found = {}
          /\ Hold(c, r, "order", NoCall)
       \/ \E p \in found :
            \/ pay[p].status # "PREPARED" /\ AtOnce(c, r, "CANNOT_PERFORM")
            \/ pay[p].status = "PREPARED" /\ p \in aged /\ Hold(c, r, "timeout", pay[p])
            \/ pay[p].status = "PREPARED" /\ p \notin aged /\ AtOnce(c, r, "CREATED")
    /\ ReadOnly

PaymeCreateOrder(c) ==
    /\ At(c, "payme.create", "order")
    /\ LET p == Req(c).pid IN
       \/ pay[p].provider # "PAYME" /\ Answer(c, "NOT_FOUND")
       \/ pay[p].provider = "PAYME" /\ pay[p].status # "CREATED" /\ Answer(c, "BUSY")
       \/ /\ pay[p].provider = "PAYME" /\ pay[p].status = "CREATED"
          /\ Hold(c, Req(c), "act", pay[p])
    /\ ReadOnly

\* markPrepared from a handler: the clock of the transaction starts now; a row
\* no longer open is refused, a duplicate transaction id throws.
Prepare(c, prov, granted, refused) ==
    LET p == Snap(c).id IN
    \/ /\ MarkPrepared(prov, Snap(c), Req(c).txn)
       /\ aged' = aged \ {p}
       /\ Answer(c, granted)
    \/ /\ ~CanPrepare(prov, Snap(c), Req(c).txn)
       /\ Answer(c, IF pay[p].status \in Open THEN "SYSTEM" ELSE refused)
       /\ ReadOnly

PaymeCreatePrepare(c) ==
    At(c, "payme.create", "act") /\ Prepare(c, "PAYME", "CREATED", "BUSY")

\* payments.cancel from a handler, whose result the handlers do not look at.
CancelAndAnswer(c, prov, ans) ==
    /\ \/ Cancel(prov, Snap(c))
       \/ ~CanCancel(prov, Snap(c)) /\ UNCHANGED vars
    /\ Answer(c, ans)
    /\ UNCHANGED aged

\* create and perform on a transaction older than PAYME_TIMEOUT_MS.
PaymeTimeout(c) ==
    /\ call[c].pc = "timeout"
    /\ CancelAndAnswer(c, "PAYME", "CANNOT_PERFORM")

\* markPaid from a handler.  A unique index or BALANCE_LIMIT throws, and the
\* transaction is rolled back.
Pay(c, prov, paid) ==
    /\ MarkPaid(prov, Snap(c), Req(c).txn)
    /\ Answer(c, paid)
    /\ UNCHANGED aged

NotPrepared(c) == pay[Snap(c).id].status # "PREPARED"

PayThrows(c, prov) ==
    /\ ~NotPrepared(c)
    /\ \A bonus \in BonusFor(Snap(c).amount) :
         ~CanPay(prov, Snap(c), Req(c).txn, bonus)
    /\ Answer(c, "SYSTEM")
    /\ ReadOnly

\* PaymeProvider.perform
PaymePerformFind(c, r) ==
    /\ Arrives(c, r, "payme.perform")
    /\ LET found == Find("PAYME", r.txn) IN
       \/ found = {} /\ AtOnce(c, r, "NOT_FOUND")
       \/ \E p \in found :
            \/ pay[p].status = "PAID" /\ AtOnce(c, r, "PERFORMED")
            \/ pay[p].status = "CANCELLED" /\ AtOnce(c, r, "CANNOT_PERFORM")
            \/ pay[p].status \in Open /\ p \in aged /\ Hold(c, r, "timeout", pay[p])
            \/ pay[p].status \in Open /\ p \notin aged /\ Hold(c, r, "act", pay[p])
    /\ ReadOnly

PaymePerformPay(c) ==
    /\ At(c, "payme.perform", "act")
    /\ \/ Pay(c, "PAYME", "PERFORMED")
       \/ PayThrows(c, "PAYME")
       \/ /\ NotPrepared(c)
          /\ Goto(c, "reread")
          /\ ReadOnly

\* After a lost race the row is read again, only for its perform time.
PaymePerformReread(c) ==
    /\ At(c, "payme.perform", "reread")
    /\ Answer(c, IF Find("PAYME", Req(c).txn) = {} THEN "SYSTEM" ELSE "PERFORMED")
    /\ ReadOnly

\* statusOf / stateOf
StateOf(row) ==
    CASE row.status = "PAID" -> "PERFORMED"
      [] row.status = "PREPARED" -> "CREATED"
      [] OTHER -> IF row.performed THEN "REVERSED" ELSE "CANCELLED"

\* PaymeProvider.cancelTxn
PaymeCancelFind(c, r) ==
    /\ Arrives(c, r, "payme.cancel")
    /\ LET found == Find("PAYME", r.txn) IN
       \/ found = {} /\ AtOnce(c, r, "NOT_FOUND")
       \/ \E p \in found :
            \/ pay[p].status = "CANCELLED" /\ AtOnce(c, r, StateOf(pay[p]))
            \/ pay[p].status \in {"PREPARED", "PAID"} /\ Hold(c, r, "act", pay[p])
    /\ ReadOnly

PaymeCancelPrepared(c) ==
    /\ At(c, "payme.cancel", "act") /\ Snap(c).status = "PREPARED"
    /\ CancelAndAnswer(c, "PAYME", "CANCELLED")

\* payments.reverse from a handler: taken back, not PAID any more, or the
\* balance no longer covers it.
ReverseAndReread(c, prov) ==
    /\ Reverse(prov, Snap(c))
    /\ Goto(c, "reread")
    /\ UNCHANGED aged

\* Faulty: ReversalNotPossibleError is taken for a payment already reversed.
FaultyReversalNotPossible(c, prov) ==
    /\ pay[Snap(c).id].status = "PAID"
    /\ ~CanReverse(prov, Snap(c))
    /\ Answer(c, "REVERSED")
    /\ ReadOnly

ReversalNotPossible(c, prov) ==
    /\ pay[Snap(c).id].status = "PAID"
    /\ ~CanReverse(prov, Snap(c))
    /\ Answer(c, "CANNOT_CANCEL")
    /\ ReadOnly

\* Faulty: every CancelTransaction goes through reverse(), whatever was read.
FaultyPaymeCancelPaid(c) ==
    /\ At(c, "payme.cancel", "act")
    /\ \/ ReverseAndReread(c, "PAYME")
       \/ ReversalNotPossible(c, "PAYME")
       \/ /\ pay[Snap(c).id].status # "PAID"
          /\ Goto(c, "reread")
          /\ ReadOnly

PaymeCancelPaid(c) ==
    /\ At(c, "payme.cancel", "act") /\ Snap(c).status = "PAID"
    /\ \/ ReverseAndReread(c, "PAYME")
       \/ ReversalNotPossible(c, "PAYME")
       \/ /\ pay[Snap(c).id].status # "PAID"
          /\ Goto(c, "reread")
          /\ ReadOnly

\* The row read again.
CancelReread(c) ==
    /\ call[c].pc = "reread" /\ Req(c).op \in {"payme.cancel", "paynet.cancel"}
    /\ Answer(c, StateOf(pay[Snap(c).id]))
    /\ ReadOnly

-----------------------------------------------------------------------------
\* ClickProvider.prepare: findByPrepareId names our own row.
ClickPrepareFind(c, r) ==
    /\ Arrives(c, r, "click.prepare")
    /\ LET p == r.pid IN
       \/ pay[p].provider # "CLICK" /\ AtOnce(c, r, "NOT_FOUND")
       \/ pay[p].provider = "CLICK" /\ pay[p].status = "PAID" /\ AtOnce(c, r, "ALREADY_PAID")
       \/ pay[p].provider = "CLICK" /\ pay[p].status = "CANCELLED" /\ AtOnce(c, r, "CANCELLED")
       \/ pay[p].provider = "CLICK" /\ pay[p].status \in Open /\ Hold(c, r, "act", pay[p])
    /\ ReadOnly

ClickPreparePrepare(c) ==
    At(c, "click.prepare", "act") /\ Prepare(c, "CLICK", "OK", "CANCELLED")

\* ClickProvider.complete: only the transaction that was prepared.
ClickCompleteFind(c, r) ==
    /\ Arrives(c, r, "click.complete")
    /\ LET p == r.pid IN
       \/ pay[p].provider # "CLICK" /\ AtOnce(c, r, "NOT_FOUND")
       \/ pay[p].provider = "CLICK" /\ pay[p].status = "PAID" /\ AtOnce(c, r, "ALREADY_PAID")
       \/ pay[p].provider = "CLICK" /\ pay[p].status = "CANCELLED" /\ AtOnce(c, r, "CANCELLED")
       \/ /\ pay[p].provider = "CLICK" /\ pay[p].status \in Open
          /\ IF pay[p].status = "PREPARED" /\ pay[p].txn = r.txn
             THEN Hold(c, r, "act", pay[p]) ELSE AtOnce(c, r, "NOT_FOUND")
    /\ ReadOnly

ClickCompleteFailed(c) ==
    /\ At(c, "click.complete", "act") /\ Req(c).failed
    /\ CancelAndAnswer(c, "CLICK", "CANCELLED")

ClickCompletePay(c) ==
    /\ At(c, "click.complete", "act") /\ ~Req(c).failed
    /\ \/ Pay(c, "CLICK", "OK")
       \/ PayThrows(c, "CLICK")
       \/ NotPrepared(c) /\ Answer(c, "ALREADY_PAID") /\ ReadOnly

-----------------------------------------------------------------------------
\* PaynetProvider.perform
PaynetPerformFind(c, r) ==
    /\ Arrives(c, r, "paynet.perform")
    /\ IF Find("PAYNET", r.txn) # {}
       THEN AtOnce(c, r, "EXISTS")
       ELSE Hold(c, r, "act", NoCall)
    /\ ReadOnly

PaynetPerformRecord(c) ==
    /\ At(c, "paynet.perform", "act")
    /\ LET r == Req(c) IN
       \/ /\ \E p \in PaymentIds :
               RecordPushPayment(p, "PAYNET", r.user, r.amount, r.txn)
          /\ Answer(c, "OK")
          /\ UNCHANGED aged
       \/ /\ Find("PAYNET", r.txn) # {}
          /\ Answer(c, "EXISTS")
          /\ ReadOnly
       \/ /\ Find("PAYNET", r.txn) = {}
          /\ \A bonus \in BonusFor(r.amount) :
               r.amount + bonus + wallet[r.user].balance > MaxBalance
          /\ Answer(c, "SYSTEM")
          /\ ReadOnly

\* PaynetProvider.cancel
PaynetCancelFind(c, r) ==
    /\ Arrives(c, r, "paynet.cancel")
    /\ LET found == Find("PAYNET", r.txn) IN
       \/ found = {} /\ AtOnce(c, r, "NOT_FOUND")
       \/ \E p \in found :
            \/ pay[p].status = "CANCELLED" /\ AtOnce(c, r, "REVERSED")
            \/ pay[p].status # "CANCELLED" /\ Hold(c, r, "act", pay[p])
    /\ ReadOnly

PaynetCancelReverse(c) ==
    /\ At(c, "paynet.cancel", "act")
    /\ \/ ReverseAndReread(c, "PAYNET")
       \/ ReversalNotPossible(c, "PAYNET")
       \/ /\ pay[Snap(c).id].status # "PAID"
          /\ Answer(c, "REVERSED")
          /\ ReadOnly

-----------------------------------------------------------------------------
\* A delivery arrives (the first read of its handler).
Delivery(c, r) ==
    \/ PaymeCreateFind(c, r) \/ PaymePerformFind(c, r) \/ PaymeCancelFind(c, r)
    \/ ClickPrepareFind(c, r) \/ ClickCompleteFind(c, r)
    \/ PaynetPerformFind(c, r) \/ PaynetCancelFind(c, r)

\* A handler goes on.
Handler(c) ==
    \/ PaymeCreateOrder(c) \/ PaymeCreatePrepare(c) \/ PaymeTimeout(c)
    \/ PaymePerformPay(c) \/ PaymePerformReread(c)
    \/ PaymeCancelPrepared(c) \/ PaymeCancelPaid(c)
    \/ ClickPreparePrepare(c) \/ ClickCompleteFailed(c) \/ ClickCompletePay(c)
    \/ PaynetPerformRecord(c) \/ PaynetCancelReverse(c)
    \/ CancelReread(c)

\* Twelve hours pass on a provider's transaction.
GrowAged(p) ==
    /\ pay[p].status = "PREPARED" /\ p \notin aged
    /\ aged' = aged \union {p}
    /\ UNCHANGED <<vars, call>>

\* Whoever prepared a payment touched it no earlier than its transaction began.
UntouchedFor24h(p) == pay[p].status = "PREPARED" => p \in aged

\* What happens around the webhooks.
OrderPlaced ==
    \E p \in PaymentIds, u \in Users, prov \in {"CLICK", "PAYME"},
       a \in Amounts : CreateOrder(p, u, prov, a, NoKey)

Around ==
    /\ \/ OrderPlaced
       \/ ExpireStalePayments
       \/ \E p \in PaymentIds : UntouchedFor24h(p) /\ GrowIdle(p)
       \/ \E u \in Users, a \in Prices : Spend(u, a)
       \/ \E new \in SUBSET TierTable : SetTiers(new)
    /\ UNCHANGED cbVars

CallNext ==
    \/ \E c \in Calls, r \in Requests : Delivery(c, r)
    \/ \E c \in Calls : Handler(c)
    \/ \E p \in PaymentIds : GrowAged(p)
    \/ Around

CallSpec == CallInit /\ [][CallNext]_allVars

\* Every handler runs to its answer, time passes, and the hourly cron runs.
Fairness ==
    /\ \A c \in Calls : WF_allVars(Handler(c))
    /\ \A p \in PaymentIds :
         /\ WF_allVars(GrowAged(p))
         /\ WF_allVars(UntouchedFor24h(p) /\ GrowIdle(p) /\ UNCHANGED cbVars)
    /\ WF_allVars(ExpireStalePayments /\ UNCHANGED cbVars)

FairCallSpec == CallSpec /\ Fairness

-----------------------------------------------------------------------------
\* Whatever copies the handlers act on, and however deliveries interleave, what
\* they do to the payments, the wallets and the outbox is what PaymentsService
\* could do acting on the rows: the snapshot's user, amount and bonus are never
\* out of date when a transition goes through.  So every top-up is what TopUps
\* promises its payer: its money comes once and whole, and is taken back at most
\* once, whole, from the same purse.
ActsOnTheRow == Spec /\ Promise!PromiseSpec

\* What others are told of a payment is true.  Its events are those of its
\* status, once each and in order; and a final answer that says money arrived or was given back is true, and stays
\* true: "OK" to Click's complete or Paynet's perform, "cancelled after it was
\* performed" to Payme or Paynet, and the refusal to cancel because the money is
\* already spent.
AnswersHold ==
    /\ EventsFollowStatus
    /\ call \in [Calls -> CallType]
    /\ \A c \in Calls : call[c].pc = "done" =>
         LET WasPaid(prov) == \E p \in Find(prov, Req(c).txn) : pay[p].performed
             TakenBack(prov) ==
               \E p \in Find(prov, Req(c).txn) :
                 pay[p].performed /\ pay[p].status = "CANCELLED"
             op == Req(c).op
         IN  /\ call[c].ans = "OK" =>
                  /\ op = "click.complete" => WasPaid("CLICK") /\ ~TakenBack("CLICK")
                  /\ op = "paynet.perform" => WasPaid("PAYNET")
             /\ call[c].ans = "REVERSED" =>
                  IF op = "paynet.cancel" THEN TakenBack("PAYNET") ELSE TakenBack("PAYME")
             /\ call[c].ans = "CANNOT_CANCEL" =>
                  IF op = "paynet.cancel" THEN WasPaid("PAYNET") ELSE WasPaid("PAYME")

\* No order stays open for ever: it is paid, cancelled by its provider, or
\* expired by the cron.
OpenOrdersClose ==
    \A p \in PaymentIds :
      pay[p].status \in Open ~> pay[p].status \in {"PAID", "CANCELLED"}
=============================================================================
