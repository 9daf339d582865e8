------------------------------- MODULE Fiscal -------------------------------
(***************************************************************************)
(* What follows a paid top-up: BillingEventsListener, driven by the        *)
(* outbox, and the fiscal receipt that a Click payment owes.  The receipt  *)
(* is submitted by the listener or by ClickFiscalService's ten-minute      *)
(* cron; whichever gets there first claims it on the payment row, calls    *)
(* Click, and writes what Click answered.                                  *)
(*                                                                         *)
(* A call to Click can be accepted and its answer lost: `receipts` counts  *)
(* what Click holds, which this process does not see.                      *)
(***************************************************************************)
EXTENDS Outbox

CONSTANTS
    PaymentIds,
    ClickPayments,  \* those of provider CLICK; the others fiscalise themselves
    MaxAttempts     \* FISCAL_MAX_ATTEMPTS

ASSUME FiscalAssumption ==
    /\ ClickPayments \subseteq PaymentIds
    /\ MaxAttempts \in Nat \ {0}
    /\ "cron" \notin Runs

VARIABLES
    pay,       \* the fiscal columns of payments
    submit,    \* the calls of submit() in progress
    due,       \* the cron's list of receipts still owed
    receipts,  \* per payment, the receipts Click has accepted
    told       \* per payment, the TOPUP_SUCCEEDED rows in the payer's inbox

vars == <<outbox, order, processed, relay, run, faults, pay, submit, due, receipts, told>>

Handlers == {"billing.topup-notify", "billing.click-fiscal"}
FiscalStatus == {"NONE", "BY_PROVIDER", "PENDING", "SENDING", "SENT", "FAILED"}

\* submit() runs in a delivery of the paid event, or in the cron.
Submitters == Runs \union {"cron"}

\* `stale`: updated_at is more than FISCAL_CLAIM_STALE_MINUTES ago.
PayType ==
    [paid : BOOLEAN, doc : BOOLEAN, fiscal : FiscalStatus,
     attempts : 0..MaxAttempts, stale : BOOLEAN]
SubmitType ==
    [pc : {"idle"}] \union
    [pc : {"claim", "send", "accepted", "refused"}, id : PaymentIds]

TypeOK ==
    /\ OutboxTypeOK({"billing.payment.paid"}, PaymentIds, Handlers)
    /\ pay \in [PaymentIds -> PayType]
    /\ submit \in [Submitters -> SubmitType]
    /\ due \subseteq PaymentIds
    /\ receipts \in [PaymentIds -> Nat]
    /\ told \in [PaymentIds -> Nat]

NoSubmit == [pc |-> "idle"]

Init ==
    /\ OutboxInit
    /\ pay = [p \in PaymentIds |->
                [paid |-> FALSE, doc |-> FALSE, fiscal |-> "NONE", attempts |-> 0,
                 stale |-> FALSE]]
    /\ submit = [s \in Submitters |-> NoSubmit]
    /\ due = {}
    /\ receipts = [p \in PaymentIds |-> 0]
    /\ told = [p \in PaymentIds |-> 0]

-----------------------------------------------------------------------------
\* markPaid: the status, the credit and the event are one transaction.  Click
\* may or may not have named its document, which the receipt refers to.
MarkPaid(p) ==
    /\ ~pay[p].paid
    /\ \E doc \in IF p \in ClickPayments THEN BOOLEAN ELSE {FALSE} :
         pay' = [pay EXCEPT ![p].paid = TRUE, ![p].doc = doc,
                   ![p].fiscal = IF p \in ClickPayments THEN "PENDING" ELSE "BY_PROVIDER"]
    /\ Publish("billing.payment.paid", p, Len(outbox))
    /\ UNCHANGED <<processed, relay, run, faults, submit, due, receipts, told>>

\* onPaid returns at once, before withIdempotency, when Click is not the
\* provider; both handlers are registered for the one event.
HandlersOf(event) ==
    {"billing.topup-notify"} \union
    (IF event.ref \in ClickPayments THEN {"billing.click-fiscal"} ELSE {})

fiscalVars == <<pay, submit, due, receipts, told>>

RelayStep ==
    /\ \/ RelayBegin
       \/ \E e \in relay.todo : Emit(e, HandlersOf(outbox[e]))
       \/ RelayCommit
    /\ UNCHANGED fiscalVars

RelayFails == RelayRollback /\ UNCHANGED fiscalVars

Working(r, handler) == run[r].pc = "work" /\ run[r].handler = handler
PaymentOf(r) == outbox[run[r].event].ref
DoneWorking(r) == run' = [run EXCEPT ![r].pc = "save"]

\* onPaidNotify: one inbox row.  notify() catches its own errors, so when the
\* insert fails the delivery still goes on to be recorded as processed.
Notify(r) ==
    /\ Working(r, "billing.topup-notify")
    /\ \/ /\ told' = [told EXCEPT ![PaymentOf(r)] = @ + 1]
          /\ UNCHANGED faults
       \/ /\ faults < MaxFaults /\ faults' = faults + 1
          /\ UNCHANGED told
    /\ DoneWorking(r)
    /\ UNCHANGED <<outbox, order, processed, relay, pay, submit, due, receipts>>

\* onPaid: submitForPayment reads the payment, which is PAID by now, and
\* calls submit.
StartSubmit(r) ==
    /\ Working(r, "billing.click-fiscal") /\ submit[r].pc = "idle"
    /\ submit' = [submit EXCEPT ![r] = [pc |-> "claim", id |-> PaymentOf(r)]]
    /\ UNCHANGED <<outbox, order, processed, relay, run, faults, pay, due, receipts, told>>

HandlerStep(r) ==
    \/ CheckProcessed(r) /\ UNCHANGED fiscalVars
    \/ SaveProcessed(r) /\ UNCHANGED fiscalVars
    \/ Notify(r)
    \/ StartSubmit(r)

HandlerFails(r) == IdempotencyFails(r) /\ UNCHANGED fiscalVars

-----------------------------------------------------------------------------
\* The row is claimable: owed, or claimed by a submit that must have died.
Owed(p) ==
    /\ p \in ClickPayments /\ pay[p].paid
    /\ pay[p].fiscal = "PENDING" \/ (pay[p].fiscal = "SENDING" /\ pay[p].stale)

\* Faulty: only what was never claimed is retried.
FaultyRetryDue ==
    /\ due = {} /\ submit["cron"].pc = "idle"
    /\ due' = {p \in ClickPayments : Owed(p) /\ pay[p].fiscal = "PENDING"} /\ due' # {}
    /\ UNCHANGED <<outbox, order, processed, relay, run, faults, pay, submit, receipts, told>>

\* retryDue: the list is read once, then worked through.
RetryDue ==
    /\ due = {} /\ submit["cron"].pc = "idle"
    /\ due' = {p \in PaymentIds : Owed(p)} /\ due' # {}
    /\ UNCHANGED <<outbox, order, processed, relay, run, faults, pay, submit, receipts, told>>

RetryNext ==
    /\ submit["cron"].pc = "idle"
    /\ \E p \in due :
         /\ submit' = [submit EXCEPT !["cron"] = [pc |-> "claim", id |-> p]]
         /\ due' = due \ {p}
    /\ UNCHANGED <<outbox, order, processed, relay, run, faults, pay, receipts, told>>

\* submit() returned, or threw: the listener catches what it threw and goes on
\* to its save, the cron goes on to the next receipt.
Return(s) ==
    /\ submit' = [submit EXCEPT ![s] = NoSubmit]
    /\ IF s = "cron" THEN UNCHANGED run ELSE DoneWorking(s)

\* Faulty: a receipt being sent can be claimed.
FaultyClaimFiscal(s) ==
    /\ submit[s].pc = "claim"
    /\ LET p == submit[s].id IN
       /\ pay[p].paid /\ pay[p].fiscal \in {"PENDING", "SENDING"}
       /\ pay' = [pay EXCEPT ![p].fiscal = "SENDING", ![p].stale = FALSE]
       /\ submit' = [submit EXCEPT ![s].pc = IF pay[p].doc THEN "send" ELSE "refused"]
    /\ UNCHANGED <<outbox, order, processed, relay, run, faults, due, receipts, told>>

\* claimFiscal, one conditional UPDATE.  Without a document there is nothing to
\* send, and the claim is settled as a failed attempt.
ClaimFiscal(s) ==
    /\ submit[s].pc = "claim"
    /\ LET p == submit[s].id IN
       /\ Owed(p)
       /\ pay' = [pay EXCEPT ![p].fiscal = "SENDING", ![p].stale = FALSE]
       /\ submit' = [submit EXCEPT ![s].pc = IF pay[p].doc THEN "send" ELSE "refused"]
    /\ UNCHANGED <<outbox, order, processed, relay, run, faults, due, receipts, told>>

\* Somebody else has the receipt, or it is settled.
ClaimLost(s) ==
    /\ submit[s].pc = "claim" /\ ~Owed(submit[s].id)
    /\ Return(s)
    /\ UNCHANGED <<outbox, order, processed, relay, faults, pay, due, receipts, told>>

\* The call to Click, within its ten seconds: accepted and answered, accepted
\* and the answer lost, or refused or unreachable.
SendReceipt(s) ==
    /\ submit[s].pc = "send"
    /\ \E accepted, answered \in BOOLEAN :
         /\ receipts' = [receipts EXCEPT ![submit[s].id] = IF accepted THEN @ + 1 ELSE @]
         /\ submit' = [submit EXCEPT ![s].pc =
                         IF accepted /\ answered THEN "accepted" ELSE "refused"]
    /\ UNCHANGED <<outbox, order, processed, relay, run, faults, pay, due, told>>

\* Faulty: the attempt is not counted.
FaultySettled(row, ok) ==
    [row EXCEPT !.fiscal = IF ok THEN "SENT" ELSE "PENDING", !.stale = FALSE]

\* markFiscalResult's SET clause: updated_at is bumped with it.
Settled(row, ok) ==
    [row EXCEPT !.attempts = @ + 1,
                !.stale = FALSE,
                !.fiscal = IF ok THEN "SENT"
                           ELSE IF row.attempts + 1 >= MaxAttempts THEN "FAILED"
                           ELSE "PENDING"]

MarkFiscalResult(s) ==
    /\ submit[s].pc \in {"accepted", "refused"}
    /\ LET p == submit[s].id IN
       pay' = [pay EXCEPT ![p] = Settled(@, submit[s].pc = "accepted")]
    /\ Return(s)
    /\ UNCHANGED <<outbox, order, processed, relay, faults, due, receipts, told>>

SubmitStep(s) ==
    \/ ClaimFiscal(s)
    \/ ClaimLost(s)
    \/ SendReceipt(s)
    \/ MarkFiscalResult(s)

\* The claim's or the result's UPDATE fails: a claim already made is left in
\* SENDING.
SubmitFails(s) ==
    /\ submit[s].pc \in {"claim", "accepted", "refused"}
    /\ faults < MaxFaults /\ faults' = faults + 1
    /\ Return(s)
    /\ UNCHANGED <<outbox, order, processed, relay, pay, due, receipts, told>>

\* Fifteen minutes pass over a claim.  A submit() that is alive settles its
\* claim within seconds, so by then nobody holds it.
ClaimAges(p) ==
    /\ pay[p].fiscal = "SENDING" /\ ~pay[p].stale
    /\ \A s \in Submitters :
         submit[s].pc \in {"send", "accepted", "refused"} => submit[s].id # p
    /\ pay' = [pay EXCEPT ![p].stale = TRUE]
    /\ UNCHANGED <<outbox, order, processed, relay, run, faults, submit, due, receipts, told>>

\* The process restarts: the handlers, the cron and their calls are gone.
Crash ==
    /\ OutboxCrash
    /\ submit' = [s \in Submitters |-> NoSubmit]
    /\ due' = {}
    /\ UNCHANGED <<pay, receipts, told>>

Next ==
    \/ \E p \in PaymentIds : MarkPaid(p) \/ ClaimAges(p)
    \/ RelayStep \/ RelayFails
    \/ \E r \in Runs : HandlerStep(r) \/ HandlerFails(r)
    \/ RetryDue \/ RetryNext
    \/ \E s \in Submitters : SubmitStep(s) \/ SubmitFails(s)
    \/ Crash

Spec == Init /\ [][Next]_vars

\* The two crons tick for ever (@Cron), every promise the process awaits is
\* settled (the call to Click by its ten-second timeout), and time passes over
\* an abandoned claim.  Nothing is assumed of payments, faults or crashes.
FairSpec ==
    /\ Spec
    /\ WF_vars(RelayStep)
    /\ \A r \in Runs : WF_vars(HandlerStep(r))
    /\ WF_vars(RetryDue) /\ WF_vars(RetryNext)
    /\ \A s \in Submitters : WF_vars(SubmitStep(s))
    /\ \A p \in PaymentIds : WF_vars(ClaimAges(p))

-----------------------------------------------------------------------------
(* Properties *)

Holds(s, p) == submit[s].pc \in {"send", "accepted", "refused"} /\ submit[s].id = p

\* One submitter at a time has a receipt in hand, and while it does the row
\* says so (claimFiscal: "exactly one caller wins"), however the listener's
\* deliveries, the cron's old list and a dead submitter's claim interleave.
OneSubmitter ==
    \A p \in PaymentIds :
      /\ Cardinality({s \in Submitters : Holds(s, p)}) <= 1
      /\ (\E s \in Submitters : Holds(s, p)) => pay[p].fiscal = "SENDING"

\* The row does not lie about Click: a receipt marked SENT is one that Click
\* has, a receipt given up was tried MaxAttempts times, and Click holds no more
\* copies of a receipt than attempts that were counted, the one under way, and
\* the attempts a fault or a crash kept from being counted.
ReceiptsAccounted ==
    \A p \in ClickPayments :
      /\ pay[p].fiscal = "SENT" => receipts[p] >= 1
      /\ pay[p].fiscal = "FAILED" => pay[p].attempts = MaxAttempts
      /\ receipts[p] <= pay[p].attempts + faults
                        + Cardinality({s \in Submitters : Holds(s, p)})

\* Settled is final: no late submitter takes a receipt back from SENT, or
\* from FAILED, where a person is to look at it.
SettledStays ==
    [][\A p \in PaymentIds :
         pay[p].fiscal \in {"SENT", "FAILED"} => pay'[p] = pay[p]]_vars

\* billing-events.listener.ts:35-37 -- a fiscal retry does not notify the payer
\* again: only a fault or a crash can cost a second notification.
RetryDoesNotRenotify ==
    \A p \in PaymentIds : told[p] <= 1 + faults

\* billing-events.listener.ts:16 -- a fiscal failure is "never lost": whatever
\* becomes of the event's delivery, each receipt owed is sent or given up.
ReceiptsSettle ==
    \A p \in ClickPayments :
      pay[p].paid ~> pay[p].fiscal \in {"SENT", "FAILED"}
=============================================================================
