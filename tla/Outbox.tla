------------------------------- MODULE Outbox -------------------------------
(***************************************************************************)
(* The transactional outbox: OutBoxService.publish, OutboxRelayService and *)
(* withIdempotency.  An event is a row written in the transaction of the   *)
(* change it announces.  The relay takes the oldest undispatched rows in a *)
(* transaction of its own, hands each one to the in-process emitter, marks *)
(* it dispatched, and commits them together.                               *)
(*                                                                         *)
(* A handler runs on its own connection, outside the relay's transaction.  *)
(* The emitter is a library: it swallows what a handler throws, and it     *)
(* waits for a handler unless the handler was registered {async: true}, so *)
(* a detached handler may be still running when its event is dispatched.   *)
(*                                                                         *)
(* What a handler does between withIdempotency's check and its save is the *)
(* business of the module that extends this one.                           *)
(***************************************************************************)
EXTENDS Integers, Sequences, FiniteSets

CONSTANTS
    Runs,       \* handler executions the process has room for (a bound)
    Detached,   \* handlers registered with {async: true}
    BatchSize,  \* the relay's LIMIT
    MaxFaults   \* bound: statements that fail, relay rollbacks and crashes

ASSUME OutboxAssumption ==
    /\ IsFiniteSet(Runs)
    /\ BatchSize \in Nat \ {0} /\ MaxFaults \in Nat

VARIABLES
    outbox,     \* outbox_events, in the order they were committed
    order,      \* their ids by created_at, which is when their transaction began
    processed,  \* processed_events: <<event, handler>>
    relay,      \* the relay's transaction: open, and the rows still to emit
    run,        \* the handler executions in progress
    faults      \* how much has gone wrong so far

outboxVars == <<outbox, order, processed, relay, run, faults>>

EventIds == DOMAIN outbox

RunType(Events, Handlers) ==
    [pc : {"check", "work", "save"}, event : Events, handler : Handlers]

\* No handler here.
Free == [pc |-> "free"]

OutboxTypeOK(Names, Refs, Handlers) ==
    /\ outbox \in Seq([name : Names, ref : Refs, dispatched : BOOLEAN])
    /\ order \in Seq(EventIds)
    /\ processed \subseteq EventIds \X Handlers
    /\ relay \in [open : BOOLEAN, batch : SUBSET EventIds, todo : SUBSET EventIds]
    /\ run \in [Runs -> RunType(EventIds, Handlers) \union {Free}]
    /\ faults \in 0..MaxFaults

NoRelay == [open |-> FALSE, batch |-> {}, todo |-> {}]

OutboxInit ==
    /\ outbox = << >> /\ order = << >>
    /\ processed = {}
    /\ relay = NoRelay
    /\ run = [r \in Runs |-> Free]
    /\ faults = 0

-----------------------------------------------------------------------------
\* OutBoxService.publish, on the caller's transaction.  created_at is when that
\* transaction began: after the events that were already committed when the
\* caller had not begun it (the first `since`), and before or after the others.
Publish(name, ref, since) ==
    /\ outbox' = Append(outbox, [name |-> name, ref |-> ref, dispatched |-> FALSE])
    /\ \E k \in 1..Len(order) + 1 :
         /\ \A i \in k..Len(order) : order[i] > since
         /\ order' = SubSeq(order, 1, k - 1) \o <<Len(outbox) + 1>>
                     \o SubSeq(order, k, Len(order))

Undispatched == {e \in EventIds : ~outbox[e].dispatched}

\* created_at of e is earlier than f's.
Older(e, f) ==
    \E i, j \in DOMAIN order : order[i] = e /\ order[j] = f /\ i < j

\* ORDER BY created_at LIMIT BatchSize, of the undispatched rows.
NextBatch ==
    {e \in Undispatched :
       Cardinality({f \in Undispatched : Older(f, e)}) < BatchSize}

\* relay: nothing runs while `running` is set.
RelayBegin ==
    /\ ~relay.open /\ Undispatched # {}
    /\ relay' = [open |-> TRUE, batch |-> NextBatch, todo |-> NextBatch]
    /\ UNCHANGED <<outbox, order, processed, run, faults>>

\* The emitter is done with the previous event when every handler it waits
\* for has returned.
Awaited == {r \in Runs : run[r] # Free /\ run[r].handler \notin Detached}

FreeRuns == {r \in Runs : run[r] = Free}

\* emitAsync of the oldest row left: its handlers start, each at its check.
Emit(e, handlers) ==
    /\ relay.open /\ Awaited = {}
    /\ \A f \in relay.todo : ~Older(f, e)
    /\ Cardinality(FreeRuns) >= Cardinality(handlers)
    /\ LET place == CHOOSE f \in [handlers -> FreeRuns] :
                      \A h1, h2 \in handlers : f[h1] = f[h2] => h1 = h2
       IN  run' = [r \in Runs |->
                     IF \E h \in handlers : place[h] = r
                     THEN [pc |-> "check", event |-> e,
                           handler |-> CHOOSE h \in handlers : place[h] = r]
                     ELSE run[r]]
    /\ relay' = [relay EXCEPT !.todo = @ \ {e}]
    /\ UNCHANGED <<outbox, order, processed, faults>>

\* Faulty: the rows are left as they were.
FaultyRelayCommit ==
    /\ relay.open /\ relay.todo = {} /\ Awaited = {}
    /\ relay' = NoRelay
    /\ UNCHANGED <<outbox, order, processed, run, faults>>

\* Every row of the batch was emitted: the transaction that marked them
\* dispatched commits.
RelayCommit ==
    /\ relay.open /\ relay.todo = {} /\ Awaited = {}
    /\ outbox' = [e \in EventIds |->
                    IF e \in relay.batch THEN [outbox[e] EXCEPT !.dispatched = TRUE]
                    ELSE outbox[e]]
    /\ relay' = NoRelay
    /\ UNCHANGED <<order, processed, run, faults>>

\* The transaction fails after some of the batch was emitted: none of it is
\* dispatched, and the next tick emits it again.
RelayRollback ==
    /\ relay.open /\ Awaited = {} /\ faults < MaxFaults
    /\ relay' = NoRelay
    /\ faults' = faults + 1
    /\ UNCHANGED <<outbox, order, processed, run>>

-----------------------------------------------------------------------------
\* withIdempotency: an event this handler has already processed is skipped.
CheckProcessed(r) ==
    /\ run[r].pc = "check"
    /\ run' = [run EXCEPT ![r] =
                 IF <<@.event, @.handler>> \in processed THEN Free
                 ELSE [@ EXCEPT !.pc = "work"]]
    /\ UNCHANGED <<outbox, order, processed, relay, faults>>

\* The work is done: only then is the event recorded as processed.
SaveProcessed(r) ==
    /\ run[r].pc = "save"
    /\ processed' = processed \union {<<run[r].event, run[r].handler>>}
    /\ run' = [run EXCEPT ![r] = Free]
    /\ UNCHANGED <<outbox, order, relay, faults>>

\* The check's or the save's statement fails: the handler throws, and the
\* emitter swallows it.
IdempotencyFails(r) ==
    /\ run[r].pc \in {"check", "save"}
    /\ faults < MaxFaults
    /\ run' = [run EXCEPT ![r] = Free]
    /\ faults' = faults + 1
    /\ UNCHANGED <<outbox, order, processed, relay>>

\* A restart: the relay's transaction rolls back, and handlers are gone.
OutboxCrash ==
    /\ faults < MaxFaults
    /\ relay' = NoRelay
    /\ run' = [r \in Runs |-> Free]
    /\ faults' = faults + 1
    /\ UNCHANGED <<outbox, order, processed>>
=============================================================================
