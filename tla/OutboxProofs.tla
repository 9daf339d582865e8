---------------------------- MODULE OutboxProofs ----------------------------
(***************************************************************************)
(* What holds of the outbox and of Fiscal on top of it, for any number of  *)
(* payments, deliveries, attempts and faults.  The outbox first, for       *)
(* whichever events, payloads and handlers a module gives it: the tables,  *)
(* the relay and the handlers' executions stay well formed, and a delivery *)
(* starts in a free place.  Then Fiscal: a receipt has one submitter at a  *)
(* time, what Click was sent is accounted for, and a settled receipt stays *)
(* settled.                                                                *)
(***************************************************************************)
EXTENDS Fiscal, Listings, FiniteSetTheorems, SequenceTheorems, TLAPS

-----------------------------------------------------------------------------
(* The outbox. *)

\* publish inserts one row, somewhere in the order of created_at.
LEMMA PublishType ==
    ASSUME NEW Titles, NEW Refs, NEW Listeners, OutboxTypeOK(Titles, Refs, Listeners),
           NEW name \in Titles, NEW ref \in Refs, NEW since, Publish(name, ref, since),
           UNCHANGED <<processed, relay, run, faults>>
    PROVE  OutboxTypeOK(Titles, Refs, Listeners)'
<1> DEFINE Rows == [name : Titles, ref : Refs, dispatched : BOOLEAN]
           n    == Len(outbox)
           m    == Len(order)
<1>1. /\ outbox \in Seq(Rows) /\ n \in Nat /\ EventIds = 1..n
      /\ order \in Seq(EventIds) /\ m \in Nat
  BY DEF OutboxTypeOK, EventIds
<1>2. /\ outbox' \in Seq(Rows) /\ EventIds' = 1..(n + 1)
      /\ EventIds \subseteq EventIds'
  <2>1. outbox' = Append(outbox, [name |-> name, ref |-> ref, dispatched |-> FALSE])
    BY DEF Publish
  <2> QED
    BY <1>1, <2>1 DEF EventIds
<1>3. order' \in Seq(EventIds')
  <2>1. PICK k \in 1..(m + 1) :
          order' = SubSeq(order, 1, k - 1) \o <<n + 1>> \o SubSeq(order, k, m)
    BY DEF Publish
  <2>2. \A i \in 1..m : order[i] \in EventIds'
    BY <1>1, <1>2
  <2>3. SubSeq(order, 1, k - 1) \in Seq(EventIds')
    <3>1. \A i \in 1..(k - 1) : order[i] \in EventIds'
      BY <1>1, <2>2
    <3> QED
      BY <1>1, <3>1, SubSeqProperties
  <2>4. SubSeq(order, k, m) \in Seq(EventIds')
    <3>1. \A i \in k..m : order[i] \in EventIds'
      BY <1>1, <2>2
    <3> QED
      BY <1>1, <3>1, SubSeqProperties
  <2>5. <<n + 1>> \in Seq(EventIds')
    BY <1>1, <1>2
  <2> QED
    BY <2>1, <2>3, <2>4, <2>5, ConcatProperties
<1>4. /\ processed' \subseteq EventIds' \X Listeners
      /\ relay' \in [open : BOOLEAN, batch : SUBSET EventIds', todo : SUBSET EventIds']
      /\ run' \in [Runs -> RunType(EventIds', Listeners) \union {Free}]
      /\ faults' \in 0..MaxFaults
  BY <1>2 DEF OutboxTypeOK, RunType
<1> QED
  BY <1>2, <1>3, <1>4 DEF OutboxTypeOK

\* There are enough free places for a delivery, one for each handler.
LEMMA PlacesExist ==
    ASSUME NEW S, NEW T, IsFiniteSet(S), IsFiniteSet(T), Cardinality(T) >= Cardinality(S)
    PROVE  \E f \in [S -> T] : \A x, y \in S : f[x] = f[y] => x = y
<1> DEFINE n == Cardinality(S)
           m == Cardinality(T)
<1>1. n \in Nat /\ m \in Nat /\ ExistsBijection(1..n, S) /\ ExistsBijection(1..m, T)
  BY FS_CardinalityType
<1>2. PICK b \in Bijection(1..n, S) : TRUE
  BY <1>1 DEF ExistsBijection
<1>3. PICK c \in Bijection(1..m, T) : TRUE
  BY <1>1 DEF ExistsBijection
<1>4. \A x \in S : \E k \in 1..n : b[k] = x
  BY <1>2 DEF Bijection, Surjection
<1>5. c \in [1..m -> T] /\ \A j, k \in 1..m : c[j] = c[k] => j = k
  BY <1>3 DEF Bijection, Injection, IsInjective
<1> DEFINE at(x) == CHOOSE k \in 1..n : b[k] = x
           f     == [x \in S |-> c[at(x)]]
<1>6. \A x \in S : at(x) \in 1..n /\ b[at(x)] = x
  BY <1>4
<1>7. \A x \in S : at(x) \in 1..m
  BY <1>1, <1>6
<1>8. f \in [S -> T]
  BY <1>5, <1>7
<1>9. ASSUME NEW x \in S, NEW y \in S, f[x] = f[y] PROVE x = y
  BY <1>5, <1>6, <1>7, <1>9
<1> QED
  BY <1>8, <1>9

\* The relay begins, commits and rolls back without touching a delivery.
LEMMA RelayType ==
    ASSUME NEW Titles, NEW Refs, NEW Listeners, OutboxTypeOK(Titles, Refs, Listeners),
           RelayBegin \/ RelayCommit \/ RelayRollback
    PROVE  OutboxTypeOK(Titles, Refs, Listeners)' /\ run' = run
<1> DEFINE Rows == [name : Titles, ref : Refs, dispatched : BOOLEAN]
<1>1. /\ outbox \in Seq(Rows) /\ Len(outbox) \in Nat /\ EventIds = 1..Len(outbox)
      /\ MaxFaults \in Nat /\ faults \in 0..MaxFaults
  BY OutboxAssumption DEF OutboxTypeOK, EventIds
<1>2. outbox' \in Seq(Rows) /\ EventIds' = EventIds
  <2>1. CASE outbox' = outbox
    BY <1>1, <2>1 DEF EventIds
  <2>2. CASE RelayCommit
    <3>1. \A row \in Rows : [row EXCEPT !.dispatched = TRUE] \in Rows
      OBVIOUS
    <3> HIDE DEF Rows
    <3>2. \A e \in EventIds : outbox[e] \in Rows
      BY <1>1
    <3>3. outbox' = [e \in EventIds |->
                      IF e \in relay.batch THEN [outbox[e] EXCEPT !.dispatched = TRUE]
                      ELSE outbox[e]]
      BY <2>2 DEF RelayCommit
    <3>4. outbox' \in [1..Len(outbox) -> Rows]
      BY <1>1, <3>1, <3>2, <3>3
    <3> QED
      BY <1>1, <3>4 DEF EventIds
  <2> QED
    BY <2>1, <2>2 DEF RelayBegin, RelayRollback
<1>3. relay' \in [open : BOOLEAN, batch : SUBSET EventIds, todo : SUBSET EventIds]
  <2>1. NextBatch \subseteq EventIds
    BY DEF NextBatch, Undispatched
  <2>2. relay' \in {[open |-> TRUE, batch |-> NextBatch, todo |-> NextBatch], NoRelay}
    BY DEF RelayBegin, RelayCommit, RelayRollback
  <2>3. CASE relay' = [open |-> TRUE, batch |-> NextBatch, todo |-> NextBatch]
    BY <2>1, <2>3
  <2>4. CASE relay' = NoRelay
    BY <2>4 DEF NoRelay
  <2> QED
    BY <2>2, <2>3, <2>4
<1>4. faults' \in 0..MaxFaults
  BY <1>1 DEF RelayBegin, RelayCommit, RelayRollback
<1>5. order' = order /\ processed' = processed /\ run' = run
  BY DEF RelayBegin, RelayCommit, RelayRollback
<1> QED
  BY <1>2, <1>3, <1>4, <1>5 DEF OutboxTypeOK

\* An event is handed to its handlers: each starts at its check, in a place that
\* was free.
LEMMA EmitType ==
    ASSUME NEW Titles, NEW Refs, NEW Listeners, OutboxTypeOK(Titles, Refs, Listeners),
           NEW e \in relay.todo, NEW handlers \in SUBSET Listeners, IsFiniteSet(handlers),
           Emit(e, handlers)
    PROVE  /\ OutboxTypeOK(Titles, Refs, Listeners)'
           /\ \A r \in Runs : run[r] # Free => run'[r] = run[r]
           /\ \E f \in [handlers -> Runs] :
                /\ \A h \in handlers :
                     run'[f[h]] = [pc |-> "check", event |-> e, handler |-> h]
                /\ \A r \in Runs : run'[r] = run[r] \/ \E h \in handlers : r = f[h]
<1> DEFINE Ok(f) == f \in [handlers -> FreeRuns]
                      /\ \A x, y \in handlers : f[x] = f[y] => x = y
           place == CHOOSE f \in [handlers -> FreeRuns] :
                      \A x, y \in handlers : f[x] = f[y] => x = y
<1>1. IsFiniteSet(FreeRuns)
  BY OutboxAssumption, FS_Subset DEF FreeRuns
<1>2. Cardinality(FreeRuns) >= Cardinality(handlers)
  BY DEF Emit
<1>3. \E f \in [handlers -> FreeRuns] : \A x, y \in handlers : f[x] = f[y] => x = y
  BY <1>1, <1>2, PlacesExist
<1>4. /\ place \in [handlers -> FreeRuns]
      /\ \A x, y \in handlers : place[x] = place[y] => x = y
  BY <1>3
<1>5. \A h \in handlers : place[h] \in Runs /\ run[place[h]] = Free
  BY <1>4 DEF FreeRuns
<1>6. e \in EventIds /\ relay.todo \subseteq EventIds
  BY DEF OutboxTypeOK
<1>7. run' = [r \in Runs |->
                IF \E h \in handlers : place[h] = r
                THEN [pc |-> "check", event |-> e,
                      handler |-> CHOOSE h \in handlers : place[h] = r]
                ELSE run[r]]
  BY DEF Emit
<1> HIDE DEF place
<1>8. \A r \in Runs : (\E h \in handlers : place[h] = r) =>
        (CHOOSE h \in handlers : place[h] = r) \in Listeners
  OBVIOUS
<1>9. run' \in [Runs -> RunType(EventIds, Listeners) \union {Free}]
  BY <1>6, <1>7, <1>8 DEF OutboxTypeOK, RunType
<1>10. \A r \in Runs : run[r] # Free => run'[r] = run[r]
  BY <1>5, <1>7
<1>11. /\ relay' \in [open : BOOLEAN, batch : SUBSET EventIds, todo : SUBSET EventIds]
       /\ UNCHANGED <<outbox, order, processed, faults>>
  BY DEF Emit, OutboxTypeOK
<1>12. \A h \in handlers :
         run'[place[h]] = [pc |-> "check", event |-> e, handler |-> h]
  <2> TAKE h \in handlers
  <2>1. (CHOOSE k \in handlers : place[k] = place[h]) = h
    BY <1>4
  <2> QED
    BY <1>5, <1>7, <2>1
<1>13. \A r \in Runs : run'[r] = run[r] \/ \E h \in handlers : r = place[h]
  BY <1>7
<1>14. place \in [handlers -> Runs]
  BY <1>4 DEF FreeRuns
<1>15. OutboxTypeOK(Titles, Refs, Listeners)'
  BY <1>9, <1>11 DEF OutboxTypeOK, EventIds
<1> QED
  BY <1>10, <1>12, <1>13, <1>14, <1>15

\* withIdempotency moves one execution, and only from its check or its save.
LEMMA IdempotencyType ==
    ASSUME NEW Titles, NEW Refs, NEW Listeners, OutboxTypeOK(Titles, Refs, Listeners),
           NEW r \in Runs,
           CheckProcessed(r) \/ SaveProcessed(r) \/ IdempotencyFails(r)
    PROVE  /\ OutboxTypeOK(Titles, Refs, Listeners)'
           /\ run[r].pc \in {"check", "save"}
           /\ \A q \in Runs : q # r => run'[q] = run[q]
<1>1. /\ run \in [Runs -> RunType(EventIds, Listeners) \union {Free}]
      /\ faults \in 0..MaxFaults /\ MaxFaults \in Nat
      /\ processed \subseteq EventIds \X Listeners
  BY OutboxAssumption DEF OutboxTypeOK
<1>2. run[r].pc \in {"check", "save"} /\ run[r] # Free
  BY DEF CheckProcessed, SaveProcessed, IdempotencyFails, Free
<1>3. run[r] \in RunType(EventIds, Listeners)
  BY <1>1, <1>2
<1>4. [run[r] EXCEPT !.pc = "work"] \in RunType(EventIds, Listeners)
  BY <1>3 DEF RunType
<1>5. PICK to \in RunType(EventIds, Listeners) \union {Free} :
        run' = [run EXCEPT ![r] = to]
  BY <1>1, <1>4 DEF CheckProcessed, SaveProcessed, IdempotencyFails
<1>6. /\ run' \in [Runs -> RunType(EventIds, Listeners) \union {Free}]
      /\ \A q \in Runs : q # r => run'[q] = run[q]
  BY <1>1, <1>5
<1>7. processed' \subseteq EventIds \X Listeners
  BY <1>1, <1>3 DEF CheckProcessed, SaveProcessed, IdempotencyFails, RunType
<1>8. faults' \in 0..MaxFaults
  BY <1>1 DEF CheckProcessed, SaveProcessed, IdempotencyFails
<1>9. UNCHANGED <<outbox, order, relay>>
  BY DEF CheckProcessed, SaveProcessed, IdempotencyFails
<1> QED
  BY <1>2, <1>6, <1>7, <1>8, <1>9 DEF OutboxTypeOK, EventIds

\* A restart frees every place.
LEMMA CrashType ==
    ASSUME NEW Titles, NEW Refs, NEW Listeners, OutboxTypeOK(Titles, Refs, Listeners),
           OutboxCrash
    PROVE  OutboxTypeOK(Titles, Refs, Listeners)'
BY OutboxAssumption DEF OutboxTypeOK, OutboxCrash, NoRelay, EventIds

-----------------------------------------------------------------------------
(* Fiscal. *)

Names == {"billing.payment.paid"}
RowsOk == OutboxTypeOK(Names, PaymentIds, Handlers)

-----------------------------------------------------------------------------
(* The inductive invariant. *)

\* A listener's submit() runs inside its delivery.
Delivering ==
    \A r \in Runs : submit[r].pc # "idle" =>
      run[r].pc = "work" /\ run[r].handler = "billing.click-fiscal"

\* Whoever is past its claim holds a row that says so and is not stale, and is
\* the only one.
Claimed(p) ==
    /\ \A s \in Submitters :
         Holds(s, p) => pay[p].fiscal = "SENDING" /\ ~pay[p].stale
    /\ \A s, t \in Submitters : Holds(s, p) /\ Holds(t, p) => s = t

\* An unpaid payment owes no receipt; one that can be tried again has tries
\* left; one given up has none.
Tried(p) ==
    /\ ~pay[p].paid => pay[p].fiscal = "NONE"
    /\ pay[p].fiscal \in {"NONE", "PENDING", "SENDING"} => pay[p].attempts < MaxAttempts
    /\ pay[p].fiscal = "FAILED" => pay[p].attempts = MaxAttempts

\* Click holds at most one copy per attempt counted or lost to a fault, and one
\* more once the attempt under way has reached it.
Copies(p) ==
    /\ pay[p].fiscal = "SENT" => receipts[p] >= 1
    /\ \A s \in Submitters :
         Holds(s, p) /\ submit[s].pc = "accepted" => receipts[p] >= 1
    /\ receipts[p] <= pay[p].attempts + faults + 1
    /\ (\A s \in Submitters : Holds(s, p) => submit[s].pc = "send") =>
         receipts[p] <= pay[p].attempts + faults

Accounted(p) == Claimed(p) /\ Tried(p) /\ Copies(p)

Inv == TypeOK /\ Delivering /\ \A p \in PaymentIds : Accounted(p)

-----------------------------------------------------------------------------
(* What a step does to one payment. *)

\* The types, unfolded.
LEMMA Types ==
    ASSUME TypeOK
    PROVE  /\ RowsOk
           /\ run \in [Runs -> RunType(EventIds, Handlers) \union {Free}]
           /\ faults \in Nat /\ faults <= MaxFaults /\ MaxFaults \in Nat
           /\ MaxAttempts \in Nat \ {0}
           /\ pay \in [PaymentIds -> PayType]
           /\ submit \in [Submitters -> SubmitType]
           /\ receipts \in [PaymentIds -> Nat]
           /\ Runs \subseteq Submitters /\ "cron" \in Submitters /\ "cron" \notin Runs
           /\ \A p \in PaymentIds : pay[p].attempts \in Nat /\ receipts[p] \in Nat
BY OutboxAssumption, FiscalAssumption
   DEF TypeOK, RowsOk, Names, OutboxTypeOK, Submitters, PayType

\* A payment that a step leaves alone stays accounted for, if its submitters
\* go on, or are lost to a fault.
LEMMA Kept ==
    ASSUME TypeOK, TypeOK', NEW q \in PaymentIds, Accounted(q),
           pay'[q] = pay[q], receipts'[q] = receipts[q], faults' >= faults,
           \A s \in Submitters : Holds(s, q)' => submit'[s] = submit[s],
           \/ faults' >= faults + 1
           \/ \A s \in Submitters : Holds(s, q) => submit'[s] = submit[s]
    PROVE  Accounted(q)'
<1>1. /\ faults \in Nat /\ faults' \in Nat
      /\ pay[q].attempts \in Nat /\ receipts[q] \in Nat
  BY Types DEF TypeOK, OutboxTypeOK
<1>2. \A s \in Submitters : Holds(s, q)' => Holds(s, q)
  BY DEF Holds
<1>3. Claimed(q)'
  BY <1>2 DEF Accounted, Claimed
<1>4. Tried(q)'
  BY DEF Accounted, Tried
<1>5. Copies(q)'
  <2>1. /\ pay'[q].fiscal = "SENT" => receipts'[q] >= 1
        /\ \A s \in Submitters :
             Holds(s, q)' /\ submit'[s].pc = "accepted" => receipts'[q] >= 1
        /\ receipts'[q] <= pay'[q].attempts + faults' + 1
    BY <1>1, <1>2 DEF Accounted, Copies
  <2>2. ASSUME \A s \in Submitters : Holds(s, q)' => submit'[s].pc = "send"
        PROVE  receipts'[q] <= pay'[q].attempts + faults'
    <3>1. CASE faults' >= faults + 1
      BY <1>1, <3>1 DEF Accounted, Copies
    <3>2. CASE \A s \in Submitters : Holds(s, q) => submit'[s] = submit[s]
      <4>1. \A s \in Submitters : Holds(s, q) => submit[s].pc = "send"
        BY <2>2, <3>2 DEF Holds
      <4> QED
        BY <1>1, <4>1 DEF Accounted, Copies
    <3> QED
      BY <3>1, <3>2
  <2> QED
    BY <2>1, <2>2 DEF Copies
<1> QED
  BY <1>3, <1>4, <1>5 DEF Accounted

\* A payment in nobody's hand is accounted for by its row.
LEMMA Unheld ==
    ASSUME NEW p \in PaymentIds, \A s \in Submitters : ~Holds(s, p)',
           faults' \in Nat, pay'[p].attempts \in Nat, receipts'[p] \in Nat,
           Tried(p)', pay'[p].fiscal = "SENT" => receipts'[p] >= 1,
           receipts'[p] <= pay'[p].attempts + faults'
    PROVE  Accounted(p)'
<1>1. Claimed(p)'
  BY DEF Claimed
<1>2. Copies(p)'
  BY DEF Copies
<1> QED
  BY <1>1, <1>2 DEF Accounted

\* A payment in one submitter's hand is accounted for by its row and by how far
\* that one has got.
LEMMA HeldByOne ==
    ASSUME NEW p \in PaymentIds, NEW s \in Submitters,
           Holds(s, p)', \A t \in Submitters : Holds(t, p)' => t = s,
           pay'[p].fiscal = "SENDING", ~pay'[p].stale, Tried(p)',
           submit'[s].pc = "accepted" => receipts'[p] >= 1,
           receipts'[p] <= pay'[p].attempts + faults' + 1,
           submit'[s].pc = "send" => receipts'[p] <= pay'[p].attempts + faults'
    PROVE  Accounted(p)'
<1>1. Claimed(p)'
  BY DEF Claimed
<1>2. Copies(p)'
  BY DEF Copies
<1> QED
  BY <1>1, <1>2 DEF Accounted

\* Steps of the outbox and of the notification touch no receipt.
LEMMA NoReceipt ==
    ASSUME Inv, TypeOK', Delivering', pay' = pay, receipts' = receipts,
           faults' >= faults,
           \A s \in Submitters :
             \/ submit'[s] = submit[s]
             \/ submit[s].pc \in {"idle", "claim"} /\ submit'[s].pc \in {"idle", "claim"}
    PROVE  Inv'
<1>1. ASSUME NEW q \in PaymentIds PROVE Accounted(q)'
  <2>1. \A s \in Submitters :
          /\ Holds(s, q)' => submit'[s] = submit[s]
          /\ Holds(s, q) => submit'[s] = submit[s]
    BY DEF Holds
  <2> QED
    BY <2>1, Kept DEF Inv
<1> QED
  BY <1>1 DEF Inv

-----------------------------------------------------------------------------
(* Every step preserves it. *)

\* Nothing was paid, nothing is under way.
LEMMA InitInv == Init => Inv
<1> SUFFICES ASSUME Init PROVE Inv
  OBVIOUS
<1>1. RowsOk
  BY OutboxAssumption, EmptySeq
     DEF Init, OutboxInit, RowsOk, OutboxTypeOK, NoRelay, EventIds
<1>2. \A p \in PaymentIds :
        /\ pay[p] \in PayType /\ pay[p].fiscal = "NONE" /\ pay[p].attempts = 0
        /\ receipts[p] = 0
  BY FiscalAssumption DEF Init, PayType, FiscalStatus
<1>3. TypeOK
  BY <1>1, <1>2 DEF Init, TypeOK, RowsOk, Names, NoSubmit, SubmitType
<1>4. \A s \in Submitters : submit[s].pc = "idle"
  BY DEF Init, NoSubmit
<1>5. Delivering
  BY <1>4 DEF Delivering, Submitters
<1>6. faults = 0
  BY DEF Init, OutboxInit
<1>7. \A p \in PaymentIds : Accounted(p)
  BY <1>2, <1>4, <1>6, FiscalAssumption DEF Accounted, Claimed, Tried, Copies, Holds
<1> QED
  BY <1>3, <1>5, <1>7 DEF Inv

\* The relay and withIdempotency move deliveries that have no submit() inside.
LEMMA DeliveryInv ==
    ASSUME Inv,
           \/ RelayStep \/ RelayFails
           \/ \E r \in Runs : \/ CheckProcessed(r) /\ UNCHANGED fiscalVars
                              \/ SaveProcessed(r) /\ UNCHANGED fiscalVars
                              \/ HandlerFails(r)
    PROVE  Inv'
<1>1. TypeOK /\ RowsOk /\ UNCHANGED fiscalVars
  BY Types DEF Inv, RelayStep, RelayFails, HandlerFails
<1>2. /\ RowsOk' /\ faults' >= faults
      /\ \A r \in Runs : run[r].pc = "work" => run'[r] = run[r]
  <2>1. faults \in Nat
    BY <1>1, Types
  <2>2. CASE RelayBegin \/ RelayCommit \/ RelayRollback
    BY <1>1, <2>1, <2>2, RelayType DEF RowsOk, RelayBegin, RelayCommit, RelayRollback
  <2>3. ASSUME NEW e \in relay.todo, Emit(e, HandlersOf(outbox[e]))
        PROVE  /\ RowsOk' /\ faults' >= faults
               /\ \A r \in Runs : run[r].pc = "work" => run'[r] = run[r]
    <3>1. HandlersOf(outbox[e]) \in SUBSET Handlers /\ IsFiniteSet(Handlers)
      <4>1. IsFiniteSet({"billing.topup-notify"} \union {"billing.click-fiscal"})
        BY FS_Singleton, FS_AddElement
      <4>2. Handlers = {"billing.topup-notify"} \union {"billing.click-fiscal"}
        BY DEF Handlers
      <4> QED
        BY <4>1, <4>2 DEF HandlersOf
    <3>2. IsFiniteSet(HandlersOf(outbox[e]))
      BY <3>1, FS_Subset
    <3>3. RowsOk' /\ \A r \in Runs : run[r] # Free => run'[r] = run[r]
      BY <1>1, <2>3, <3>1, <3>2, EmitType DEF RowsOk
    <3>4. faults' = faults
      BY <2>3 DEF Emit
    <3> QED
      BY <2>1, <3>3, <3>4 DEF Free
  <2>4. ASSUME NEW r \in Runs,
               CheckProcessed(r) \/ SaveProcessed(r) \/ IdempotencyFails(r)
        PROVE  /\ RowsOk' /\ faults' >= faults
               /\ \A q \in Runs : run[q].pc = "work" => run'[q] = run[q]
    <3>1. /\ RowsOk' /\ run[r].pc \in {"check", "save"}
          /\ \A q \in Runs : q # r => run'[q] = run[q]
      BY <1>1, <2>4, IdempotencyType DEF RowsOk
    <3>2. faults' >= faults
      BY <2>1, <2>4 DEF CheckProcessed, SaveProcessed, IdempotencyFails
    <3> QED
      BY <3>1, <3>2
  <2> QED
    BY <2>2, <2>3, <2>4 DEF RelayStep, RelayFails, HandlerFails
<1>3. TypeOK'
  BY <1>1, <1>2 DEF TypeOK, RowsOk, Names, fiscalVars
<1>4. Delivering'
  BY <1>1, <1>2 DEF Inv, Delivering, fiscalVars
<1>5. pay' = pay /\ receipts' = receipts /\ submit' = submit
  BY <1>1 DEF fiscalVars
<1>6. \A s \in Submitters : submit'[s] = submit[s]
  BY <1>5
<1> QED
  BY <1>2, <1>3, <1>4, <1>5, <1>6, NoReceipt

\* A delivery that is working goes on to its save.
LEMMA DoneWorkingType ==
    ASSUME TypeOK, NEW r \in Runs, run[r].pc = "work", DoneWorking(r)
    PROVE  /\ run' \in [Runs -> RunType(EventIds, Handlers) \union {Free}]
           /\ \A q \in Runs : q # r => run'[q] = run[q]
<1>1. run \in [Runs -> RunType(EventIds, Handlers) \union {Free}]
  BY Types
<1>2. run[r] \in RunType(EventIds, Handlers)
  BY <1>1 DEF Free
<1>3. [run[r] EXCEPT !.pc = "save"] \in RunType(EventIds, Handlers)
  BY <1>2 DEF RunType
<1>4. run' = [run EXCEPT ![r] = [run[r] EXCEPT !.pc = "save"]]
  BY <1>1 DEF DoneWorking
<1> QED
  BY <1>1, <1>3, <1>4

\* The notification is a delivery of its own, and the receipt's begins.
LEMMA HandlerInv ==
    ASSUME Inv, NEW r \in Runs, Notify(r) \/ StartSubmit(r)
    PROVE  Inv'
<1>1. TypeOK /\ RowsOk
  BY Types DEF Inv
<1>2. run[r].pc = "work" /\ r \in Submitters
  BY DEF Notify, StartSubmit, Working, Submitters
<1>3. CASE Notify(r)
  <2>1. /\ UNCHANGED <<outbox, order, processed, relay, pay, submit, due, receipts>>
        /\ DoneWorking(r) /\ run[r].handler = "billing.topup-notify"
    BY <1>3 DEF Notify, Working
  <2>2. faults' >= faults /\ faults' \in 0..MaxFaults
    BY <1>1, <1>3, Types DEF Notify
  <2>3. told' \in [PaymentIds -> Nat]
    BY <1>1, <1>3 DEF Notify, TypeOK
  <2>4. /\ run' \in [Runs -> RunType(EventIds, Handlers) \union {Free}]
        /\ \A q \in Runs : q # r => run'[q] = run[q]
    BY <1>1, <1>2, <2>1, DoneWorkingType
  <2>5. RowsOk'
    BY <1>1, <2>1, <2>2, <2>4 DEF RowsOk, OutboxTypeOK, EventIds
  <2>6. TypeOK'
    BY <1>1, <2>1, <2>3, <2>5 DEF TypeOK, RowsOk, Names
  <2>7. Delivering'
    <3>1. submit[r].pc = "idle"
      BY <2>1 DEF Inv, Delivering
    <3> QED
      BY <2>1, <2>4, <3>1 DEF Inv, Delivering
  <2>8. pay' = pay /\ receipts' = receipts /\ submit' = submit
    BY <2>1
  <2>9. \A s \in Submitters : submit'[s] = submit[s]
    BY <2>8
  <2> QED
    BY <2>2, <2>6, <2>7, <2>8, <2>9, NoReceipt
<1>4. CASE StartSubmit(r)
  <2> DEFINE call == [pc |-> "claim", id |-> PaymentOf(r)]
  <2>1. /\ submit' = [submit EXCEPT ![r] = call]
        /\ UNCHANGED <<outbox, order, processed, relay, run, faults, pay, due, receipts, told>>
        /\ submit[r].pc = "idle" /\ run[r].handler = "billing.click-fiscal"
    BY <1>4 DEF StartSubmit, Working
  <2>2. PaymentOf(r) \in PaymentIds
    <3>1. run[r] \in RunType(EventIds, Handlers)
      BY <1>1, <1>2, Types DEF Free
    <3>2. run[r].event \in EventIds
      BY <3>1 DEF RunType
    <3> DEFINE Rows == [name : Names, ref : PaymentIds, dispatched : BOOLEAN]
    <3>3. outbox \in Seq(Rows)
      BY <1>1 DEF RowsOk, OutboxTypeOK
    <3>4. \A row \in Rows : row.ref \in PaymentIds
      OBVIOUS
    <3> HIDE DEF Rows
    <3>5. outbox[run[r].event] \in Rows
      BY <3>2, <3>3 DEF EventIds
    <3> QED
      BY <3>4, <3>5 DEF PaymentOf
  <2>3. /\ submit' \in [Submitters -> SubmitType]
        /\ submit'[r].pc = "claim"
        /\ \A t \in Submitters : t # r => submit'[t] = submit[t]
    BY <1>1, <1>2, <2>1, <2>2 DEF TypeOK, SubmitType
  <2>4. RowsOk'
    BY <1>1, <2>1 DEF RowsOk, OutboxTypeOK, EventIds
  <2>5. TypeOK'
    BY <1>1, <2>1, <2>3, <2>4 DEF TypeOK, RowsOk, Names
  <2>6. Delivering'
    BY <1>2, <2>1, <2>3, Types DEF Inv, Delivering
  <2>7. faults' >= faults
    BY <1>1, <2>1, Types
  <2>8. pay' = pay /\ receipts' = receipts
    BY <2>1
  <2>9. \A s \in Submitters :
          \/ submit'[s] = submit[s]
          \/ submit[s].pc \in {"idle", "claim"} /\ submit'[s].pc \in {"idle", "claim"}
    BY <2>1, <2>3
  <2> QED
    BY <2>5, <2>6, <2>7, <2>8, <2>9, NoReceipt
<1> QED
  BY <1>3, <1>4

\* submit() returns: a listener goes on to its save.
LEMMA ReturnKeeps ==
    ASSUME TypeOK, Delivering, NEW s \in Submitters, submit[s].pc # "idle", Return(s)
    PROVE  /\ run' \in [Runs -> RunType(EventIds, Handlers) \union {Free}]
           /\ submit' \in [Submitters -> SubmitType]
           /\ submit'[s].pc = "idle"
           /\ \A t \in Submitters : t # s => submit'[t] = submit[t]
           /\ Delivering'
<1>1. /\ run \in [Runs -> RunType(EventIds, Handlers) \union {Free}]
      /\ submit \in [Submitters -> SubmitType]
      /\ Runs \subseteq Submitters /\ "cron" \notin Runs
  BY Types
<1>2. submit' = [submit EXCEPT ![s] = NoSubmit]
  BY DEF Return
<1>3. /\ submit' \in [Submitters -> SubmitType]
      /\ submit'[s].pc = "idle"
      /\ \A t \in Submitters : t # s => submit'[t] = submit[t]
  BY <1>1, <1>2 DEF NoSubmit, SubmitType
<1>4. CASE s = "cron"
  <2>1. run' = run
    BY <1>4 DEF Return
  <2> QED
    BY <1>1, <1>3, <1>4, <2>1 DEF Delivering
<1>5. CASE s # "cron"
  <2>1. s \in Runs /\ DoneWorking(s) /\ run[s].pc = "work"
    BY <1>5 DEF Submitters, Return, Delivering
  <2>2. /\ run' \in [Runs -> RunType(EventIds, Handlers) \union {Free}]
        /\ \A q \in Runs : q # s => run'[q] = run[q]
    BY <2>1, DoneWorkingType
  <2>3. Delivering'
    BY <1>1, <1>3, <2>2 DEF Delivering
  <2> QED
    BY <1>3, <2>2, <2>3
<1> QED
  BY <1>4, <1>5

\* A payment is paid once, and before that its receipt is nobody's business.
LEMMA MarkPaidInv ==
    ASSUME Inv, NEW p \in PaymentIds, MarkPaid(p)
    PROVE  Inv'
<1>1. /\ TypeOK /\ RowsOk /\ pay \in [PaymentIds -> PayType]
      /\ faults \in Nat /\ pay[p].attempts \in Nat /\ receipts[p] \in Nat
  BY Types DEF Inv
<1>2. /\ ~pay[p].paid
      /\ Publish("billing.payment.paid", p, Len(outbox))
      /\ UNCHANGED <<processed, relay, run, faults, submit, due, receipts, told>>
  BY DEF MarkPaid
<1>3. PICK doc \in BOOLEAN :
        pay' = [pay EXCEPT ![p].paid = TRUE, ![p].doc = doc,
                  ![p].fiscal = IF p \in ClickPayments THEN "PENDING" ELSE "BY_PROVIDER"]
  BY DEF MarkPaid
<1>4. /\ pay' \in [PaymentIds -> PayType]
      /\ pay'[p].paid /\ pay'[p].fiscal \in {"PENDING", "BY_PROVIDER"}
      /\ pay'[p].attempts = pay[p].attempts
      /\ \A q \in PaymentIds : q # p => pay'[q] = pay[q]
  <2> DEFINE state == IF p \in ClickPayments THEN "PENDING" ELSE "BY_PROVIDER"
             row   == [pay[p] EXCEPT !.paid = TRUE, !.doc = doc, !.fiscal = state]
  <2>1. pay' = [pay EXCEPT ![p] = row]
    BY <1>1, <1>3
  <2>2. pay[p] \in PayType /\ state \in FiscalStatus
    BY <1>1 DEF FiscalStatus
  <2>3. /\ row \in PayType /\ row.paid /\ row.fiscal \in {"PENDING", "BY_PROVIDER"}
        /\ row.attempts = pay[p].attempts
    BY <2>2 DEF PayType
  <2> HIDE DEF row
  <2> QED
    BY <1>1, <2>1, <2>3
<1>5. RowsOk'
  BY <1>1, <1>2, PublishType DEF RowsOk, Names
<1>6. TypeOK'
  BY <1>1, <1>2, <1>4, <1>5 DEF TypeOK, RowsOk, Names
<1>7. Delivering'
  BY <1>2 DEF Inv, Delivering
<1>8. Accounted(p)'
  <2>1. pay[p].fiscal = "NONE" /\ pay[p].attempts < MaxAttempts
    BY <1>2 DEF Inv, Accounted, Tried
  <2>2. \A s \in Submitters : ~Holds(s, p)
    BY <2>1 DEF Inv, Accounted, Claimed
  <2>3. receipts[p] <= pay[p].attempts + faults
    BY <2>2 DEF Inv, Accounted, Copies
  <2>4. \A s \in Submitters : ~Holds(s, p)'
    BY <1>2, <2>2 DEF Holds
  <2>5. Tried(p)'
    BY <1>4, <2>1 DEF Tried
  <2>6. /\ faults' \in Nat /\ pay'[p].attempts \in Nat /\ receipts'[p] \in Nat
        /\ pay'[p].fiscal # "SENT"
        /\ receipts'[p] <= pay'[p].attempts + faults'
    BY <1>1, <1>2, <1>4, <2>3
  <2> QED
    BY <2>4, <2>5, <2>6, Unheld
<1>9. ASSUME NEW q \in PaymentIds, q # p PROVE Accounted(q)'
  <2>1. /\ Accounted(q) /\ pay'[q] = pay[q] /\ receipts'[q] = receipts[q]
        /\ faults' >= faults /\ \A s \in Submitters : submit'[s] = submit[s]
    BY <1>1, <1>2, <1>4, <1>9 DEF Inv
  <2> QED
    BY <1>1, <1>6, <2>1, Kept
<1> QED
  BY <1>6, <1>7, <1>8, <1>9 DEF Inv

\* The cron reads its list, and takes up the next receipt on it.
LEMMA RetryInv ==
    ASSUME Inv, RetryDue \/ RetryNext
    PROVE  Inv'
<1>1. /\ TypeOK /\ RowsOk /\ faults \in Nat /\ submit \in [Submitters -> SubmitType]
      /\ Runs \subseteq Submitters /\ "cron" \in Submitters /\ "cron" \notin Runs
  BY Types DEF Inv
<1>2. /\ UNCHANGED <<outbox, order, processed, relay, run, faults, pay, receipts, told>>
      /\ submit["cron"].pc = "idle"
  BY DEF RetryDue, RetryNext
<1>3. /\ due' \subseteq PaymentIds
      /\ submit' \in [Submitters -> SubmitType]
      /\ \A s \in Submitters : s # "cron" => submit'[s] = submit[s]
      /\ submit'["cron"].pc \in {"idle", "claim"}
  <2>1. CASE RetryDue
    <3>1. due' \subseteq PaymentIds /\ submit' = submit
      BY <2>1 DEF RetryDue
    <3> QED
      BY <1>1, <1>2, <3>1
  <2>2. CASE RetryNext
    <3>1. due \subseteq PaymentIds
      BY <1>1 DEF TypeOK
    <3>2. PICK q \in due :
            /\ submit' = [submit EXCEPT !["cron"] = [pc |-> "claim", id |-> q]]
            /\ due' = due \ {q}
      BY <2>2 DEF RetryNext
    <3> QED
      BY <1>1, <3>1, <3>2 DEF SubmitType
  <2> QED
    BY <2>1, <2>2
<1>4. RowsOk'
  BY <1>1, <1>2 DEF RowsOk, OutboxTypeOK, EventIds
<1>5. TypeOK'
  BY <1>1, <1>2, <1>3, <1>4 DEF TypeOK, RowsOk, Names
<1>6. Delivering'
  BY <1>1, <1>2, <1>3 DEF Inv, Delivering
<1>7. pay' = pay /\ receipts' = receipts /\ faults' >= faults
  BY <1>1, <1>2
<1>8. \A s \in Submitters :
        \/ submit'[s] = submit[s]
        \/ submit[s].pc \in {"idle", "claim"} /\ submit'[s].pc \in {"idle", "claim"}
  BY <1>2, <1>3
<1> QED
  BY <1>5, <1>6, <1>7, <1>8, NoReceipt

\* The conditional UPDATE finds the row in nobody's hand: a row that says
\* SENDING is stale, and a stale row is not held.
LEMMA ClaimInv ==
    ASSUME Inv, NEW s \in Submitters, ClaimFiscal(s)
    PROVE  Inv'
<1>1. /\ TypeOK /\ RowsOk /\ faults \in Nat /\ MaxAttempts \in Nat
      /\ pay \in [PaymentIds -> PayType] /\ submit \in [Submitters -> SubmitType]
      /\ Runs \subseteq Submitters
      /\ \A q \in PaymentIds : pay[q].attempts \in Nat /\ receipts[q] \in Nat
  BY Types DEF Inv
<1>2. PICK p \in PaymentIds : p = submit[s].id
  BY <1>1 DEF ClaimFiscal, SubmitType
<1>3. /\ submit[s].pc = "claim" /\ submit[s].id = p /\ Owed(p)
      /\ pay' = [pay EXCEPT ![p].fiscal = "SENDING", ![p].stale = FALSE]
      /\ submit' = [submit EXCEPT ![s].pc = IF pay[p].doc THEN "send" ELSE "refused"]
      /\ UNCHANGED <<outbox, order, processed, relay, run, faults, due, receipts, told>>
  BY <1>2 DEF ClaimFiscal
<1>4. /\ pay' \in [PaymentIds -> PayType]
      /\ pay'[p].fiscal = "SENDING" /\ ~pay'[p].stale
      /\ pay'[p].paid = pay[p].paid /\ pay'[p].attempts = pay[p].attempts
      /\ \A q \in PaymentIds : q # p => pay'[q] = pay[q]
  <2> DEFINE row == [pay[p] EXCEPT !.fiscal = "SENDING", !.stale = FALSE]
  <2>1. pay' = [pay EXCEPT ![p] = row]
    BY <1>1, <1>3
  <2>2. /\ row \in PayType /\ row.fiscal = "SENDING" /\ ~row.stale
        /\ row.paid = pay[p].paid /\ row.attempts = pay[p].attempts
    BY <1>1 DEF PayType, FiscalStatus
  <2> HIDE DEF row
  <2> QED
    BY <1>1, <2>1, <2>2
<1>5. /\ submit' \in [Submitters -> SubmitType]
      /\ submit'[s].pc \in {"send", "refused"} /\ submit'[s].id = p
      /\ \A t \in Submitters : t # s => submit'[t] = submit[t]
  BY <1>1, <1>3 DEF SubmitType
<1>6. RowsOk'
  BY <1>1, <1>3 DEF RowsOk, OutboxTypeOK, EventIds
<1>7. TypeOK'
  BY <1>1, <1>3, <1>4, <1>5, <1>6 DEF TypeOK, RowsOk, Names
<1>8. Delivering'
  BY <1>1, <1>3, <1>5 DEF Inv, Delivering
<1>9. Accounted(p)'
  <2>1. pay[p].paid /\ (pay[p].fiscal = "PENDING" \/ (pay[p].fiscal = "SENDING" /\ pay[p].stale))
    BY <1>3 DEF Owed
  <2>2. \A t \in Submitters : ~Holds(t, p)
    BY <1>3, <2>1 DEF Inv, Accounted, Claimed
  <2>3. receipts[p] <= pay[p].attempts + faults
    BY <1>3, <2>2 DEF Inv, Accounted, Copies
  <2>4. pay[p].attempts < MaxAttempts
    BY <1>3, <2>1 DEF Inv, Accounted, Tried
  <2>5. Tried(p)'
    BY <1>4, <2>1, <2>4 DEF Tried
  <2>6. Holds(s, p)'
    BY <1>5 DEF Holds
  <2>7. \A t \in Submitters : Holds(t, p)' => t = s
    BY <1>5, <2>2 DEF Holds
  <2>8. /\ submit'[s].pc # "accepted"
        /\ receipts'[p] <= pay'[p].attempts + faults' + 1
        /\ receipts'[p] <= pay'[p].attempts + faults'
    BY <1>1, <1>3, <1>4, <1>5, <2>3
  <2> QED
    BY <1>3, <1>4, <2>5, <2>6, <2>7, <2>8, HeldByOne
<1>10. ASSUME NEW q \in PaymentIds, q # p PROVE Accounted(q)'
  <2>1. /\ Accounted(q) /\ pay'[q] = pay[q] /\ receipts'[q] = receipts[q]
        /\ faults' >= faults
    BY <1>1, <1>3, <1>4, <1>10 DEF Inv
  <2>2. \A t \in Submitters :
          /\ Holds(t, q)' => submit'[t] = submit[t]
          /\ Holds(t, q) => submit'[t] = submit[t]
    BY <1>3, <1>5, <1>10 DEF Holds
  <2> QED
    BY <1>1, <1>7, <2>1, <2>2, Kept
<1> QED
  BY <1>7, <1>8, <1>9, <1>10 DEF Inv

\* A submit() that lost the claim holds nothing.
LEMMA ClaimLostInv ==
    ASSUME Inv, NEW s \in Submitters, ClaimLost(s)
    PROVE  Inv'
<1>1. TypeOK /\ RowsOk /\ Delivering /\ faults \in Nat
  BY Types DEF Inv
<1>2. /\ submit[s].pc = "claim" /\ Return(s)
      /\ UNCHANGED <<outbox, order, processed, relay, faults, pay, due, receipts, told>>
  BY DEF ClaimLost
<1>3. /\ run' \in [Runs -> RunType(EventIds, Handlers) \union {Free}]
      /\ submit' \in [Submitters -> SubmitType]
      /\ submit'[s].pc = "idle"
      /\ \A t \in Submitters : t # s => submit'[t] = submit[t]
      /\ Delivering'
  BY <1>1, <1>2, ReturnKeeps
<1>4. RowsOk'
  BY <1>1, <1>2, <1>3 DEF RowsOk, OutboxTypeOK, EventIds
<1>5. TypeOK'
  BY <1>1, <1>2, <1>3, <1>4 DEF TypeOK, RowsOk, Names
<1>6. pay' = pay /\ receipts' = receipts /\ faults' >= faults
  BY <1>1, <1>2
<1>7. \A t \in Submitters :
        \/ submit'[t] = submit[t]
        \/ submit[t].pc \in {"idle", "claim"} /\ submit'[t].pc \in {"idle", "claim"}
  BY <1>2, <1>3
<1> QED
  BY <1>3, <1>5, <1>6, <1>7, NoReceipt

\* The call: Click may hold one copy more, and the attempt is still uncounted.
LEMMA SendInv ==
    ASSUME Inv, NEW s \in Submitters, SendReceipt(s)
    PROVE  Inv'
<1>1. /\ TypeOK /\ RowsOk /\ faults \in Nat
      /\ submit \in [Submitters -> SubmitType] /\ receipts \in [PaymentIds -> Nat]
      /\ Runs \subseteq Submitters
      /\ \A q \in PaymentIds : pay[q].attempts \in Nat /\ receipts[q] \in Nat
  BY Types DEF Inv
<1>2. PICK p \in PaymentIds : p = submit[s].id
  BY <1>1 DEF SendReceipt, SubmitType
<1>3. PICK accepted \in BOOLEAN, answered \in BOOLEAN :
        /\ receipts' = [receipts EXCEPT ![p] = IF accepted THEN @ + 1 ELSE @]
        /\ submit' = [submit EXCEPT ![s].pc =
                        IF accepted /\ answered THEN "accepted" ELSE "refused"]
  BY <1>2 DEF SendReceipt
<1>4. /\ submit[s].pc = "send" /\ submit[s].id = p
      /\ UNCHANGED <<outbox, order, processed, relay, run, faults, pay, due, told>>
  BY <1>2 DEF SendReceipt
<1>5. /\ receipts' \in [PaymentIds -> Nat]
      /\ receipts'[p] \in {receipts[p], receipts[p] + 1}
      /\ accepted => receipts'[p] = receipts[p] + 1
      /\ \A q \in PaymentIds : q # p => receipts'[q] = receipts[q]
  BY <1>1, <1>3
<1>6. /\ submit' \in [Submitters -> SubmitType]
      /\ submit'[s].pc \in {"accepted", "refused"} /\ submit'[s].id = p
      /\ submit'[s].pc = "accepted" => accepted
      /\ \A t \in Submitters : t # s => submit'[t] = submit[t]
  BY <1>1, <1>3, <1>4 DEF SubmitType
<1>7. RowsOk'
  BY <1>1, <1>4 DEF RowsOk, OutboxTypeOK, EventIds
<1>8. TypeOK'
  BY <1>1, <1>4, <1>5, <1>6, <1>7 DEF TypeOK, RowsOk, Names
<1>9. Delivering'
  BY <1>1, <1>4, <1>6 DEF Inv, Delivering
<1>10. Accounted(p)'
  <2>1. Holds(s, p)
    BY <1>4 DEF Holds
  <2>2. /\ pay[p].fiscal = "SENDING" /\ ~pay[p].stale
        /\ \A t \in Submitters : Holds(t, p) => t = s
    BY <2>1 DEF Inv, Accounted, Claimed
  <2>3. receipts[p] <= pay[p].attempts + faults
    BY <1>4, <2>2 DEF Inv, Accounted, Copies
  <2>4. Holds(s, p)' /\ \A t \in Submitters : Holds(t, p)' => t = s
    BY <1>6, <2>2 DEF Holds
  <2>5. Tried(p)'
    BY <1>4 DEF Inv, Accounted, Tried
  <2>6. /\ pay'[p].fiscal = "SENDING" /\ ~pay'[p].stale
        /\ submit'[s].pc = "accepted" => receipts'[p] >= 1
        /\ receipts'[p] <= pay'[p].attempts + faults' + 1
        /\ submit'[s].pc # "send"
    BY <1>1, <1>4, <1>5, <1>6, <2>2, <2>3
  <2> QED
    BY <2>4, <2>5, <2>6, HeldByOne
<1>11. ASSUME NEW q \in PaymentIds, q # p PROVE Accounted(q)'
  <2>1. /\ Accounted(q) /\ pay'[q] = pay[q] /\ receipts'[q] = receipts[q]
        /\ faults' >= faults
    BY <1>1, <1>4, <1>5, <1>11 DEF Inv
  <2>2. \A t \in Submitters :
          /\ Holds(t, q)' => submit'[t] = submit[t]
          /\ Holds(t, q) => submit'[t] = submit[t]
    BY <1>4, <1>6, <1>11 DEF Holds
  <2> QED
    BY <1>1, <1>8, <2>1, <2>2, Kept
<1> QED
  BY <1>8, <1>9, <1>10, <1>11 DEF Inv

\* The result: the attempt is counted, and the row is let go.
LEMMA ResultInv ==
    ASSUME Inv, NEW s \in Submitters, MarkFiscalResult(s)
    PROVE  Inv'
<1>1. /\ TypeOK /\ RowsOk /\ Delivering /\ faults \in Nat
      /\ MaxAttempts \in Nat \ {0} /\ pay \in [PaymentIds -> PayType]
      /\ submit \in [Submitters -> SubmitType]
      /\ \A q \in PaymentIds : pay[q].attempts \in Nat /\ receipts[q] \in Nat
  BY Types DEF Inv
<1>2. PICK p \in PaymentIds : p = submit[s].id
  BY <1>1 DEF MarkFiscalResult, SubmitType
<1>3. /\ submit[s].pc \in {"accepted", "refused"} /\ submit[s].id = p
      /\ Return(s)
      /\ UNCHANGED <<outbox, order, processed, relay, faults, due, receipts, told>>
  BY <1>2 DEF MarkFiscalResult
<1>4. /\ Holds(s, p) /\ pay[p].fiscal = "SENDING"
      /\ \A t \in Submitters : Holds(t, p) => t = s
      /\ pay[p].paid /\ pay[p].attempts < MaxAttempts
      /\ submit[s].pc = "accepted" => receipts[p] >= 1
      /\ receipts[p] <= pay[p].attempts + faults + 1
  <2>1. Holds(s, p)
    BY <1>3 DEF Holds
  <2>2. pay[p].fiscal = "SENDING" /\ \A t \in Submitters : Holds(t, p) => t = s
    BY <2>1 DEF Inv, Accounted, Claimed
  <2>3. pay[p].paid /\ pay[p].attempts < MaxAttempts
    BY <2>2 DEF Inv, Accounted, Tried
  <2>4. /\ submit[s].pc = "accepted" => receipts[p] >= 1
        /\ receipts[p] <= pay[p].attempts + faults + 1
    BY <2>1 DEF Inv, Accounted, Copies
  <2> QED
    BY <2>1, <2>2, <2>3, <2>4
<1>5. /\ pay' \in [PaymentIds -> PayType]
      /\ pay'[p].paid = pay[p].paid /\ pay'[p].attempts = pay[p].attempts + 1
      /\ pay'[p].fiscal = IF submit[s].pc = "accepted" THEN "SENT"
                          ELSE IF pay[p].attempts + 1 >= MaxAttempts THEN "FAILED"
                          ELSE "PENDING"
      /\ \A q \in PaymentIds : q # p => pay'[q] = pay[q]
  <2> DEFINE ok  == submit[s].pc = "accepted"
             row == Settled(pay[p], ok)
  <2>1. pay' = [pay EXCEPT ![p] = row]
    BY <1>1, <1>2 DEF MarkFiscalResult
  <2>2. pay[p] \in PayType /\ pay[p].attempts + 1 \in 0..MaxAttempts
    BY <1>1, <1>4
  <2>3. /\ row \in PayType /\ row.paid = pay[p].paid
        /\ row.attempts = pay[p].attempts + 1
        /\ row.fiscal = IF ok THEN "SENT"
                        ELSE IF pay[p].attempts + 1 >= MaxAttempts THEN "FAILED"
                        ELSE "PENDING"
    BY <2>2 DEF Settled, PayType, FiscalStatus
  <2> HIDE DEF row
  <2> QED
    BY <1>1, <2>1, <2>3
<1>6. /\ run' \in [Runs -> RunType(EventIds, Handlers) \union {Free}]
      /\ submit' \in [Submitters -> SubmitType]
      /\ submit'[s].pc = "idle"
      /\ \A t \in Submitters : t # s => submit'[t] = submit[t]
      /\ Delivering'
  BY <1>1, <1>3, ReturnKeeps
<1>7. RowsOk'
  BY <1>1, <1>3, <1>6 DEF RowsOk, OutboxTypeOK, EventIds
<1>8. TypeOK'
  BY <1>1, <1>3, <1>5, <1>6, <1>7 DEF TypeOK, RowsOk, Names
<1>9. Accounted(p)'
  <2>1. \A t \in Submitters : ~Holds(t, p)'
    BY <1>4, <1>6 DEF Holds
  <2>2. Tried(p)'
    BY <1>1, <1>4, <1>5 DEF Tried
  <2>3. /\ faults' \in Nat /\ pay'[p].attempts \in Nat /\ receipts'[p] \in Nat
        /\ pay'[p].fiscal = "SENT" => receipts'[p] >= 1
        /\ receipts'[p] <= pay'[p].attempts + faults'
    BY <1>1, <1>3, <1>4, <1>5
  <2> QED
    BY <2>1, <2>2, <2>3, Unheld
<1>10. ASSUME NEW q \in PaymentIds, q # p PROVE Accounted(q)'
  <2>1. /\ Accounted(q) /\ pay'[q] = pay[q] /\ receipts'[q] = receipts[q]
        /\ faults' >= faults
    BY <1>1, <1>3, <1>5, <1>10 DEF Inv
  <2>2. \A t \in Submitters :
          /\ Holds(t, q)' => submit'[t] = submit[t]
          /\ Holds(t, q) => submit'[t] = submit[t]
    BY <1>3, <1>6, <1>10 DEF Holds
  <2> QED
    BY <1>1, <1>8, <2>1, <2>2, Kept
<1> QED
  BY <1>6, <1>8, <1>9, <1>10 DEF Inv

\* A claim whose UPDATE failed, and an attempt whose count did: a fault.
LEMMA SubmitFailsInv ==
    ASSUME Inv, NEW s \in Submitters, SubmitFails(s)
    PROVE  Inv'
<1>1. TypeOK /\ RowsOk /\ Delivering /\ faults \in Nat /\ MaxFaults \in Nat
  BY Types DEF Inv
<1>2. /\ submit[s].pc # "idle" /\ Return(s)
      /\ faults < MaxFaults /\ faults' = faults + 1
      /\ UNCHANGED <<outbox, order, processed, relay, pay, due, receipts, told>>
  BY DEF SubmitFails
<1>3. /\ run' \in [Runs -> RunType(EventIds, Handlers) \union {Free}]
      /\ submit' \in [Submitters -> SubmitType]
      /\ submit'[s].pc = "idle"
      /\ \A t \in Submitters : t # s => submit'[t] = submit[t]
      /\ Delivering'
  BY <1>1, <1>2, ReturnKeeps
<1>4. faults' \in 0..MaxFaults
  BY <1>1, <1>2
<1>5. RowsOk'
  BY <1>1, <1>2, <1>3, <1>4 DEF RowsOk, OutboxTypeOK, EventIds
<1>6. TypeOK'
  BY <1>1, <1>2, <1>3, <1>5 DEF TypeOK, RowsOk, Names
<1>7. ASSUME NEW q \in PaymentIds PROVE Accounted(q)'
  <2>1. /\ Accounted(q) /\ pay'[q] = pay[q] /\ receipts'[q] = receipts[q]
        /\ faults' >= faults /\ faults' >= faults + 1
    BY <1>1, <1>2 DEF Inv
  <2>2. \A t \in Submitters : Holds(t, q)' => submit'[t] = submit[t]
    BY <1>3 DEF Holds
  <2> QED
    BY <1>1, <1>6, <2>1, <2>2, Kept
<1> QED
  BY <1>3, <1>6, <1>7 DEF Inv

\* Only a claim that nobody holds grows stale.
LEMMA ClaimAgesInv ==
    ASSUME Inv, NEW p \in PaymentIds, ClaimAges(p)
    PROVE  Inv'
<1>1. /\ TypeOK /\ RowsOk /\ faults \in Nat /\ pay \in [PaymentIds -> PayType]
      /\ pay[p].attempts \in Nat /\ receipts[p] \in Nat
  BY Types DEF Inv
<1>2. /\ pay[p].fiscal = "SENDING"
      /\ \A s \in Submitters : ~Holds(s, p)
      /\ pay' = [pay EXCEPT ![p].stale = TRUE]
      /\ UNCHANGED <<outbox, order, processed, relay, run, faults, submit, due, receipts, told>>
  BY DEF ClaimAges, Holds
<1>3. /\ pay' \in [PaymentIds -> PayType]
      /\ pay'[p].paid = pay[p].paid /\ pay'[p].attempts = pay[p].attempts
      /\ pay'[p].fiscal = "SENDING"
      /\ \A q \in PaymentIds : q # p => pay'[q] = pay[q]
  BY <1>1, <1>2 DEF PayType
<1>4. RowsOk'
  BY <1>1, <1>2 DEF RowsOk, OutboxTypeOK, EventIds
<1>5. TypeOK'
  BY <1>1, <1>2, <1>3, <1>4 DEF TypeOK, RowsOk, Names
<1>6. Delivering'
  BY <1>2 DEF Inv, Delivering
<1>7. Accounted(p)'
  <2>1. \A s \in Submitters : ~Holds(s, p)'
    BY <1>2 DEF Holds
  <2>2. Tried(p)'
    BY <1>2, <1>3 DEF Inv, Accounted, Tried
  <2>3. receipts[p] <= pay[p].attempts + faults
    BY <1>2 DEF Inv, Accounted, Copies
  <2>4. /\ faults' \in Nat /\ pay'[p].attempts \in Nat /\ receipts'[p] \in Nat
        /\ pay'[p].fiscal # "SENT"
        /\ receipts'[p] <= pay'[p].attempts + faults'
    BY <1>1, <1>2, <1>3, <2>3
  <2> QED
    BY <2>1, <2>2, <2>4, Unheld
<1>8. ASSUME NEW q \in PaymentIds, q # p PROVE Accounted(q)'
  <2>1. /\ Accounted(q) /\ pay'[q] = pay[q] /\ receipts'[q] = receipts[q]
        /\ faults' >= faults /\ \A s \in Submitters : submit'[s] = submit[s]
    BY <1>1, <1>2, <1>3, <1>8 DEF Inv
  <2> QED
    BY <1>1, <1>5, <2>1, Kept
<1> QED
  BY <1>5, <1>6, <1>7, <1>8 DEF Inv

\* A restart loses every submit() under way, at the price of a fault.
LEMMA CrashInv == Inv /\ Crash => Inv'
<1> SUFFICES ASSUME Inv, Crash PROVE Inv'
  OBVIOUS
<1>1. TypeOK /\ RowsOk /\ faults \in Nat
  BY Types DEF Inv
<1>2. RowsOk'
  BY <1>1, CrashType DEF RowsOk, Crash
<1>3. submit' = [s \in Submitters |-> NoSubmit]
  BY DEF Crash
<1>4. \A s \in Submitters : submit'[s].pc = "idle"
  BY <1>3 DEF NoSubmit
<1>5. TypeOK'
  <2>1. submit' \in [Submitters -> SubmitType]
    BY <1>3 DEF NoSubmit, SubmitType
  <2> QED
    BY <1>1, <1>2, <2>1 DEF TypeOK, RowsOk, Names, Crash
<1>6. Delivering'
  BY <1>4 DEF Delivering, Submitters
<1>7. faults' = faults + 1
  BY DEF Crash, OutboxCrash
<1>8. ASSUME NEW q \in PaymentIds PROVE Accounted(q)'
  <2>1. /\ Accounted(q) /\ pay'[q] = pay[q] /\ receipts'[q] = receipts[q]
        /\ faults' >= faults /\ faults' >= faults + 1
    BY <1>1, <1>7 DEF Inv, Crash
  <2>2. \A s \in Submitters : ~Holds(s, q)'
    BY <1>4 DEF Holds
  <2> QED
    BY <1>1, <1>5, <2>1, <2>2, Kept
<1> QED
  BY <1>5, <1>6, <1>8 DEF Inv

LEMMA NextInv == Inv /\ [Next]_vars => Inv'
<1> SUFFICES ASSUME Inv, [Next]_vars PROVE Inv'
  OBVIOUS
<1>1. ASSUME NEW p \in PaymentIds, MarkPaid(p) PROVE Inv'
  BY <1>1, MarkPaidInv
<1>2. ASSUME NEW p \in PaymentIds, ClaimAges(p) PROVE Inv'
  BY <1>2, ClaimAgesInv
<1>3. CASE RelayStep \/ RelayFails
  BY <1>3, DeliveryInv
<1>4. ASSUME NEW r \in Runs, HandlerStep(r) \/ HandlerFails(r) PROVE Inv'
  BY <1>4, DeliveryInv, HandlerInv DEF HandlerStep
<1>5. CASE RetryDue \/ RetryNext
  BY <1>5, RetryInv
<1>6. ASSUME NEW s \in Submitters, SubmitStep(s) \/ SubmitFails(s) PROVE Inv'
  BY <1>6, ClaimInv, ClaimLostInv, SendInv, ResultInv, SubmitFailsInv DEF SubmitStep
<1>7. CASE Crash
  BY <1>7, CrashInv
<1>8. CASE UNCHANGED vars
  <2>1. Delivering'
    BY <1>8 DEF vars, Inv, Delivering
  <2>2. TypeOK'
    BY <1>8 DEF vars, Inv, TypeOK, OutboxTypeOK, EventIds
  <2>3. \A p \in PaymentIds : Accounted(p)'
    BY <1>8 DEF vars, Inv, Accounted, Claimed, Tried, Copies, Holds
  <2> QED
    BY <2>1, <2>2, <2>3 DEF Inv
<1> QED
  BY <1>1, <1>2, <1>3, <1>4, <1>5, <1>6, <1>7, <1>8 DEF Next

-----------------------------------------------------------------------------
(* The theorems. *)

\* The inductive invariant holds of every reachable state.
THEOREM Invariant == Spec => []Inv
BY InitInv, NextInv, PTL DEF Spec

\* The payments' fiscal columns, the calls to submit(), the cron's list and the
\* outbox under them have their types.
THEOREM TypeCorrect == Spec => []TypeOK
<1>1. Inv => TypeOK
  BY DEF Inv
<1> QED
  BY <1>1, Invariant, PTL

\* Submitters that are at most one.
LEMMA AtMostOne ==
    ASSUME NEW S, \A s, t \in S : s = t
    PROVE  Cardinality(S) \in {0, 1} /\ (S # {} => Cardinality(S) = 1)
<1>1. CASE S = {}
  BY <1>1, FS_EmptySet
<1>2. ASSUME NEW s \in S PROVE S = {s} /\ Cardinality(S) = 1
  <2>1. S = {s}
    BY <1>2
  <2> QED
    BY <2>1, FS_Singleton
<1> QED
  BY <1>1, <1>2

\* One submitter at a time has a receipt in hand, whoever crashed, retried or
\* was late (claimFiscal).
THEOREM OneSubmitterAtATime == Spec => []OneSubmitter
<1>1. Inv => OneSubmitter
  <2> SUFFICES ASSUME Inv, NEW p \in PaymentIds
               PROVE  /\ Cardinality({s \in Submitters : Holds(s, p)}) <= 1
                      /\ (\E s \in Submitters : Holds(s, p)) => pay[p].fiscal = "SENDING"
    BY DEF OneSubmitter
  <2> DEFINE S == {s \in Submitters : Holds(s, p)}
  <2>1. \A s, t \in S : s = t
    BY DEF Inv, Accounted, Claimed
  <2>2. Cardinality(S) \in {0, 1}
    <3> HIDE DEF S
    <3> QED
      BY <2>1, AtMostOne
  <2>3. \A s \in Submitters : Holds(s, p) => pay[p].fiscal = "SENDING"
    BY DEF Inv, Accounted, Claimed
  <2> QED
    BY <2>2, <2>3
<1> QED
  BY <1>1, Invariant, PTL

\* SENT, FAILED and the count of attempts say what Click was sent.
THEOREM CopiesAccounted == Spec => []ReceiptsAccounted
<1>1. Inv => ReceiptsAccounted
  <2> SUFFICES ASSUME Inv, NEW p \in ClickPayments
               PROVE  /\ pay[p].fiscal = "SENT" => receipts[p] >= 1
                      /\ pay[p].fiscal = "FAILED" => pay[p].attempts = MaxAttempts
                      /\ receipts[p] <= pay[p].attempts + faults
                                        + Cardinality({s \in Submitters : Holds(s, p)})
    BY DEF ReceiptsAccounted
  <2> DEFINE S == {s \in Submitters : Holds(s, p)}
  <2>1. /\ p \in PaymentIds /\ faults \in Nat
        /\ pay[p].attempts \in Nat /\ receipts[p] \in Nat
    BY FiscalAssumption, Types DEF Inv
  <2>2. Claimed(p) /\ Tried(p) /\ Copies(p)
    BY <2>1 DEF Inv, Accounted
  <2>3. \A s, t \in S : s = t
    BY <2>2 DEF Claimed
  <2>4. Cardinality(S) \in {0, 1} /\ (S # {} => Cardinality(S) = 1)
    <3> HIDE DEF S
    <3> QED
      BY <2>3, AtMostOne
  <2>5. receipts[p] <= pay[p].attempts + faults + Cardinality(S)
    <3>1. CASE S = {}
      <4>1. receipts[p] <= pay[p].attempts + faults
        BY <2>2, <3>1 DEF Copies
      <4> HIDE DEF S
      <4> QED
        BY <2>1, <2>4, <4>1
    <3>2. CASE S # {}
      <4>1. receipts[p] <= pay[p].attempts + faults + 1
        BY <2>2 DEF Copies
      <4> HIDE DEF S
      <4> QED
        BY <2>4, <3>2, <4>1
    <3> QED
      BY <3>1, <3>2
  <2> QED
    BY <2>2, <2>5 DEF Tried, Copies
<1> QED
  BY <1>1, Invariant, PTL

\* A receipt that was sent or given up is out of every submitter's reach.
THEOREM SettledIsFinal == Spec => SettledStays
<1>1. Inv /\ [Next]_vars =>
        [\A p \in PaymentIds :
           pay[p].fiscal \in {"SENT", "FAILED"} => pay'[p] = pay[p]]_vars
  <2> SUFFICES ASSUME Inv, Next, NEW p \in PaymentIds, pay[p].fiscal \in {"SENT", "FAILED"}
               PROVE  pay'[p] = pay[p]
    OBVIOUS
  <2>1. /\ pay \in [PaymentIds -> PayType] /\ submit \in [Submitters -> SubmitType]
        /\ pay[p].paid /\ \A s \in Submitters : ~Holds(s, p)
    BY Types DEF Inv, Accounted, Tried, Claimed
  <2>2. ASSUME NEW q \in PaymentIds, MarkPaid(q) PROVE pay'[p] = pay[p]
    BY <2>1, <2>2 DEF MarkPaid
  <2>3. ASSUME NEW q \in PaymentIds, ClaimAges(q) PROVE pay'[p] = pay[p]
    BY <2>1, <2>3 DEF ClaimAges
  <2>4. ASSUME NEW s \in Submitters, ClaimFiscal(s) PROVE pay'[p] = pay[p]
    <3>1. Owed(submit[s].id)
      BY <2>4 DEF ClaimFiscal
    <3>2. submit[s].id # p
      BY <3>1 DEF Owed
    <3> QED
      BY <2>1, <2>4, <3>2 DEF ClaimFiscal
  <2>5. ASSUME NEW s \in Submitters, MarkFiscalResult(s) PROVE pay'[p] = pay[p]
    <3>1. submit[s].id # p
      BY <2>1, <2>5 DEF MarkFiscalResult, Holds
    <3> QED
      BY <2>1, <2>5, <3>1 DEF MarkFiscalResult
  <2>6. CASE RelayStep \/ RelayFails \/ RetryDue \/ RetryNext \/ Crash
    BY <2>6 DEF RelayStep, RelayFails, RetryDue, RetryNext, Crash, fiscalVars
  <2>7. ASSUME NEW r \in Runs, HandlerStep(r) \/ HandlerFails(r) PROVE pay'[p] = pay[p]
    BY <2>7 DEF HandlerStep, HandlerFails, Notify, StartSubmit, fiscalVars
  <2>8. ASSUME NEW s \in Submitters, ClaimLost(s) \/ SendReceipt(s) \/ SubmitFails(s)
        PROVE  pay'[p] = pay[p]
    BY <2>8 DEF ClaimLost, SendReceipt, SubmitFails
  <2> QED
    BY <2>2, <2>3, <2>4, <2>5, <2>6, <2>7, <2>8 DEF Next, SubmitStep
<1> QED
  BY <1>1, Invariant, PTL DEF Spec, SettledStays

-----------------------------------------------------------------------------
(* The payer's notification.  An event is emitted again only after a fault,  *)
(* and each time it is emitted it can ring once: what has rung, what is      *)
(* about to, and the emission still to come are together no more than one    *)
(* and the faults so far.                                                    *)

\* The events that a tick without a fault has still to emit.
ToEmit == Undispatched \ (relay.batch \ relay.todo)
Due(p) == \E e \in ToEmit : outbox[e].ref = p

\* The deliveries that have still to tell p's payer.
Bells(p) ==
    {r \in Runs : /\ run[r].pc \in {"check", "work"}
                  /\ run[r].handler = "billing.topup-notify"
                  /\ PaymentOf(r) = p}

\* A payment is paid once, in the transaction of its one event.
OneEvent ==
    /\ \A e, f \in EventIds : outbox[e].ref = outbox[f].ref => e = f
    /\ \A e \in EventIds : pay[outbox[e].ref].paid
    /\ \A p \in PaymentIds : ~pay[p].paid => told[p] = 0

\* The relay has in hand what nobody else dispatches.
Emitting ==
    /\ relay.todo \subseteq relay.batch /\ relay.batch \subseteq Undispatched
    /\ ~relay.open => relay.batch = {}

Rings(p) ==
    told[p] + Cardinality(Bells(p)) + (IF Due(p) THEN 1 ELSE 0) <= 1 + faults

Heard == OneEvent /\ Emitting /\ \A p \in PaymentIds : Rings(p)

\* Sets of deliveries are finite, and are counted like this.
LEMMA Counting ==
    ASSUME NEW T, T \subseteq Runs
    PROVE  /\ Cardinality(T) \in Nat
           /\ \A S : S \subseteq T => Cardinality(S) \in Nat /\ Cardinality(S) <= Cardinality(T)
           /\ \A S, x : S \subseteq T \union {x} =>
                Cardinality(S) \in Nat /\ Cardinality(S) <= Cardinality(T) + 1
           /\ \A S : \A x \in T : S \subseteq T \ {x} =>
                Cardinality(S) \in Nat /\ Cardinality(S) + 1 <= Cardinality(T)
<1>1. IsFiniteSet(T) /\ Cardinality(T) \in Nat
  BY OutboxAssumption, FS_Subset, FS_CardinalityType
<1>2. ASSUME NEW S, S \subseteq T
      PROVE  Cardinality(S) \in Nat /\ Cardinality(S) <= Cardinality(T)
  BY <1>1, <1>2, FS_Subset, FS_CardinalityType
<1>3. ASSUME NEW S, NEW x, S \subseteq T \union {x}
      PROVE  Cardinality(S) \in Nat /\ Cardinality(S) <= Cardinality(T) + 1
  <2> DEFINE U == T \union {x}
  <2>1. IsFiniteSet(U) /\ Cardinality(U) <= Cardinality(T) + 1 /\ Cardinality(U) \in Nat
    BY <1>1, FS_AddElement, FS_CardinalityType
  <2> HIDE DEF U
  <2>2. Cardinality(S) <= Cardinality(U) /\ Cardinality(S) \in Nat
    BY <1>3, <2>1, FS_Subset, FS_CardinalityType DEF U
  <2> QED
    BY <1>1, <2>1, <2>2
<1>4. ASSUME NEW S, NEW x \in T, S \subseteq T \ {x}
      PROVE  Cardinality(S) \in Nat /\ Cardinality(S) + 1 <= Cardinality(T)
  <2> DEFINE U == T \ {x}
  <2>1. IsFiniteSet(U) /\ Cardinality(U) = Cardinality(T) - 1 /\ Cardinality(U) \in Nat
    BY <1>1, FS_RemoveElement, FS_CardinalityType
  <2> HIDE DEF U
  <2>2. Cardinality(S) <= Cardinality(U) /\ Cardinality(S) \in Nat
    BY <1>4, <2>1, FS_Subset, FS_CardinalityType DEF U
  <2> QED
    BY <1>1, <2>1, <2>2
<1> QED
  BY <1>1, <1>2, <1>3, <1>4

\* The outbox's rows and their references.
LEMMA EventRefs ==
    ASSUME TypeOK
    PROVE  /\ \A e \in EventIds : outbox[e].ref \in PaymentIds
           /\ \A e \in EventIds : outbox[e].dispatched \in BOOLEAN
           /\ \A r \in Runs : run[r].pc # "free" => run[r].event \in EventIds
           /\ outbox \in Seq([name : Names, ref : PaymentIds, dispatched : BOOLEAN])
           /\ \A e \in EventIds :
                outbox[e] \in [name : Names, ref : PaymentIds, dispatched : BOOLEAN]
           /\ EventIds = 1..Len(outbox) /\ Len(outbox) \in Nat
<1> DEFINE Rows == [name : Names, ref : PaymentIds, dispatched : BOOLEAN]
<1>1. /\ outbox \in Seq(Rows)
      /\ run \in [Runs -> RunType(EventIds, Handlers) \union {Free}]
  BY DEF TypeOK, OutboxTypeOK, Names
<1>2. \A row \in Rows : row.ref \in PaymentIds /\ row.dispatched \in BOOLEAN
  OBVIOUS
<1>3. \A r \in Runs : run[r].pc # "free" => run[r].event \in EventIds
  BY <1>1 DEF RunType, Free
<1> HIDE DEF Rows
<1>4. /\ EventIds = 1..Len(outbox) /\ Len(outbox) \in Nat
      /\ \A e \in EventIds : outbox[e] \in Rows
  BY <1>1 DEF EventIds
<1> QED
  BY <1>1, <1>2, <1>3, <1>4 DEF Rows

\* A delivery that a step leaves alone, lets go on or takes away is no new one.
GoesOn(r) ==
    \/ run'[r] = run[r]
    \/ run'[r].pc \notin {"check", "work"}
    \/ /\ run[r].pc \in {"check", "work"}
       /\ run'[r].handler = run[r].handler /\ run'[r].event = run[r].event

RefsStay == \A e \in EventIds : outbox'[e].ref = outbox[e].ref

LEMMA NoNewBell ==
    ASSUME TypeOK, RefsStay, NEW p, \A r \in Runs : GoesOn(r)
    PROVE  Bells(p)' \subseteq Bells(p)
<1> SUFFICES ASSUME NEW r \in Bells(p)' PROVE r \in Bells(p)
  OBVIOUS
<1>1. /\ r \in Runs /\ run'[r].pc \in {"check", "work"}
      /\ run'[r].handler = "billing.topup-notify"
      /\ outbox'[run'[r].event].ref = p
  BY DEF Bells, PaymentOf
<1>2. /\ run[r].pc \in {"check", "work"} /\ run[r].handler = "billing.topup-notify"
      /\ run'[r].event = run[r].event
  BY <1>1 DEF GoesOn
<1>3. run[r].event \in EventIds
  BY <1>1, <1>2, EventRefs
<1> QED
  BY <1>1, <1>2, <1>3 DEF Bells, PaymentOf, RefsStay

\* A payment's count stays within its bound when it rings no more than it was
\* about to, when a fault allows one more, and when its event is emitted.
LEMMA RingsStay ==
    ASSUME TypeOK, TypeOK', NEW p \in PaymentIds, Rings(p), told'[p] = told[p],
           \/ Bells(p)' \subseteq Bells(p) /\ (Due(p)' => Due(p)) /\ faults' >= faults
           \/ Bells(p)' \subseteq Bells(p) /\ faults' >= faults + 1
           \/ /\ Due(p) /\ ~Due(p)' /\ faults' >= faults
              /\ \E x : Bells(p)' \subseteq Bells(p) \union {x}
    PROVE  Rings(p)'
<1> DEFINE b == Cardinality(Bells(p))
           c == Cardinality(Bells(p)')
           d == IF Due(p) THEN 1 ELSE 0
           g == IF Due(p)' THEN 1 ELSE 0
<1>1. /\ faults \in Nat /\ faults' \in Nat /\ told[p] \in Nat
      /\ told[p] + b + d <= 1 + faults
  BY Types DEF TypeOK, OutboxTypeOK, Rings
<1>2. Bells(p) \subseteq Runs
  BY DEF Bells
<1>3. b \in Nat
  BY <1>2, Counting
<1>4. \/ c \in Nat /\ c <= b /\ (Due(p)' => Due(p)) /\ faults' >= faults
      \/ c \in Nat /\ c <= b /\ faults' >= faults + 1
      \/ c \in Nat /\ c <= b + 1 /\ Due(p) /\ ~Due(p)' /\ faults' >= faults
  BY <1>2, Counting
<1> HIDE DEF b, c
<1>5. told[p] + c + g <= 1 + faults'
  BY <1>1, <1>3, <1>4
<1> QED
  BY <1>5 DEF Rings, b, c, g

\* What most steps do: the outbox and the relay are left alone, and deliveries
\* go on.
LEMMA HeardIfQuiet ==
    ASSUME TypeOK, TypeOK', Heard, UNCHANGED <<outbox, relay, told>>,
           \A p \in PaymentIds : pay'[p].paid <=> pay[p].paid,
           \A r \in Runs : GoesOn(r), faults' >= faults
    PROVE  Heard'
<1>1. OneEvent'
  <2>1. \A e \in EventIds : outbox[e].ref \in PaymentIds
    BY EventRefs
  <2> QED
    BY <2>1 DEF Heard, OneEvent, EventIds
<1>2. Emitting'
  BY DEF Heard, Emitting, Undispatched, EventIds
<1>3. ASSUME NEW p \in PaymentIds PROVE Rings(p)'
  <2>1. Bells(p)' \subseteq Bells(p)
    BY NoNewBell DEF RefsStay
  <2>2. Due(p)' => Due(p)
    BY DEF Due, ToEmit, Undispatched, EventIds
  <2> QED
    BY <2>1, <2>2, RingsStay DEF Heard
<1> QED
  BY <1>1, <1>2, <1>3 DEF Heard

\* The event of a payment that was not paid is its first, and is still to emit.
LEMMA MarkPaidRings ==
    ASSUME TypeOK, TypeOK', Heard, NEW p \in PaymentIds, MarkPaid(p)
    PROVE  Heard'
<1> DEFINE n   == Len(outbox)
           new == [name |-> "billing.payment.paid", ref |-> p, dispatched |-> FALSE]
<1>1. /\ n \in Nat /\ EventIds = 1..n
      /\ \A e \in EventIds : outbox[e].ref \in PaymentIds
      /\ outbox \in Seq([name : Names, ref : PaymentIds, dispatched : BOOLEAN])
  BY EventRefs
<1>2. /\ ~pay[p].paid /\ outbox' = Append(outbox, new)
      /\ UNCHANGED <<relay, run, faults, told>>
  BY DEF MarkPaid, Publish
<1>3. /\ pay'[p].paid
      /\ \A q \in PaymentIds : q # p => pay'[q] = pay[q]
  BY DEF MarkPaid, TypeOK, PayType
<1> HIDE DEF n, new
<1>4. /\ EventIds' = 1..(n + 1) /\ outbox'[n + 1] = new
      /\ \A e \in EventIds : e \in EventIds' /\ outbox'[e] = outbox[e]
      /\ \A e \in EventIds' : e \in EventIds \/ e = n + 1
      /\ n + 1 \notin EventIds
  BY <1>1, <1>2 DEF n, EventIds
<1>5. new.ref = p /\ ~new.dispatched
  BY DEF new
<1>6. \A e \in EventIds : outbox[e].ref # p
  BY <1>2 DEF Heard, OneEvent
<1>7. OneEvent'
  <2>1. \A e, f \in EventIds' : outbox'[e].ref = outbox'[f].ref => e = f
    BY <1>4, <1>5, <1>6 DEF Heard, OneEvent
  <2>2. \A e \in EventIds' : pay'[outbox'[e].ref].paid
    BY <1>1, <1>3, <1>4, <1>5, <1>6 DEF Heard, OneEvent
  <2>3. \A q \in PaymentIds : ~pay'[q].paid => told'[q] = 0
    BY <1>2, <1>3 DEF Heard, OneEvent
  <2> QED
    BY <2>1, <2>2, <2>3 DEF OneEvent
<1>8. Undispatched' = Undispatched \union {n + 1}
  <2>1. \A e \in EventIds : outbox'[e].dispatched = outbox[e].dispatched
    BY <1>4
  <2>2. ~outbox'[n + 1].dispatched
    BY <1>4, <1>5
  <2>3. n + 1 \in EventIds'
    BY <1>1, <1>4 DEF n
  <2> QED
    BY <1>4, <2>1, <2>2, <2>3 DEF Undispatched
<1>9. Emitting'
  BY <1>2, <1>8 DEF Heard, Emitting
<1>10. ToEmit' = ToEmit \union {n + 1}
  <2>1. n + 1 \notin relay.batch
    BY <1>4 DEF Heard, Emitting, Undispatched
  <2> QED
    BY <1>2, <1>8, <2>1 DEF ToEmit
<1>11. \A r \in Runs : GoesOn(r)
  BY <1>2 DEF GoesOn
<1>12. RefsStay
  BY <1>4 DEF RefsStay
<1>13. faults \in Nat
  BY Types
<1>14. ASSUME NEW q \in PaymentIds, q # p PROVE Rings(q)'
  <2>1. Bells(q)' \subseteq Bells(q)
    BY <1>11, <1>12, NoNewBell
  <2>2. Due(q)' => Due(q)
    BY <1>4, <1>5, <1>10, <1>14 DEF Due, ToEmit, Undispatched
  <2> QED
    BY <1>2, <1>13, <2>1, <2>2, RingsStay DEF Heard
<1>15. Rings(p)'
  <2>1. Bells(p) = {}
    <3> SUFFICES ASSUME NEW r \in Bells(p) PROVE FALSE
      OBVIOUS
    <3>1. r \in Runs /\ run[r].pc # "free" /\ outbox[run[r].event].ref = p
      BY DEF Bells, PaymentOf
    <3> QED
      BY <1>6, <3>1, EventRefs
  <2>2. Bells(p)' = {}
    BY <1>11, <1>12, <2>1, NoNewBell
  <2>3. Cardinality(Bells(p)') = 0
    BY <2>2, FS_EmptySet
  <2>4. told'[p] = 0
    BY <1>2 DEF Heard, OneEvent
  <2>5. faults' \in Nat
    BY <1>2, <1>13
  <2>6. PICK d : (d = 0 \/ d = 1) /\ d = IF Due(p)' THEN 1 ELSE 0
    OBVIOUS
  <2>7. PICK c : c = 0 /\ c = Cardinality(Bells(p)')
    BY <2>3
  <2>8. PICK t : t = 0 /\ t = told'[p]
    BY <2>4
  <2>9. PICK f \in Nat : f = faults'
    BY <2>5
  <2>10. t + c + d <= 1 + f
    <3>1. \A x : x = 0 \/ x = 1 => 0 + 0 + x <= 1 + f
      BY <2>9
    <3> QED
      BY <2>6, <2>7, <2>8, <3>1
  <2> QED
    BY <2>6, <2>7, <2>8, <2>9, <2>10 DEF Rings
<1> QED
  BY <1>7, <1>9, <1>14, <1>15 DEF Heard

\* A tick begins, commits what it emitted, or rolls back and starts over.
LEMMA RelayRings ==
    ASSUME TypeOK, TypeOK', Heard, RelayBegin \/ RelayCommit \/ RelayRollback,
           UNCHANGED fiscalVars
    PROVE  Heard'
<1>1. /\ EventIds' = EventIds /\ RefsStay
      /\ run' = run /\ pay' = pay /\ told' = told
      /\ \A e \in EventIds : outbox[e].dispatched => outbox'[e].dispatched
  <2>1. /\ outbox \in Seq([name : Names, ref : PaymentIds, dispatched : BOOLEAN])
        /\ \A e \in EventIds : outbox[e] \in [name : Names, ref : PaymentIds,
                                               dispatched : BOOLEAN]
    BY EventRefs
  <2>2. CASE RelayCommit
    BY <2>1, <2>2 DEF RelayCommit, fiscalVars, EventIds, RefsStay
  <2>3. CASE outbox' = outbox
    BY <2>3 DEF RelayBegin, RelayCommit, RelayRollback, fiscalVars, EventIds, RefsStay
  <2> QED
    BY <2>2, <2>3 DEF RelayBegin, RelayRollback
<1>2. OneEvent'
  BY <1>1 DEF Heard, OneEvent, RefsStay
<1>3. \A r \in Runs : GoesOn(r)
  BY <1>1 DEF GoesOn
<1>4. faults \in Nat
  BY Types
<1>5. CASE RelayBegin
  <2>1. /\ outbox' = outbox /\ faults' = faults /\ relay.batch = {}
        /\ relay'.open /\ relay'.batch = NextBatch /\ relay'.todo = NextBatch
    BY <1>5 DEF RelayBegin, Heard, Emitting
  <2>2. Undispatched' = Undispatched
    BY <2>1 DEF Undispatched, EventIds
  <2>3. Emitting'
    BY <2>1, <2>2 DEF Emitting, NextBatch
  <2>4. ToEmit' = ToEmit
    BY <2>1, <2>2 DEF ToEmit
  <2>5. ASSUME NEW p \in PaymentIds PROVE Rings(p)'
    <3>1. Bells(p)' \subseteq Bells(p)
      BY <1>1, <1>3, NoNewBell
    <3>2. Due(p)' => Due(p)
      BY <2>1, <2>4 DEF Due
    <3> QED
      BY <1>1, <1>4, <2>1, <3>1, <3>2, RingsStay DEF Heard
  <2> QED
    BY <1>2, <2>3, <2>5 DEF Heard
<1>6. CASE RelayCommit
  <2>1. /\ faults' = faults /\ relay.todo = {}
        /\ ~relay'.open /\ relay'.batch = {} /\ relay'.todo = {}
    BY <1>6 DEF RelayCommit, NoRelay
  <2>2. Undispatched' = Undispatched \ relay.batch
    <3>1. /\ EventIds' = EventIds
          /\ \A e \in EventIds : e \in relay.batch => outbox'[e].dispatched
          /\ \A e \in EventIds : e \notin relay.batch => outbox'[e] = outbox[e]
      <4>1. \A e \in EventIds : outbox[e] \in [name : Names, ref : PaymentIds,
                                                dispatched : BOOLEAN]
        BY EventRefs
      <4> QED
        BY <1>1, <1>6, <4>1 DEF RelayCommit
    <3> QED
      BY <3>1 DEF Undispatched
  <2>3. Emitting'
    BY <2>1 DEF Emitting
  <2>4. ToEmit' = ToEmit
    BY <2>1, <2>2 DEF ToEmit
  <2>5. ASSUME NEW p \in PaymentIds PROVE Rings(p)'
    <3>1. Bells(p)' \subseteq Bells(p)
      BY <1>1, <1>3, NoNewBell
    <3>2. Due(p)' => Due(p)
      BY <1>1, <2>4 DEF Due, RefsStay, ToEmit, Undispatched
    <3> QED
      BY <1>1, <1>4, <2>1, <3>1, <3>2, RingsStay DEF Heard
  <2> QED
    BY <1>2, <2>3, <2>5 DEF Heard
<1>7. CASE RelayRollback
  <2>1. faults' = faults + 1 /\ relay'.batch = {} /\ relay'.todo = {}
    BY <1>7 DEF RelayRollback, NoRelay
  <2>2. Emitting'
    BY <2>1 DEF Emitting
  <2>3. ASSUME NEW p \in PaymentIds PROVE Rings(p)'
    <3>1. Bells(p)' \subseteq Bells(p)
      BY <1>1, <1>3, NoNewBell
    <3> QED
      BY <1>1, <1>4, <2>1, <3>1, RingsStay DEF Heard
  <2> QED
    BY <1>2, <2>2, <2>3 DEF Heard
<1> QED
  BY <1>5, <1>6, <1>7

\* An event is emitted: its payment is no longer due, and one delivery more has
\* still to tell its payer.
LEMMA EmitRings ==
    ASSUME TypeOK, TypeOK', Heard, NEW e \in relay.todo, Emit(e, HandlersOf(outbox[e])),
           UNCHANGED fiscalVars
    PROVE  Heard'
<1> DEFINE hs == HandlersOf(outbox[e])
           place == CHOOSE f \in [hs -> FreeRuns] :
                      \A h1, h2 \in hs : f[h1] = f[h2] => h1 = h2
           bell == "billing.topup-notify"
<1>1. /\ relay.open /\ UNCHANGED <<outbox, order, processed, faults>>
      /\ pay' = pay /\ told' = told
      /\ relay' = [relay EXCEPT !.todo = @ \ {e}]
      /\ run' = [r \in Runs |->
                   IF \E h \in hs : place[h] = r
                   THEN [pc |-> "check", event |-> e,
                         handler |-> CHOOSE h \in hs : place[h] = r]
                   ELSE run[r]]
  BY DEF Emit, fiscalVars
<1>2. /\ relay'.open = relay.open /\ relay'.batch = relay.batch
      /\ relay'.todo = relay.todo \ {e}
  BY <1>1 DEF TypeOK, OutboxTypeOK
<1>3. EventIds' = EventIds /\ Undispatched' = Undispatched
  BY <1>1 DEF EventIds, Undispatched
<1>4. OneEvent' /\ RefsStay
  BY <1>1, <1>3 DEF Heard, OneEvent, RefsStay
<1>5. Emitting'
  BY <1>2, <1>3 DEF Heard, Emitting
<1>6. e \in ToEmit /\ ToEmit' = ToEmit \ {e}
  BY <1>2, <1>3 DEF ToEmit, Heard, Emitting
<1> HIDE DEF hs, place
<1>7. ASSUME NEW r \in Runs
      PROVE  \/ run'[r] = run[r]
             \/ /\ run'[r].event = e
                /\ run'[r].handler = bell => place[bell] = r
  <2>1. CASE \E h \in hs : place[h] = r
    <3> DEFINE first == CHOOSE h \in hs : place[h] = r
    <3>1. run'[r] = [pc |-> "check", event |-> e, handler |-> first]
      BY <1>1, <2>1
    <3>2. place[first] = r
      BY <2>1
    <3> HIDE DEF first
    <3> QED
      BY <3>1, <3>2
  <2>2. CASE ~\E h \in hs : place[h] = r
    BY <1>1, <2>2
  <2> QED
    BY <2>1, <2>2
<1>8. faults \in Nat /\ outbox[e].ref \in PaymentIds
  BY Types, EventRefs DEF Heard, Emitting, Undispatched
<1>9. ASSUME NEW p \in PaymentIds, outbox[e].ref # p PROVE Rings(p)'
  <2>1. Bells(p)' \subseteq Bells(p)
    <3> SUFFICES ASSUME NEW r \in Bells(p)' PROVE r \in Bells(p)
      OBVIOUS
    <3>1. r \in Runs /\ outbox'[run'[r].event].ref = p
      BY DEF Bells, PaymentOf
    <3>2. run'[r] = run[r]
      BY <1>1, <1>7, <1>9, <3>1
    <3> QED
      BY <1>1, <3>1, <3>2 DEF Bells, PaymentOf
  <2>2. Due(p)' => Due(p)
    BY <1>1, <1>6 DEF Due
  <2> QED
    BY <1>1, <1>8, <2>1, <2>2, RingsStay DEF Heard
<1>10. ASSUME NEW p \in PaymentIds, outbox[e].ref = p PROVE Rings(p)'
  <2>1. Bells(p)' \subseteq Bells(p) \union {place[bell]}
    <3> SUFFICES ASSUME NEW r \in Bells(p)', r # place[bell] PROVE r \in Bells(p)
      OBVIOUS
    <3>1. /\ r \in Runs /\ run'[r].handler = bell
      BY DEF Bells, PaymentOf
    <3>2. run'[r] = run[r]
      BY <1>7, <3>1
    <3> QED
      BY <1>1, <3>1, <3>2 DEF Bells, PaymentOf
  <2>2. Due(p)
    BY <1>6, <1>10 DEF Due
  <2>3. ~Due(p)'
    <3>1. \A f \in ToEmit : outbox[f].ref = p => f = e
      BY <1>6, <1>10 DEF ToEmit, Undispatched, Heard, OneEvent
    <3> QED
      BY <1>1, <1>6, <3>1 DEF Due
  <2> QED
    BY <1>1, <1>8, <2>1, <2>2, <2>3, RingsStay DEF Heard
<1> QED
  BY <1>4, <1>5, <1>9, <1>10 DEF Heard

\* The notification rings, or is lost to a fault; either way it is no longer
\* about to.
LEMMA NotifyRings ==
    ASSUME TypeOK, TypeOK', Heard, NEW r \in Runs, Notify(r)
    PROVE  Heard'
<1>p. PICK p : p = PaymentOf(r)
  OBVIOUS
<1>1. /\ run[r].pc = "work" /\ run[r].handler = "billing.topup-notify"
      /\ UNCHANGED <<outbox, order, processed, relay, pay, submit, due, receipts>>
      /\ DoneWorking(r)
  BY DEF Notify, Working
<1>2. /\ run'[r].pc = "save"
      /\ \A q \in Runs : q # r => run'[q] = run[q]
  <2>1. /\ run \in [Runs -> RunType(EventIds, Handlers) \union {Free}]
        /\ run[r] \in RunType(EventIds, Handlers)
    BY <1>1, Types DEF Free
  <2> QED
    BY <2>1 DEF DoneWorking, RunType, Notify
<1>3. p \in PaymentIds /\ r \in Bells(p)
  BY <1>p, <1>1, EventRefs DEF PaymentOf, Bells
<1>4. \A q \in Runs : GoesOn(q)
  BY <1>2 DEF GoesOn
<1>5. faults \in Nat /\ told \in [PaymentIds -> Nat]
  BY Types DEF TypeOK
<1>6. CASE told' = told
  <2>1. faults' >= faults
    BY <1>5 DEF Notify
  <2>2. \A q \in PaymentIds : pay'[q].paid <=> pay[q].paid
    BY <1>1
  <2> QED
    BY <1>1, <1>4, <1>6, <2>1, <2>2, HeardIfQuiet
<1>7. CASE told' = [told EXCEPT ![p] = @ + 1] /\ faults' = faults
  <2>1. RefsStay /\ EventIds' = EventIds /\ Undispatched' = Undispatched /\ ToEmit' = ToEmit
    BY <1>1 DEF RefsStay, EventIds, Undispatched, ToEmit
  <2>2. /\ told'[p] = told[p] + 1
        /\ \A q \in PaymentIds : q # p => told'[q] = told[q]
    BY <1>3, <1>5, <1>7
  <2>3. pay[p].paid
    BY <1>p, <1>1, <1>3, EventRefs DEF Heard, OneEvent, PaymentOf
  <2>4. OneEvent'
    BY <1>1, <2>1, <2>2, <2>3 DEF Heard, OneEvent
  <2>5. Emitting'
    BY <1>1, <2>1 DEF Heard, Emitting
  <2>6. ASSUME NEW q \in PaymentIds PROVE (Due(q)' <=> Due(q)) /\ Bells(q)' \subseteq Bells(q)
    BY <1>1, <1>4, <2>1, NoNewBell DEF Due
  <2>7. ASSUME NEW q \in PaymentIds, q # p PROVE Rings(q)'
    BY <1>5, <1>7, <2>2, <2>6, <2>7, RingsStay DEF Heard
  <2>8. Rings(p)'
    <3>1. Bells(p)' \subseteq Bells(p) \ {r}
      BY <1>2, <1>3, <2>6 DEF Bells
    <3> DEFINE b == Cardinality(Bells(p))
               c == Cardinality(Bells(p)')
               d == IF Due(p) THEN 1 ELSE 0
    <3>2. Bells(p) \subseteq Runs
      BY DEF Bells
    <3>3. b \in Nat /\ c \in Nat /\ c + 1 <= b
      BY <1>3, <3>1, <3>2, Counting
    <3>4. told[p] + b + d <= 1 + faults /\ told[p] \in Nat
      BY <1>3, <1>5 DEF Heard, Rings
    <3> HIDE DEF b, c
    <3>5. told'[p] + c + d <= 1 + faults'
      BY <1>5, <1>7, <2>2, <3>3, <3>4
    <3> HIDE DEF d
    <3>6. d = IF Due(p)' THEN 1 ELSE 0
      BY <1>3, <2>6 DEF d
    <3> QED
      BY <3>5, <3>6 DEF Rings, c
  <2> QED
    BY <2>4, <2>5, <2>7, <2>8 DEF Heard
<1> QED
  BY <1>p, <1>6, <1>7 DEF Notify

\* submit() returns: its delivery was the receipt's, and goes on to its save.
LEMMA ReturnGoesOn ==
    ASSUME TypeOK, NEW s \in Submitters, Return(s)
    PROVE  \A r \in Runs : GoesOn(r)
<1>1. run \in [Runs -> RunType(EventIds, Handlers) \union {Free}]
  BY Types
<1>2. CASE s = "cron"
  BY <1>2 DEF Return, GoesOn
<1>3. CASE s # "cron"
  <2>1. run' = [run EXCEPT ![s] = [run[s] EXCEPT !.pc = "save"]]
    BY <1>1, <1>3 DEF Return, DoneWorking, Submitters
  <2>2. ASSUME NEW r \in Runs PROVE r = s => run'[r].pc = "save"
    <3>1. run[r] \in RunType(EventIds, Handlers) \/ run[r] = Free
      BY <1>1
    <3>2. [run[r] EXCEPT !.pc = "save"].pc = "save"
      BY <3>1 DEF RunType, Free
    <3> QED
      BY <1>1, <2>1, <3>2
  <2> QED
    BY <1>1, <2>1, <2>2 DEF GoesOn
<1> QED
  BY <1>2, <1>3

\* withIdempotency starts, skips, records or loses a delivery that is there.
LEMMA IdempotencyGoesOn ==
    ASSUME TypeOK, NEW q \in Runs,
           CheckProcessed(q) \/ SaveProcessed(q) \/ IdempotencyFails(q)
    PROVE  \A r \in Runs : GoesOn(r)
<1>1. run \in [Runs -> RunType(EventIds, Handlers) \union {Free}]
  BY Types
<1>2. /\ run[q] \in RunType(EventIds, Handlers)
      /\ \/ run' = [run EXCEPT ![q] = Free]
         \/ run[q].pc = "check" /\ run' = [run EXCEPT ![q] = [run[q] EXCEPT !.pc = "work"]]
  BY <1>1 DEF CheckProcessed, SaveProcessed, IdempotencyFails, Free
<1>3. run'[q] = Free \/ (run[q].pc = "check" /\ run'[q] = [run[q] EXCEPT !.pc = "work"])
  BY <1>1, <1>2
<1>4. GoesOn(q)
  BY <1>2, <1>3 DEF GoesOn, RunType, Free
<1>5. \A r \in Runs : r # q => run'[r] = run[r]
  BY <1>1, <1>2
<1> QED
  BY <1>4, <1>5 DEF GoesOn

\* The calls of submit() touch neither the outbox nor who has been paid.
LEMMA SubmitRings ==
    ASSUME TypeOK, TypeOK', Heard, NEW s \in Submitters, SubmitStep(s) \/ SubmitFails(s)
    PROVE  Heard'
<1>1. UNCHANGED <<outbox, relay, told>>
  BY DEF SubmitStep, SubmitFails, ClaimFiscal, ClaimLost, SendReceipt, MarkFiscalResult
<1>2. faults \in Nat /\ pay \in [PaymentIds -> PayType]
  BY Types
<1>3. faults' >= faults
  BY <1>2 DEF SubmitStep, SubmitFails, ClaimFiscal, ClaimLost, SendReceipt, MarkFiscalResult
<1>4. \A r \in Runs : GoesOn(r)
  <2>1. run' = run \/ Return(s)
    BY DEF SubmitStep, SubmitFails, ClaimFiscal, ClaimLost, SendReceipt, MarkFiscalResult
  <2> QED
    BY <2>1, ReturnGoesOn DEF GoesOn
<1>5. \A p \in PaymentIds : pay'[p].paid <=> pay[p].paid
  <2>1. CASE pay' = pay
    BY <2>1
  <2>2. CASE ClaimFiscal(s)
    BY <1>2, <2>2 DEF ClaimFiscal, PayType
  <2>3. CASE MarkFiscalResult(s)
    <3>1. PICK p : p = submit[s].id
      OBVIOUS
    <3>2. pay' = [pay EXCEPT ![p] = Settled(pay[p], submit[s].pc = "accepted")]
      BY <2>3, <3>1 DEF MarkFiscalResult
    <3>3. p \in PaymentIds =>
            (Settled(pay[p], submit[s].pc = "accepted").paid <=> pay[p].paid)
      BY <1>2 DEF Settled, PayType
    <3> QED
      BY <1>2, <3>2, <3>3
  <2> QED
    BY <2>1, <2>2, <2>3 DEF SubmitStep, SubmitFails, ClaimLost, SendReceipt
<1> QED
  BY <1>1, <1>3, <1>4, <1>5, HeardIfQuiet

\* A restart forgets every delivery, and what the relay had in hand is emitted
\* again: the fault pays for it.
LEMMA CrashRings ==
    ASSUME TypeOK, TypeOK', Heard, Crash
    PROVE  Heard'
<1>1. /\ UNCHANGED <<outbox, pay, told>> /\ faults' = faults + 1
      /\ relay'.batch = {} /\ relay'.todo = {}
      /\ run' = [r \in Runs |-> Free]
  BY DEF Crash, OutboxCrash, NoRelay
<1>2. OneEvent' /\ Emitting' /\ RefsStay
  BY <1>1 DEF Heard, OneEvent, Emitting, EventIds, RefsStay
<1>3. \A r \in Runs : GoesOn(r)
  BY <1>1 DEF GoesOn, Free
<1>4. faults' >= faults + 1
  BY <1>1, Types
<1>5. ASSUME NEW p \in PaymentIds PROVE Rings(p)'
  <2>1. Bells(p)' \subseteq Bells(p)
    BY <1>2, <1>3, NoNewBell
  <2> QED
    BY <1>1, <1>4, <2>1, RingsStay DEF Heard
<1> QED
  BY <1>2, <1>5 DEF Heard

LEMMA InitHeard == Init => Heard
<1> SUFFICES ASSUME Init PROVE Heard
  OBVIOUS
<1>1. /\ outbox = << >> /\ relay = NoRelay /\ run = [r \in Runs |-> Free] /\ faults = 0
      /\ told = [p \in PaymentIds |-> 0]
  BY DEF Init, OutboxInit
<1>2. EventIds = {} /\ Undispatched = {} /\ ToEmit = {}
  BY <1>1 DEF EventIds, Undispatched, ToEmit
<1>3. OneEvent /\ Emitting
  BY <1>1, <1>2 DEF OneEvent, Emitting, NoRelay
<1>4. ASSUME NEW p \in PaymentIds PROVE Rings(p)
  <2>1. Bells(p) = {}
    BY <1>1 DEF Bells, Free
  <2>2. Cardinality(Bells(p)) = 0
    BY <2>1, FS_EmptySet
  <2>3. ~Due(p)
    BY <1>2 DEF Due
  <2> QED
    BY <1>1, <2>2, <2>3 DEF Rings
<1> QED
  BY <1>3, <1>4 DEF Heard

LEMMA NextHeard == TypeOK /\ TypeOK' /\ Heard /\ [Next]_vars => Heard'
<1> SUFFICES ASSUME TypeOK, TypeOK', Heard, [Next]_vars PROVE Heard'
  OBVIOUS
<1>1. ASSUME NEW p \in PaymentIds, MarkPaid(p) PROVE Heard'
  BY <1>1, MarkPaidRings
<1>2. faults \in Nat /\ pay \in [PaymentIds -> PayType]
  BY Types
<1>3. CASE RelayStep \/ RelayFails
  BY <1>3, RelayRings, EmitRings DEF RelayStep, RelayFails
<1>4. ASSUME UNCHANGED <<outbox, relay, told>>, pay' = pay, faults' >= faults,
             \A r \in Runs : GoesOn(r)
      PROVE  Heard'
  BY <1>4, HeardIfQuiet
<1>5. ASSUME NEW r \in Runs, HandlerStep(r) \/ HandlerFails(r) PROVE Heard'
  <2>1. CASE Notify(r)
    BY <2>1, NotifyRings
  <2>2. CASE StartSubmit(r)
    BY <1>2, <1>4, <2>2 DEF StartSubmit, GoesOn
  <2>3. ASSUME CheckProcessed(r) \/ SaveProcessed(r) \/ IdempotencyFails(r),
               UNCHANGED fiscalVars
        PROVE  Heard'
    <3>1. UNCHANGED <<outbox, relay>> /\ faults' >= faults
      BY <1>2, <2>3 DEF CheckProcessed, SaveProcessed, IdempotencyFails
    <3> QED
      BY <1>4, <2>3, <3>1, IdempotencyGoesOn DEF fiscalVars
  <2> QED
    BY <1>5, <2>1, <2>2, <2>3 DEF HandlerStep, HandlerFails
<1>6. CASE RetryDue \/ RetryNext
  BY <1>2, <1>4, <1>6 DEF RetryDue, RetryNext, GoesOn
<1>7. ASSUME NEW s \in Submitters, SubmitStep(s) \/ SubmitFails(s) PROVE Heard'
  BY <1>7, SubmitRings
<1>8. ASSUME NEW p \in PaymentIds, ClaimAges(p) PROVE Heard'
  <2>1. /\ UNCHANGED <<outbox, relay, told, run>> /\ faults' = faults
        /\ pay' = [pay EXCEPT ![p].stale = TRUE]
    BY <1>8 DEF ClaimAges
  <2>2. \A q \in PaymentIds : pay'[q].paid <=> pay[q].paid
    BY <1>2, <2>1 DEF PayType
  <2>3. \A r \in Runs : GoesOn(r)
    BY <2>1 DEF GoesOn
  <2>4. faults' >= faults
    BY <1>2, <2>1
  <2> QED
    BY <2>1, <2>2, <2>3, <2>4, HeardIfQuiet
<1>9. CASE Crash
  BY <1>9, CrashRings
<1>10. CASE UNCHANGED vars
  BY <1>2, <1>4, <1>10 DEF vars, GoesOn
<1> QED
  BY <1>1, <1>3, <1>5, <1>6, <1>7, <1>8, <1>9, <1>10 DEF Next

\* However often the relay emits a paid event again, and the cron retries its
\* receipt, its payer is told once, and once more at most for each fault
\* (billing-events.listener.ts:35-37).
THEOREM PayerToldOnce == Spec => []RetryDoesNotRenotify
<1>1. TypeOK /\ Heard => RetryDoesNotRenotify
  <2> SUFFICES ASSUME TypeOK, Heard, NEW p \in PaymentIds PROVE told[p] <= 1 + faults
    BY DEF RetryDoesNotRenotify
  <2>1. Cardinality(Bells(p)) \in Nat
    BY Counting DEF Bells
  <2>2. faults \in Nat /\ told[p] \in Nat
    BY Types DEF TypeOK
  <2> QED
    BY <2>1, <2>2 DEF Heard, Rings
<1> QED
  BY <1>1, InitHeard, NextHeard, TypeCorrect, PTL DEF Spec

-----------------------------------------------------------------------------
(* Listings. *)

\* The projector has the event in hand; it has recorded it; it has written the
\* map for it.
Projects(r) == run[r] # Free /\ run[r].handler = Projector
Seen(e) == <<e, Projector>> \in processed
Took(e) == Seen(e) \/ \E r \in Runs : Projects(r) /\ run[r].event = e /\ run[r].pc = "save"

Last == Len(outbox)
LastTaken == Last # 0 /\ Took(Last)
InOrder == \A i \in DOMAIN order : order[i] = i

\* The newest event is about the listing as it is, or as an edit found it.
Told ==
    /\ Len(order) = Last /\ Last <= MaxEvents
    /\ listing.ver <= Last
    /\ \A q \in Requests : req[q] # Idle => listing.status # "NONE"
    /\ Last = 0 => listing.status = "NONE" /\ pin = NoPin
    /\ Last # 0 => listing.status # "NONE"
    /\ Last # 0 /\ outbox[Last].name = "listing.archived" => listing.status = "ARCHIVED"

\* The projector works on one event at a time, one that the relay has emitted
\* and not committed, and past its check on one that is not recorded.
OneAtATime ==
    /\ ~relay.open => relay.batch = {} /\ relay.todo = {}
    /\ relay.todo \subseteq relay.batch /\ relay.batch \subseteq Undispatched
    /\ \A r \in Runs : Projects(r) => run[r].event \in relay.batch \ relay.todo
    /\ \A r, t \in Runs : Projects(r) /\ Projects(t) => r = t
    /\ \A r \in Runs : Projects(r) /\ run[r].pc # "check" => ~Seen(run[r].event)

\* Unless a delivery threw, what was emitted is recorded or in hand, and what
\* was dispatched is recorded.
Served ==
    ~threw => \A e \in EventIds :
      /\ outbox[e].dispatched => Seen(e)
      /\ e \in relay.batch \ relay.todo =>
           Seen(e) \/ \E r \in Runs : Projects(r) /\ run[r].event = e

\* Who has written the map for the newest event has written the listing as it
\* is, or nothing.
PinSound == LastTaken => pin \in {NoPin, Projection}

\* Of events in their order the relay takes the first and emits them in turn.
Sorted ==
    /\ \A e \in relay.batch, f \in Undispatched : f < e => f \in relay.batch
    /\ \A e \in relay.batch \ relay.todo, f \in relay.todo : e < f

\* So the projector works through them in turn, and none comes after the newest.
InTurn ==
    ~threw =>
      /\ \A e, f \in EventIds : f < e /\ Seen(e) => Seen(f)
      /\ \A r \in Runs, f \in EventIds : Projects(r) /\ f < run[r].event => Seen(f)
      /\ LastTaken => pin = Projection

MapInv ==
    /\ ListingsTypeOK /\ Told /\ OneAtATime /\ Served /\ PinSound
    /\ InOrder => Sorted /\ InTurn

ListingsRows == OutboxTypeOK(EventNames, {1}, {Projector, BidCloser})

\* The types, unfolded.
LEMMA MapTypes ==
    ASSUME ListingsTypeOK
    PROVE  /\ ListingsRows
           /\ outbox \in Seq([name : EventNames, ref : {1}, dispatched : BOOLEAN])
           /\ EventIds = 1..Last /\ Last \in Nat
           /\ order \in Seq(EventIds)
           /\ processed \subseteq EventIds \X {Projector, BidCloser}
           /\ relay.batch \subseteq EventIds /\ relay.todo \subseteq EventIds
           /\ relay \in [open : BOOLEAN, batch : SUBSET EventIds, todo : SUBSET EventIds]
           /\ run \in [Runs -> RunType(EventIds, {Projector, BidCloser}) \union {Free}]
           /\ \A r \in Runs : run[r] # Free => run[r] \in RunType(EventIds, {Projector, BidCloser})
           /\ Projector # BidCloser
BY DEF ListingsTypeOK, ListingsRows, OutboxTypeOK, EventIds, Projector, BidCloser, Last

\* An execution that has begun is not a free place.
LEMMA BusyRun ==
    ASSUME ListingsTypeOK, NEW r \in Runs, run[r].pc \in {"check", "work", "save"}
    PROVE  run[r] # Free /\ run[r] \in RunType(EventIds, {Projector, BidCloser})
<1>1. run[r] # Free
  BY DEF Free
<1> QED
  BY <1>1, MapTypes

\* The mark that nothing is projected, and what is.
LEMMA PinTypes ==
    ASSUME ListingsTypeOK PROVE NoPin \in PinType /\ Projection \in PinType
<1>1. listing.ver \in 0..MaxEvents /\ MaxEvents \in Nat
  BY ListingsAssumption DEF ListingsTypeOK
<1> QED
  BY <1>1 DEF NoPin, PinType, Projection

\* publish adds one row, and the order of created_at stays the order of the
\* commits only if it is added at the end.
LEMMA PublishAdds ==
    ASSUME ListingsTypeOK, Len(order) = Last, NEW name, NEW since, Publish(name, 1, since)
    PROVE  /\ Len(order') = Len(outbox') /\ Len(outbox') = Last + 1
           /\ \A e \in EventIds : outbox'[e] = outbox[e]
           /\ outbox'[Last + 1] = [name |-> name, ref |-> 1, dispatched |-> FALSE]
           /\ InOrder' => InOrder
<1> DEFINE n == Len(outbox)
<1>1. /\ outbox \in Seq([name : EventNames, ref : {1}, dispatched : BOOLEAN])
      /\ n \in Nat /\ EventIds = 1..n /\ order \in Seq(EventIds) /\ Len(order) = n
      /\ DOMAIN order = 1..n
  BY MapTypes DEF Last
<1>2. outbox' = Append(outbox, [name |-> name, ref |-> 1, dispatched |-> FALSE])
  BY DEF Publish
<1>3. /\ Len(outbox') = n + 1 /\ \A e \in EventIds : outbox'[e] = outbox[e]
      /\ outbox'[n + 1] = [name |-> name, ref |-> 1, dispatched |-> FALSE]
  BY <1>1, <1>2
<1>4. PICK k \in 1..(n + 1) :
        order' = SubSeq(order, 1, k - 1) \o <<n + 1>> \o SubSeq(order, k, n)
  BY <1>1 DEF Publish
<1>5. order \in Seq(Nat)
  BY <1>1
<1>6. PICK a : a = SubSeq(order, 1, k - 1)
  OBVIOUS
<1>7. a \in Seq(Nat) /\ Len(a) = k - 1 /\ \A i \in 1..(k - 1) : a[i] = order[i]
  <2>0. n \in Nat
    BY <1>1
  <2>1. k - 1 \in Nat /\ k - 1 <= n /\ \A i \in 1..(k - 1) : i \in 1..n
    BY <2>0
  <2>2. \A i \in 1..(k - 1) : order[i] \in Nat
    <3>1. \A i \in DOMAIN order : order[i] \in Nat
      BY <1>5
    <3>2. DOMAIN order = 1..n
      BY <1>1
    <3> QED
      BY <2>1, <3>1, <3>2
  <2>3. /\ a \in Seq(Nat)
        /\ Len(a) = IF 1 <= k - 1 THEN (k - 1) - 1 + 1 ELSE 0
        /\ \A i \in 1..((k - 1) - 1 + 1) : a[i] = order[1 + i - 1]
    BY <1>6, <2>1, <2>2, SubSeqProperties
  <2>4. Len(a) = k - 1 /\ (k - 1) - 1 + 1 = k - 1
    BY <2>1, <2>3
  <2>5. \A i \in 1..(k - 1) : 1 + i - 1 = i
    BY <2>1
  <2> QED
    BY <2>3, <2>4, <2>5
<1>8. PICK c : c = SubSeq(order, k, n)
  OBVIOUS
<1>9. c \in Seq(Nat) /\ Len(c) = n - k + 1
  <2>0. n \in Nat
    BY <1>1
  <2>1. k \in Int /\ n \in Int /\ \A i \in k..n : i \in 1..n
    BY <2>0
  <2>2. \A i \in k..n : order[i] \in Nat
    <3>1. \A i \in DOMAIN order : order[i] \in Nat
      BY <1>5
    <3>2. DOMAIN order = 1..n
      BY <1>1
    <3> QED
      BY <2>1, <3>1, <3>2
  <2>3. c \in Seq(Nat) /\ Len(c) = IF k <= n THEN n - k + 1 ELSE 0
    BY <1>8, <2>1, <2>2, SubSeqProperties
  <2> QED
    BY <2>0, <2>3
<1>10. PICK ab : ab = a \o <<n + 1>>
  OBVIOUS
<1>11. /\ ab \in Seq(Nat) /\ Len(ab) = k /\ ab[k] = n + 1
       /\ \A i \in 1..(k - 1) : ab[i] = order[i]
  <2>1. PICK b : b = <<n + 1>>
    OBVIOUS
  <2>2. b \in Seq(Nat) /\ Len(b) = 1 /\ b[1] = n + 1
    BY <1>1, <2>1
  <2>3. ab = a \o b
    BY <1>10, <2>1
  <2>4. /\ ab \in Seq(Nat) /\ Len(ab) = Len(a) + Len(b)
        /\ \A i \in 1..(Len(a) + Len(b)) : ab[i] = IF i <= Len(a) THEN a[i] ELSE b[i - Len(a)]
    BY <1>7, <2>2, <2>3, ConcatProperties
  <2>5. k \in Nat /\ k >= 1 /\ Len(a) + Len(b) = k /\ k - Len(a) = 1
    BY <1>1, <1>7, <2>2
  <2>6. ab[k] = n + 1
    BY <1>7, <2>2, <2>4, <2>5
  <2>7. ASSUME NEW i \in 1..(k - 1) PROVE ab[i] = order[i]
    <3>1. i \in 1..(Len(a) + Len(b)) /\ i <= Len(a)
      BY <1>7, <2>5
    <3>2. ab[i] = a[i]
      BY <2>4, <3>1
    <3> QED
      BY <1>7, <3>2
  <2> QED
    BY <2>4, <2>5, <2>6, <2>7
<1>12. order' = ab \o c
  BY <1>4, <1>6, <1>8, <1>10
<1>13. Len(order') = n + 1 /\ order'[k] = n + 1 /\ DOMAIN order' = 1..(n + 1)
       /\ \A i \in 1..(k - 1) : order'[i] = order[i]
  BY <1>1, <1>9, <1>11, <1>12
<1>14. InOrder' => InOrder
  <2> SUFFICES ASSUME InOrder' PROVE InOrder
    OBVIOUS
  <2>1. order'[k] = k
    BY <1>13 DEF InOrder
  <2>2. k = n + 1
    BY <1>13, <2>1
  <2> QED
    BY <1>1, <1>13, <2>2 DEF InOrder
<1> QED
  BY <1>3, <1>13, <1>14 DEF Last

\* A change of the listing is published in its own transaction, and nobody has
\* taken the new event yet.
LEMMA AnnounceInv ==
    ASSUME MapInv, NEW name \in EventNames, NEW since, Announce(name, since),
           UNCHANGED <<processed, relay, run, faults, pin, threw>>,
           listing' \in [status : Statuses, ver : 0..MaxEvents],
           req' \in [Requests -> ReqType],
           listing'.ver <= Last + 1, listing'.status # "NONE",
           name = "listing.archived" => listing'.status = "ARCHIVED"
    PROVE  MapInv'
<1>1. ListingsTypeOK /\ Told /\ OneAtATime /\ Served /\ Publish(name, 1, since)
  BY DEF MapInv, Announce
<1>2. /\ Len(order') = Len(outbox') /\ Len(outbox') = Last + 1
      /\ \A e \in EventIds : outbox'[e] = outbox[e]
      /\ outbox'[Last + 1] = [name |-> name, ref |-> 1, dispatched |-> FALSE]
      /\ InOrder' => InOrder
  BY <1>1, PublishAdds DEF Told
<1>3. ListingsTypeOK'
  <2>1. OutboxTypeOK(EventNames, {1}, {Projector, BidCloser})'
    BY <1>1, PublishType DEF ListingsTypeOK
  <2> QED
    BY <1>1, <2>1 DEF ListingsTypeOK
<1>4. /\ EventIds = 1..Last /\ Last \in Nat /\ EventIds' = 1..(Last + 1) /\ Last' = Last + 1
      /\ processed \subseteq EventIds \X {Projector, BidCloser}
      /\ relay.batch \subseteq EventIds /\ relay.todo \subseteq EventIds
      /\ run \in [Runs -> RunType(EventIds, {Projector, BidCloser}) \union {Free}]
      /\ \A r \in Runs : run[r] # Free => run[r] \in RunType(EventIds, {Projector, BidCloser})
  <2>1. EventIds' = 1..Len(outbox')
    BY <1>3 DEF ListingsTypeOK, OutboxTypeOK, EventIds
  <2> QED
    BY <1>1, <1>2, <2>1, MapTypes DEF Last
<1>5. Undispatched' = Undispatched \union {Last + 1}
  BY <1>2, <1>4 DEF Undispatched
<1>6. /\ \A e : Seen(e)' <=> Seen(e)
      /\ \A r \in Runs : (Projects(r)' <=> Projects(r)) /\ (Projects(r) => run[r].event \in EventIds)
      /\ \A e : Seen(e) => e \in EventIds
  BY <1>4 DEF Seen, Projects, RunType
<1>7. ~LastTaken'
  <2>1. Last' \notin EventIds
    BY <1>4
  <2>2. ~Seen(Last)'
    BY <1>4, <2>1 DEF Seen
  <2>3. ASSUME NEW r \in Runs, Projects(r)' PROVE run'[r].event # Last'
    BY <1>6, <2>1, <2>3
  <2> QED
    BY <2>2, <2>3 DEF LastTaken, Took
<1>8. Told'
  <2>1. Last < MaxEvents /\ MaxEvents \in Nat
    BY ListingsAssumption DEF Announce, Last
  <2> QED
    BY <1>2, <1>4, <2>1 DEF Told
<1>9. OneAtATime'
  BY <1>1, <1>5, <1>6 DEF OneAtATime
<1>10. Served'
  BY <1>1, <1>2, <1>4, <1>6 DEF Served
<1>11. PinSound'
  BY <1>7 DEF PinSound
<1>12. InOrder' => Sorted' /\ InTurn'
  <2> SUFFICES ASSUME InOrder' PROVE Sorted' /\ InTurn'
    OBVIOUS
  <2>1. Sorted /\ InTurn
    BY <1>2 DEF MapInv
  <2>2. Sorted'
    BY <1>4, <1>5, <2>1 DEF Sorted
  <2>3. InTurn'
    BY <1>4, <1>6, <1>7, <2>1 DEF InTurn
  <2> QED
    BY <2>2, <2>3
<1> QED
  BY <1>3, <1>8, <1>9, <1>10, <1>11, <1>12 DEF MapInv

\* What concerns neither the projector nor its tables leaves the rest as it was.
LEMMA RestStays ==
    ASSUME OneAtATime, Served, PinSound, InOrder => Sorted /\ InTurn,
           UNCHANGED <<outbox, order, relay, listing, pin, threw>>,
           \A e : <<e, Projector>> \in processed' <=> <<e, Projector>> \in processed,
           \A r \in Runs : /\ Projects(r)' <=> Projects(r)
                           /\ Projects(r) => run'[r] = run[r]
    PROVE  OneAtATime' /\ Served' /\ PinSound' /\ (InOrder' => Sorted' /\ InTurn')
<1>1. \A e : (Seen(e)' <=> Seen(e)) /\ (Took(e)' <=> Took(e))
  BY DEF Seen, Took
<1>2. /\ EventIds' = EventIds /\ Undispatched' = Undispatched /\ Last' = Last
      /\ Projection' = Projection /\ (InOrder' <=> InOrder) /\ (LastTaken' <=> LastTaken)
  BY <1>1 DEF EventIds, Undispatched, Last, Projection, InOrder, LastTaken
<1>3. OneAtATime'
  BY <1>1, <1>2 DEF OneAtATime
<1>4. Served'
  BY <1>1, <1>2 DEF Served
<1>5. PinSound'
  BY <1>1, <1>2 DEF PinSound
<1>6. InOrder' => Sorted' /\ InTurn'
  BY <1>1, <1>2 DEF Sorted, InTurn
<1> QED
  BY <1>3, <1>4, <1>5, <1>6

\* What the requests do.
LEMMA RequestInv ==
    ASSUME MapInv,
           Create \/ \E q \in Requests : (\E op \in Ops : Load(q, op)) \/ Commit(q)
    PROVE  MapInv'
<1>1. /\ ListingsTypeOK /\ Told /\ Last \in Nat /\ MaxEvents \in Nat
      /\ listing \in [status : Statuses, ver : 0..MaxEvents]
      /\ req \in [Requests -> ReqType]
  BY MapTypes, ListingsAssumption DEF MapInv, ListingsTypeOK
<1>2. CASE Create
  <2>1. /\ listing' \in [status : Statuses, ver : 0..MaxEvents]
        /\ listing'.status = "ACTIVE" /\ listing'.ver = 1
    <3>1. "ACTIVE" \in Statuses /\ 1 \in 0..MaxEvents
      BY <1>1, ListingsAssumption DEF Statuses
    <3>2. listing' = [listing EXCEPT !.status = "ACTIVE", !.ver = 1]
      BY <1>2 DEF Create
    <3> QED
      BY <1>1, <3>1, <3>2
  <2>2. "listing.published" \in EventNames
    BY DEF EventNames
  <2> QED
    BY <1>1, <1>2, <2>1, <2>2, AnnounceInv DEF Create
<1>3. ASSUME NEW q \in Requests, NEW op \in Ops, Load(q, op) PROVE MapInv'
  <2>1. /\ UNCHANGED <<outbox, order, processed, relay, run, faults, listing, pin, threw>>
        /\ listing.status # "NONE"
        /\ req' = [req EXCEPT ![q] = [pc |-> "tx", op |-> op, since |-> Len(outbox)]]
    BY <1>3 DEF Load, outboxVars, Admits
  <2>2. Len(outbox) \in 0..MaxEvents
    BY <1>1 DEF Last, Told
  <2>3. [pc |-> "tx", op |-> op, since |-> Len(outbox)] \in ReqType
    BY <2>2 DEF ReqType
  <2>4. req' \in [Requests -> ReqType]
    BY <1>1, <2>1, <2>3
  <2>5. ListingsTypeOK'
    BY <1>1, <2>1, <2>4 DEF ListingsTypeOK, OutboxTypeOK, EventIds
  <2>6. Told'
    BY <1>1, <2>1 DEF Told, Last
  <2>7. \A r \in Runs : Projects(r)' <=> Projects(r)
    BY <2>1 DEF Projects
  <2>8. OneAtATime' /\ Served' /\ PinSound' /\ (InOrder' => Sorted' /\ InTurn')
    BY <2>1, <2>7, RestStays DEF MapInv
  <2> QED
    BY <2>5, <2>6, <2>8 DEF MapInv
<1>4. ASSUME NEW q \in Requests, Commit(q) PROVE MapInv'
  <2>1. PICK op : op = req[q].op
    OBVIOUS
  <2>2. req[q] \in ReqType /\ req[q] # Idle
    BY <1>1, <1>4 DEF Commit, Idle
  <2>3. op \in Ops
    BY <2>1, <2>2 DEF ReqType
  <2>4. EventOf(op) \in EventNames
    BY <2>3 DEF EventOf, EventNames, Ops
  <2>5. listing' = Written(op) /\ Announce(EventOf(op), req[q].since) /\ Last < MaxEvents
    BY <1>4, <2>1 DEF Commit, Announce, Last
  <2>6. /\ listing.ver \in Nat /\ listing.ver <= Last /\ listing.status \in Statuses
        /\ listing.status # "NONE"
    BY <1>1, <2>2 DEF Told
  <2>7. /\ listing' \in [status : Statuses, ver : 0..MaxEvents] /\ listing'.ver <= Last + 1
        /\ listing'.status # "NONE"
        /\ EventOf(op) = "listing.archived" => listing'.status = "ARCHIVED"
    <3>1. CASE op \in {"archive", "sold", "restore"}
      <4>1. PICK to \in Statuses \ {"NONE"} :
              listing' = [listing EXCEPT !.status = to] /\ (op = "archive" => to = "ARCHIVED")
        BY <2>5, <3>1 DEF Written, Statuses
      <4>2. op # "archive" => EventOf(op) # "listing.archived"
        BY <3>1 DEF EventOf
      <4> QED
        BY <1>1, <2>6, <4>1, <4>2
    <3>2. CASE op \notin {"archive", "sold", "restore"}
      <4>1. PICK v \in 0..MaxEvents : v = listing.ver + 1
        BY <1>1, <2>5, <2>6
      <4>2. listing' = [listing EXCEPT !.ver = v]
        BY <2>5, <3>2, <4>1 DEF Written
      <4>3. EventOf(op) # "listing.archived"
        BY <2>3, <3>2, ListingsAssumption DEF EventOf, Ops
      <4> QED
        BY <1>1, <2>6, <4>1, <4>2, <4>3
    <3> QED
      BY <3>1, <3>2
  <2>8. req' \in [Requests -> ReqType]
    BY <1>1, <1>4 DEF Commit, ReqType
  <2>9. UNCHANGED <<processed, relay, run, faults, pin, threw>>
    BY <1>4 DEF Commit
  <2> QED
    BY <2>4, <2>5, <2>7, <2>8, <2>9, AnnounceInv
<1> QED
  BY <1>2, <1>3, <1>4

\* The outbox's steps say nothing new.
LEMMA ToldStays ==
    ASSUME Told, Len(outbox') = Len(outbox), UNCHANGED <<order, listing, req, pin>>,
           \A e \in 1..Last : outbox'[e].name = outbox[e].name, Last \in Nat
    PROVE  Told'
BY DEF Told, Last

\* The projector's check: an event it has recorded is let go, another it takes.
LEMMA CheckInv ==
    ASSUME MapInv, NEW r \in Runs, CheckProcessed(r), UNCHANGED listingVars
    PROVE  MapInv'
<1>1. /\ ListingsTypeOK /\ Told /\ OneAtATime /\ Served /\ PinSound
      /\ run[r].pc = "check"
      /\ UNCHANGED <<outbox, order, processed, relay, faults, listing, pin, req, threw>>
  BY DEF MapInv, CheckProcessed, listingVars
<1>2. ListingsTypeOK' /\ \A q \in Runs : q # r => run'[q] = run[q]
  BY <1>1, IdempotencyType DEF ListingsTypeOK
<1>3. /\ run[r] # Free /\ run[r] \in RunType(EventIds, {Projector, BidCloser})
      /\ run \in [Runs -> RunType(EventIds, {Projector, BidCloser}) \union {Free}]
  BY <1>1, BusyRun, MapTypes
<1>4. PICK e \in EventIds : e = run[r].event
  BY <1>3 DEF RunType
<1>5. Told' /\ Last \in Nat
  BY <1>1, MapTypes, ToldStays
<1>6. \/ /\ <<e, run[r].handler>> \in processed /\ run'[r] = Free
      \/ /\ <<e, run[r].handler>> \notin processed
         /\ run'[r] = [run[r] EXCEPT !.pc = "work"]
  BY <1>3, <1>4 DEF CheckProcessed
<1>7. \A q \in Runs : q # r => (Projects(q)' <=> Projects(q))
  BY <1>2 DEF Projects
<1>8. CASE ~Projects(r)
  <2>1. ~Projects(r)'
    BY <1>3, <1>6, <1>8 DEF Projects, RunType
  <2>2. \A q \in Runs : (Projects(q)' <=> Projects(q)) /\ (Projects(q) => run'[q] = run[q])
    BY <1>2, <1>7, <1>8, <2>1
  <2> QED
    BY <1>1, <1>2, <1>5, <2>2, RestStays DEF MapInv
<1>9. CASE Projects(r)
  <2>1. run[r].handler = Projector /\ (Seen(e) <=> <<e, run[r].handler>> \in processed)
    BY <1>9 DEF Projects, Seen
  <2>2. \A q \in Runs : q # r => ~Projects(q) /\ ~Projects(q)'
    BY <1>1, <1>7, <1>9 DEF OneAtATime
  <2>3. \A f : Seen(f)' <=> Seen(f)
    BY <1>1 DEF Seen
  <2>4. \/ Seen(e) /\ ~Projects(r)'
        \/ ~Seen(e) /\ Projects(r)' /\ run'[r].event = e /\ run'[r].pc = "work"
    <3>1. CASE run'[r] = Free /\ Seen(e)
      BY <3>1 DEF Projects
    <3>2. CASE run'[r] = [run[r] EXCEPT !.pc = "work"] /\ ~Seen(e)
      <4>1. /\ run'[r].pc = "work" /\ run'[r].event = e /\ run'[r].handler = Projector
        BY <1>3, <1>4, <2>1, <3>2 DEF RunType
      <4>2. run'[r] # Free
        BY <4>1 DEF Free
      <4> QED
        BY <3>2, <4>1, <4>2 DEF Projects
    <3> QED
      BY <1>6, <2>1, <3>1, <3>2
  <2>5. \A q \in Runs : Projects(q)' => q = r /\ run'[q].event = e /\ ~Seen(e) /\ run'[q].pc = "work"
    BY <2>2, <2>4
  <2>6. /\ EventIds' = EventIds /\ Undispatched' = Undispatched /\ Last' = Last
        /\ Projection' = Projection /\ (InOrder' <=> InOrder)
    BY <1>1 DEF EventIds, Undispatched, Last, Projection, InOrder
  <2>7. LastTaken' => LastTaken
    BY <2>3, <2>5, <2>6 DEF LastTaken, Took
  <2>8. OneAtATime'
    BY <1>1, <1>4, <1>9, <2>3, <2>5, <2>6 DEF OneAtATime
  <2>9. Served'
    <3>1. ASSUME NEW f \in EventIds, NEW q \in Runs, Projects(q), run[q].event = f
          PROVE  Seen(f) \/ (Projects(r)' /\ run'[r].event = f)
      BY <1>4, <2>2, <2>4, <3>1
    <3> QED
      BY <1>1, <2>3, <2>6, <3>1 DEF Served
  <2>10. PinSound'
    BY <1>1, <2>6, <2>7 DEF PinSound
  <2>11. InOrder' => Sorted' /\ InTurn'
    <3> SUFFICES ASSUME InOrder' PROVE Sorted' /\ InTurn'
      OBVIOUS
    <3>1. Sorted /\ InTurn
      BY <2>6 DEF MapInv
    <3>2. Sorted'
      BY <1>1, <2>6, <3>1 DEF Sorted
    <3>3. InTurn'
      BY <1>1, <1>4, <1>9, <2>3, <2>5, <2>6, <2>7, <3>1 DEF InTurn
    <3> QED
      BY <3>2, <3>3
  <2> QED
    BY <1>2, <1>5, <2>8, <2>9, <2>10, <2>11 DEF MapInv
<1> QED
  BY <1>8, <1>9

\* The projector records the event it wrote the map for.
LEMMA SaveInv ==
    ASSUME MapInv, NEW r \in Runs, SaveProcessed(r), UNCHANGED listingVars
    PROVE  MapInv'
<1>1. /\ ListingsTypeOK /\ Told /\ OneAtATime /\ Served /\ PinSound
      /\ run[r].pc = "save"
      /\ processed' = processed \union {<<run[r].event, run[r].handler>>}
      /\ UNCHANGED <<outbox, order, relay, faults, listing, pin, req, threw>>
  BY DEF MapInv, SaveProcessed, listingVars
<1>2. ListingsTypeOK' /\ \A q \in Runs : q # r => run'[q] = run[q]
  BY <1>1, IdempotencyType DEF ListingsTypeOK
<1>3. /\ run[r] # Free /\ run[r] \in RunType(EventIds, {Projector, BidCloser})
      /\ run \in [Runs -> RunType(EventIds, {Projector, BidCloser}) \union {Free}]
  BY <1>1, BusyRun, MapTypes
<1>4. PICK e \in EventIds : e = run[r].event
  BY <1>3 DEF RunType
<1>5. Told' /\ Last \in Nat
  BY <1>1, MapTypes, ToldStays
<1>6. run'[r] = Free
  BY <1>3 DEF SaveProcessed
<1>7. /\ \A q \in Runs : q # r => (Projects(q)' <=> Projects(q))
      /\ ~Projects(r)'
  BY <1>2, <1>6 DEF Projects
<1>8. CASE ~Projects(r)
  <2>1. \A f : <<f, Projector>> \in processed' <=> <<f, Projector>> \in processed
    BY <1>1, <1>3, <1>8 DEF Projects
  <2>2. \A q \in Runs : (Projects(q)' <=> Projects(q)) /\ (Projects(q) => run'[q] = run[q])
    BY <1>2, <1>7, <1>8
  <2> QED
    BY <1>1, <1>2, <1>5, <2>1, <2>2, RestStays DEF MapInv
<1>9. CASE Projects(r)
  <2>1. \A q \in Runs : ~Projects(q)'
    BY <1>1, <1>7, <1>9 DEF OneAtATime
  <2>2. \A f : Seen(f)' <=> Seen(f) \/ f = e
    BY <1>1, <1>4, <1>9 DEF Seen, Projects
  <2>3. Took(e)
    BY <1>1, <1>4, <1>9 DEF Took
  <2>4. /\ EventIds' = EventIds /\ Undispatched' = Undispatched /\ Last' = Last
        /\ Projection' = Projection /\ (InOrder' <=> InOrder)
    BY <1>1 DEF EventIds, Undispatched, Last, Projection, InOrder
  <2>5. LastTaken' => LastTaken
    BY <2>1, <2>2, <2>3, <2>4 DEF LastTaken, Took
  <2>6. OneAtATime'
    BY <1>1, <2>1, <2>4 DEF OneAtATime
  <2>7. Served'
    <3>1. ASSUME NEW f \in EventIds, NEW q \in Runs, Projects(q), run[q].event = f
          PROVE  f = e
      BY <1>1, <1>4, <1>9, <3>1 DEF OneAtATime
    <3> QED
      BY <1>1, <2>2, <2>4, <3>1 DEF Served
  <2>8. PinSound'
    BY <1>1, <2>4, <2>5 DEF PinSound
  <2>9. InOrder' => Sorted' /\ InTurn'
    <3> SUFFICES ASSUME InOrder' PROVE Sorted' /\ InTurn'
      OBVIOUS
    <3>1. Sorted /\ InTurn
      BY <2>4 DEF MapInv
    <3>2. Sorted'
      BY <1>1, <2>4, <3>1 DEF Sorted
    <3>3. InTurn'
      BY <1>1, <1>4, <1>9, <2>1, <2>2, <2>4, <2>5, <3>1 DEF InTurn
    <3> QED
      BY <3>2, <3>3
  <2> QED
    BY <1>2, <1>5, <2>6, <2>7, <2>8, <2>9 DEF MapInv
<1> QED
  BY <1>8, <1>9

\* A delivery that is done serving goes on to its save.
LEMMA DoneServingType ==
    ASSUME ListingsTypeOK, NEW r \in Runs, run[r].pc = "work", DoneServing(r),
           UNCHANGED <<outbox, order, processed, relay, faults, listing, req, threw>>,
           pin' \in PinType
    PROVE  /\ ListingsTypeOK'
           /\ run'[r].pc = "save" /\ run'[r].event = run[r].event
           /\ run'[r].handler = run[r].handler
           /\ \A q \in Runs : q # r => run'[q] = run[q]
<1>1. /\ run[r] # Free /\ run[r] \in RunType(EventIds, {Projector, BidCloser})
      /\ run \in [Runs -> RunType(EventIds, {Projector, BidCloser}) \union {Free}]
  BY BusyRun, MapTypes
<1>2. PICK to \in RunType(EventIds, {Projector, BidCloser}) :
        to.pc = "save" /\ to.event = run[r].event /\ to.handler = run[r].handler
        /\ to = [run[r] EXCEPT !.pc = "save"]
  BY <1>1 DEF RunType
<1>3. run' = [run EXCEPT ![r] = to]
  BY <1>1, <1>2 DEF DoneServing
<1>4. run' \in [Runs -> RunType(EventIds, {Projector, BidCloser}) \union {Free}]
  BY <1>1, <1>2, <1>3
<1>5. ListingsTypeOK'
  BY <1>4 DEF ListingsTypeOK, OutboxTypeOK, EventIds
<1> QED
  BY <1>1, <1>2, <1>3, <1>5

\* Closing the bids takes its time.
LEMMA CloseInv ==
    ASSUME MapInv, NEW r \in Runs, CloseBids(r)
    PROVE  MapInv'
<1>1. /\ ListingsTypeOK /\ Told /\ OneAtATime /\ Served /\ PinSound
      /\ run[r].pc = "work" /\ run[r].handler = BidCloser /\ DoneServing(r)
      /\ UNCHANGED <<outbox, order, processed, relay, faults, listing, pin, req, threw>>
  BY DEF MapInv, CloseBids, Serving, listingVars
<1>2. /\ ListingsTypeOK' /\ run'[r].handler = BidCloser
      /\ \A q \in Runs : q # r => run'[q] = run[q]
  BY <1>1, DoneServingType DEF ListingsTypeOK
<1>3. Told'
  BY <1>1, MapTypes, ToldStays
<1>4. \A q \in Runs : (Projects(q)' <=> Projects(q)) /\ (Projects(q) => run'[q] = run[q])
  BY <1>1, <1>2 DEF Projects, Projector, BidCloser
<1> QED
  BY <1>1, <1>2, <1>3, <1>4, RestStays DEF MapInv

\* The projector writes the map from the listing as it is, and deletes the point
\* only for an event that, if it is the newest, says the listing is archived.
LEMMA ProjectInv ==
    ASSUME MapInv, NEW r \in Runs, Project(r)
    PROVE  MapInv'
<1>1. /\ ListingsTypeOK /\ Told /\ OneAtATime /\ Served /\ PinSound
      /\ run[r].pc = "work" /\ run[r].handler = Projector /\ DoneServing(r)
      /\ pin' \in {NoPin, Projection}
      /\ outbox[run[r].event].name # "listing.archived" => pin' = Projection
      /\ outbox[run[r].event].name = "listing.archived" => pin' = NoPin
      /\ UNCHANGED <<outbox, order, processed, relay, faults, listing, req, threw>>
  BY DEF MapInv, Project, Serving
<1>2. /\ ListingsTypeOK' /\ run'[r].pc = "save" /\ run'[r].event = run[r].event
      /\ run'[r].handler = Projector
      /\ \A q \in Runs : q # r => run'[q] = run[q]
  BY <1>1, PinTypes, DoneServingType
<1>3. /\ run[r] # Free /\ run[r] \in RunType(EventIds, {Projector, BidCloser})
      /\ EventIds = 1..Last /\ Last \in Nat
  BY <1>1, BusyRun, MapTypes
<1>4. PICK e \in EventIds : e = run[r].event
  BY <1>3 DEF RunType
<1>5. Projects(r) /\ Projects(r)' /\ run'[r].event = e /\ ~Seen(e)
  BY <1>1, <1>2, <1>3, <1>4 DEF Projects, Free, OneAtATime
<1>6. \A q \in Runs : q # r => ~Projects(q) /\ ~Projects(q)'
  BY <1>1, <1>2, <1>5 DEF OneAtATime, Projects
<1>7. /\ EventIds' = EventIds /\ Undispatched' = Undispatched /\ Last' = Last
      /\ Projection' = Projection /\ (InOrder' <=> InOrder)
      /\ \A f : Seen(f)' <=> Seen(f)
  BY <1>1 DEF EventIds, Undispatched, Last, Projection, InOrder, Seen
<1>8. Told'
  <2>1. Last # 0
    BY <1>3, <1>4
  <2> QED
    BY <1>1, <1>7, <2>1 DEF Told
<1>9. OneAtATime'
  BY <1>1, <1>4, <1>5, <1>6, <1>7 DEF OneAtATime
<1>10. Served'
  BY <1>1, <1>4, <1>5, <1>6, <1>7 DEF Served
<1>11. PinSound'
  BY <1>1, <1>7 DEF PinSound
<1>12. LastTaken' => Seen(Last) \/ e = Last
  BY <1>5, <1>6, <1>7 DEF LastTaken, Took
<1>13. e = Last => pin' = Projection
  <2>1. ASSUME outbox[e].name = "listing.archived", e = Last PROVE Projection = NoPin
    BY <1>1, <1>3, <1>4, <2>1 DEF Told, Projection
  <2> QED
    BY <1>1, <1>4, <2>1
<1>14. InOrder' => Sorted' /\ InTurn'
  <2> SUFFICES ASSUME InOrder' PROVE Sorted' /\ InTurn'
    OBVIOUS
  <2>1. Sorted /\ InTurn
    BY <1>7 DEF MapInv
  <2>2. Sorted'
    BY <1>1, <1>7, <2>1 DEF Sorted
  <2>3. ~threw /\ e # Last => ~Seen(Last)
    <3>1. Last \in EventIds /\ (e # Last => e < Last)
      BY <1>3, <1>4
    <3> QED
      BY <1>4, <1>5, <2>1, <3>1 DEF InTurn
  <2>4. ~threw' /\ LastTaken' => pin' = Projection'
    BY <1>1, <1>5, <1>7, <1>12, <1>13, <2>3
  <2>5. ASSUME ~threw' PROVE \A q \in Runs, f \in EventIds' : Projects(q)' /\ f < run'[q].event => Seen(f)'
    BY <1>1, <1>4, <1>5, <1>6, <1>7, <2>1, <2>5 DEF InTurn
  <2>6. ASSUME ~threw' PROVE \A f, g \in EventIds' : g < f /\ Seen(f)' => Seen(g)'
    BY <1>1, <1>7, <2>1, <2>6 DEF InTurn
  <2>7. InTurn'
    BY <2>4, <2>5, <2>6 DEF InTurn
  <2> QED
    BY <2>2, <2>7
<1> QED
  BY <1>2, <1>8, <1>9, <1>10, <1>11, <1>14 DEF MapInv

\* A delivery that throws, or dies with the process, is no longer in hand.
LEMMA ThrowInv ==
    ASSUME MapInv, NEW r \in Runs, DeliveryThrows(r)
    PROVE  MapInv'
<1>1. /\ ListingsTypeOK /\ Told /\ OneAtATime /\ Served /\ PinSound
      /\ run[r].pc \in {"check", "work", "save"} /\ threw' = TRUE
      /\ run' = [run EXCEPT ![r] = Free]
      /\ faults < MaxFaults /\ faults' = faults + 1
      /\ UNCHANGED <<outbox, order, processed, relay, listing, pin, req>>
  BY DEF MapInv, DeliveryThrows, IdempotencyFails, Serving
<1>2. /\ run \in [Runs -> RunType(EventIds, {Projector, BidCloser}) \union {Free}]
      /\ Last \in Nat /\ faults \in 0..MaxFaults /\ MaxFaults \in Nat
  BY <1>1, MapTypes, OutboxAssumption DEF ListingsTypeOK, OutboxTypeOK
<1>3. /\ run' \in [Runs -> RunType(EventIds, {Projector, BidCloser}) \union {Free}]
      /\ faults' \in 0..MaxFaults
      /\ run'[r] = Free /\ \A q \in Runs : q # r => run'[q] = run[q]
  BY <1>1, <1>2
<1>4. ListingsTypeOK'
  BY <1>1, <1>3 DEF ListingsTypeOK, OutboxTypeOK, EventIds
<1>5. Told'
  BY <1>1, <1>2, ToldStays
<1>6. \A q \in Runs : Projects(q)' => Projects(q) /\ run'[q] = run[q]
  BY <1>3 DEF Projects
<1>7. /\ EventIds' = EventIds /\ Undispatched' = Undispatched /\ Last' = Last
      /\ Projection' = Projection /\ (InOrder' <=> InOrder)
      /\ \A f : Seen(f)' <=> Seen(f)
  BY <1>1 DEF EventIds, Undispatched, Last, Projection, InOrder, Seen
<1>8. LastTaken' => LastTaken
  BY <1>6, <1>7 DEF LastTaken, Took
<1>9. OneAtATime'
  BY <1>1, <1>6, <1>7 DEF OneAtATime
<1>10. Served' /\ (InOrder' => InTurn')
  BY <1>1 DEF Served, InTurn
<1>11. PinSound'
  BY <1>1, <1>7, <1>8 DEF PinSound
<1>12. InOrder' => Sorted'
  BY <1>1, <1>7 DEF Sorted, MapInv
<1> QED
  BY <1>4, <1>5, <1>9, <1>10, <1>11, <1>12 DEF MapInv

\* After a restart nothing is in hand; what was emitted is emitted again.
LEMMA CrashMapInv ==
    ASSUME MapInv, ListingsCrash
    PROVE  MapInv'
<1>1. /\ ListingsTypeOK /\ Told /\ OneAtATime /\ Served /\ PinSound
      /\ OutboxCrash /\ relay' = NoRelay /\ run' = [r \in Runs |-> Free]
      /\ req' = [q \in Requests |-> Idle]
      /\ UNCHANGED <<outbox, order, processed, listing, pin, threw>>
  BY DEF MapInv, ListingsCrash, OutboxCrash
<1>2. ListingsTypeOK'
  BY <1>1, CrashType DEF ListingsTypeOK, ReqType
<1>3. Told'
  BY <1>1 DEF Told, Last
<1>4. \A q \in Runs : ~Projects(q)'
  BY <1>1 DEF Projects
<1>5. /\ EventIds' = EventIds /\ Undispatched' = Undispatched /\ Last' = Last
      /\ Projection' = Projection /\ (InOrder' <=> InOrder)
      /\ relay'.batch = {} /\ relay'.todo = {}
      /\ \A f : Seen(f)' <=> Seen(f)
  BY <1>1 DEF EventIds, Undispatched, Last, Projection, InOrder, Seen, NoRelay
<1>6. LastTaken' => LastTaken
  BY <1>4, <1>5 DEF LastTaken, Took
<1>7. OneAtATime'
  BY <1>4, <1>5 DEF OneAtATime
<1>8. Served'
  BY <1>1, <1>5 DEF Served
<1>9. PinSound'
  BY <1>1, <1>5, <1>6 DEF PinSound
<1>10. InOrder' => Sorted' /\ InTurn'
  <2>1. Sorted'
    BY <1>5 DEF Sorted
  <2>2. InOrder' => InTurn'
    BY <1>1, <1>4, <1>5, <1>6 DEF InTurn, MapInv
  <2> QED
    BY <2>1, <2>2
<1> QED
  BY <1>2, <1>3, <1>7, <1>8, <1>9, <1>10 DEF MapInv

\* When the emitter waits for nothing the projector is idle.
LEMMA NoneAwaited ==
    ASSUME Awaited = {} PROVE \A r \in Runs : ~Projects(r)
BY ListingsAssumption DEF Awaited, Projects, Projector

\* In the order of the commits, older is smaller.
LEMMA OlderIsLess ==
    ASSUME ListingsTypeOK, Told, InOrder, NEW e \in EventIds, NEW f \in EventIds
    PROVE  Older(e, f) <=> e < f
<1>1. DOMAIN order = EventIds /\ EventIds = 1..Last
  BY MapTypes DEF Told
<1> QED
  BY <1>1 DEF Older, InOrder

\* A tick takes the oldest rows, so with any row those older than it.
LEMMA BeginInv ==
    ASSUME MapInv, RelayBegin, UNCHANGED listingVars
    PROVE  MapInv'
<1>1. /\ ListingsTypeOK /\ Told /\ OneAtATime /\ Served /\ PinSound
      /\ ~relay.open
      /\ relay' = [open |-> TRUE, batch |-> NextBatch, todo |-> NextBatch]
      /\ UNCHANGED <<outbox, order, processed, run, faults, listing, pin, req, threw>>
  BY DEF MapInv, RelayBegin, listingVars
<1>2. ListingsTypeOK'
  BY <1>1, RelayType DEF ListingsTypeOK
<1>3. Told' /\ Last \in Nat /\ EventIds = 1..Last
  BY <1>1, MapTypes, ToldStays
<1>4. /\ relay'.batch = NextBatch /\ relay'.todo = NextBatch /\ relay'.open
      /\ NextBatch \subseteq Undispatched
  BY <1>1 DEF NextBatch
<1>5. \A r \in Runs : ~Projects(r) /\ ~Projects(r)'
  BY <1>1 DEF OneAtATime, Projects
<1>6. /\ EventIds' = EventIds /\ Undispatched' = Undispatched /\ Last' = Last
      /\ Projection' = Projection /\ (InOrder' <=> InOrder)
      /\ \A f : Seen(f)' <=> Seen(f)
  BY <1>1 DEF EventIds, Undispatched, Last, Projection, InOrder, Seen
<1>7. LastTaken' => LastTaken
  BY <1>5, <1>6 DEF LastTaken, Took
<1>8. OneAtATime'
  BY <1>4, <1>5, <1>6 DEF OneAtATime
<1>9. Served'
  BY <1>1, <1>4, <1>6 DEF Served
<1>10. PinSound'
  BY <1>1, <1>6, <1>7 DEF PinSound
<1>11. InOrder' => Sorted' /\ InTurn'
  <2> SUFFICES ASSUME InOrder' PROVE Sorted' /\ InTurn'
    OBVIOUS
  <2>1. InOrder /\ InTurn
    BY <1>6 DEF MapInv
  <2>2. ASSUME NEW e \in NextBatch, NEW f \in Undispatched, f < e PROVE f \in NextBatch
    <3> DEFINE Before(g) == {h \in Undispatched : Older(h, g)}
    <3>1. Undispatched \subseteq EventIds /\ IsFiniteSet(Undispatched)
      BY <1>3, FS_Interval, FS_Subset DEF Undispatched
    <3>2. e \in Undispatched /\ Cardinality(Before(e)) < BatchSize
      BY <2>2 DEF NextBatch
    <3>3. Before(f) \subseteq Before(e)
      <4>1. ASSUME NEW h \in Undispatched, Older(h, f) PROVE Older(h, e)
        <5>1. h \in EventIds /\ f \in EventIds /\ e \in EventIds
          BY <3>1, <3>2
        <5>2. h < f
          BY <1>1, <2>1, <4>1, <5>1, OlderIsLess
        <5>3. h < e
          BY <1>3, <2>2, <5>1, <5>2
        <5> QED
          BY <1>1, <2>1, <5>1, <5>3, OlderIsLess
      <4> QED
        BY <4>1
    <3>4. /\ IsFiniteSet(Before(e)) /\ Cardinality(Before(f)) <= Cardinality(Before(e))
          /\ Cardinality(Before(e)) \in Nat /\ Cardinality(Before(f)) \in Nat
      <4>1. IsFiniteSet(Before(e)) /\ IsFiniteSet(Before(f))
        BY <3>1, FS_Subset
      <4>2. Cardinality(Before(e)) \in Nat /\ Cardinality(Before(f)) \in Nat
        BY <4>1, FS_CardinalityType
      <4> QED
        BY <3>3, <4>1, <4>2, FS_Subset
    <3>5. BatchSize \in Nat
      BY OutboxAssumption
    <3>6. Cardinality(Before(f)) < BatchSize
      BY <3>2, <3>4, <3>5
    <3> QED
      BY <3>6 DEF NextBatch
  <2>3. Sorted'
    BY <1>4, <1>6, <2>2 DEF Sorted
  <2>4. InTurn'
    BY <1>1, <1>5, <1>6, <1>7, <2>1 DEF InTurn
  <2> QED
    BY <2>3, <2>4
<1> QED
  BY <1>2, <1>3, <1>8, <1>9, <1>10, <1>11 DEF MapInv

\* A batch that failed is emitted again.
LEMMA RollbackInv ==
    ASSUME MapInv, RelayRollback, UNCHANGED listingVars
    PROVE  MapInv'
<1>1. /\ ListingsTypeOK /\ Told /\ OneAtATime /\ Served /\ PinSound
      /\ Awaited = {} /\ relay' = NoRelay
      /\ UNCHANGED <<outbox, order, processed, run, listing, pin, req, threw>>
  BY DEF MapInv, RelayRollback, listingVars
<1>2. ListingsTypeOK'
  BY <1>1, RelayType DEF ListingsTypeOK
<1>3. Told' /\ Last \in Nat
  BY <1>1, MapTypes, ToldStays
<1>4. \A r \in Runs : ~Projects(r) /\ ~Projects(r)'
  BY <1>1, NoneAwaited DEF Projects
<1>5. /\ EventIds' = EventIds /\ Undispatched' = Undispatched /\ Last' = Last
      /\ Projection' = Projection /\ (InOrder' <=> InOrder)
      /\ relay'.batch = {} /\ relay'.todo = {}
      /\ \A f : Seen(f)' <=> Seen(f)
  BY <1>1 DEF EventIds, Undispatched, Last, Projection, InOrder, Seen, NoRelay
<1>6. LastTaken' => LastTaken
  BY <1>4, <1>5 DEF LastTaken, Took
<1>7. OneAtATime'
  BY <1>4, <1>5 DEF OneAtATime
<1>8. Served' /\ PinSound'
  BY <1>1, <1>5, <1>6 DEF Served, PinSound
<1>9. Sorted'
  BY <1>5 DEF Sorted
<1>10. InOrder' => InTurn'
  BY <1>1, <1>4, <1>5, <1>6 DEF InTurn, MapInv
<1> QED
  BY <1>2, <1>3, <1>7, <1>8, <1>9, <1>10 DEF MapInv

\* A batch commits when every row was emitted and served.
LEMMA CommitInv ==
    ASSUME MapInv, RelayCommit, UNCHANGED listingVars
    PROVE  MapInv'
<1>1. /\ ListingsTypeOK /\ Told /\ OneAtATime /\ Served /\ PinSound
      /\ Awaited = {} /\ relay' = NoRelay /\ relay.todo = {}
      /\ outbox' = [e \in EventIds |->
                      IF e \in relay.batch THEN [outbox[e] EXCEPT !.dispatched = TRUE]
                      ELSE outbox[e]]
      /\ UNCHANGED <<order, processed, run, listing, pin, req, threw>>
  BY DEF MapInv, RelayCommit, listingVars
<1>2. ListingsTypeOK'
  BY <1>1, RelayType DEF ListingsTypeOK
<1>3. /\ EventIds = 1..Last /\ Last \in Nat
      /\ outbox \in Seq([name : EventNames, ref : {1}, dispatched : BOOLEAN])
  BY <1>1, MapTypes
<1>4. Len(outbox') = Last /\ EventIds' = EventIds /\ Last' = Last
  <2>1. DOMAIN outbox' = 1..Last /\ EventIds' = 1..Len(outbox') /\ Len(outbox') \in Nat
    BY <1>1, <1>2, <1>3 DEF ListingsTypeOK, OutboxTypeOK, EventIds
  <2> QED
    BY <1>3, <2>1 DEF EventIds, Last
<1>5. \A e \in EventIds :
        /\ outbox'[e].name = outbox[e].name
        /\ outbox'[e].dispatched = (outbox[e].dispatched \/ e \in relay.batch)
  <2> TAKE e \in EventIds
  <2>1. e \in 1..Len(outbox)
    BY <1>3 DEF Last
  <2>2. outbox[e] \in [name : EventNames, ref : {1}, dispatched : BOOLEAN]
    <3> DEFINE Rows == [name : EventNames, ref : {1}, dispatched : BOOLEAN]
    <3>1. outbox \in Seq(Rows)
      BY <1>3
    <3> HIDE DEF Rows
    <3>2. outbox[e] \in Rows
      BY <2>1, <3>1
    <3> QED
      BY <3>2 DEF Rows
  <2> QED
    BY <1>1, <2>2
<1>6. Told'
  BY <1>1, <1>3, <1>4, <1>5, ToldStays DEF Last
<1>7. \A r \in Runs : ~Projects(r) /\ ~Projects(r)'
  BY <1>1, NoneAwaited DEF Projects
<1>8. /\ Undispatched' \subseteq Undispatched
      /\ Projection' = Projection /\ (InOrder' <=> InOrder)
      /\ relay'.batch = {} /\ relay'.todo = {}
      /\ \A f : Seen(f)' <=> Seen(f)
  BY <1>1, <1>4, <1>5 DEF Undispatched, Projection, InOrder, Seen, NoRelay
<1>9. LastTaken' => LastTaken
  BY <1>4, <1>7, <1>8 DEF LastTaken, Took
<1>10. OneAtATime'
  BY <1>7, <1>8 DEF OneAtATime
<1>11. Served'
  BY <1>1, <1>4, <1>5, <1>7, <1>8 DEF Served
<1>12. PinSound'
  BY <1>1, <1>8, <1>9 DEF PinSound
<1>13. Sorted'
  BY <1>8 DEF Sorted
<1>14. InOrder' => InTurn'
  BY <1>1, <1>4, <1>7, <1>8, <1>9 DEF InTurn, MapInv
<1> QED
  BY <1>2, <1>6, <1>10, <1>11, <1>12, <1>13, <1>14 DEF MapInv

\* The emitter starts the projector, once, on the oldest event left, when it is
\* done with those before.
LEMMA EmitInv ==
    ASSUME MapInv, NEW e \in relay.todo, Emit(e, ListenersOf(outbox[e])),
           UNCHANGED listingVars
    PROVE  MapInv'
<1>1. /\ ListingsTypeOK /\ Told /\ OneAtATime /\ Served /\ PinSound
      /\ Awaited = {} /\ relay.open
      /\ \A f \in relay.todo : ~Older(f, e)
      /\ relay' = [relay EXCEPT !.todo = @ \ {e}]
      /\ UNCHANGED <<outbox, order, processed, faults, listing, pin, req, threw>>
  BY DEF MapInv, Emit, listingVars
<1>2. /\ ListenersOf(outbox[e]) \in SUBSET {Projector, BidCloser}
      /\ IsFiniteSet(ListenersOf(outbox[e])) /\ Projector \in ListenersOf(outbox[e])
  <2>1. IsFiniteSet({Projector} \union {BidCloser})
    BY FS_Singleton, FS_AddElement
  <2>2. ListenersOf(outbox[e]) \subseteq {Projector} \union {BidCloser}
    BY DEF ListenersOf
  <2> QED
    BY <2>1, <2>2, FS_Subset DEF ListenersOf
<1>3. ListingsRows
  BY <1>1, MapTypes
<1>4. /\ ListingsRows'
      /\ \E f \in [ListenersOf(outbox[e]) -> Runs] :
           /\ \A h \in ListenersOf(outbox[e]) :
                run'[f[h]] = [pc |-> "check", event |-> e, handler |-> h]
           /\ \A r \in Runs :
                run'[r] = run[r] \/ \E h \in ListenersOf(outbox[e]) : r = f[h]
  BY <1>2, <1>3, EmitType DEF ListingsRows
<1>5. ListingsTypeOK'
  BY <1>1, <1>4 DEF ListingsTypeOK, ListingsRows
<1>6. Told' /\ Last \in Nat /\ EventIds = 1..Last
  BY <1>1, MapTypes, ToldStays
<1>7. /\ relay \in [open : BOOLEAN, batch : SUBSET EventIds, todo : SUBSET EventIds]
      /\ relay'.batch = relay.batch /\ relay'.todo = relay.todo \ {e} /\ relay'.open
      /\ e \in relay.batch /\ e \in EventIds
  BY <1>1, MapTypes DEF OneAtATime
<1>8. \A r \in Runs : ~Projects(r)
  BY <1>1, NoneAwaited
<1>9. PICK p \in Runs :
        /\ run'[p] = [pc |-> "check", event |-> e, handler |-> Projector]
        /\ \A r \in Runs : Projects(r)' => r = p
  <2>1. PICK f \in [ListenersOf(outbox[e]) -> Runs] :
           /\ \A h \in ListenersOf(outbox[e]) :
                run'[f[h]] = [pc |-> "check", event |-> e, handler |-> h]
           /\ \A r \in Runs :
                run'[r] = run[r] \/ \E h \in ListenersOf(outbox[e]) : r = f[h]
    BY <1>4
  <2>2. ASSUME NEW r \in Runs, Projects(r)' PROVE r = f[Projector]
    <3>1. run'[r] # run[r] /\ run'[r].handler = Projector
      BY <1>8, <2>2 DEF Projects
    <3>2. PICK h \in ListenersOf(outbox[e]) : r = f[h]
      BY <2>1, <3>1
    <3>3. run'[r] = [pc |-> "check", event |-> e, handler |-> h]
      BY <2>1, <3>2
    <3>4. h = Projector
      BY <3>1, <3>3
    <3> QED
      BY <3>2, <3>4
  <2> QED
    BY <1>2, <2>1, <2>2
<1>10. Projects(p)' /\ run'[p].event = e /\ run'[p].pc = "check"
  <2>1. run'[p].pc # Free.pc
    BY <1>9 DEF Free
  <2> QED
    BY <1>9, <2>1 DEF Projects
<1>11. /\ EventIds' = EventIds /\ Undispatched' = Undispatched /\ Last' = Last
       /\ Projection' = Projection /\ (InOrder' <=> InOrder)
       /\ \A f : Seen(f)' <=> Seen(f)
  BY <1>1 DEF EventIds, Undispatched, Last, Projection, InOrder, Seen
<1>12. LastTaken' => LastTaken
  BY <1>9, <1>10, <1>11 DEF LastTaken, Took
<1>13. OneAtATime'
  BY <1>1, <1>7, <1>9, <1>10, <1>11 DEF OneAtATime
<1>14. Served'
  BY <1>1, <1>7, <1>8, <1>10, <1>11 DEF Served
<1>15. PinSound'
  BY <1>1, <1>11, <1>12 DEF PinSound
<1>16. InOrder' => Sorted' /\ InTurn'
  <2> SUFFICES ASSUME InOrder' PROVE Sorted' /\ InTurn'
    OBVIOUS
  <2>1. InOrder /\ Sorted /\ InTurn
    BY <1>11 DEF MapInv
  <2>2. \A f \in relay.todo : f \in EventIds /\ ~(f < e)
    BY <1>1, <1>7, <2>1, OlderIsLess
  <2>3. Sorted'
    <3>1. ASSUME NEW f \in relay.batch \ relay'.todo, NEW g \in relay'.todo PROVE f < g
      <4>1. f # e => f < g
        BY <1>7, <2>1, <3>1 DEF Sorted
      <4>2. f = e => f < g
        BY <1>6, <1>7, <2>2, <3>1
      <4> QED
        BY <4>1, <4>2
    <3> QED
      BY <1>7, <1>11, <2>1, <3>1 DEF Sorted
  <2>4. ASSUME ~threw, NEW f \in EventIds, f < e PROVE Seen(f)
    <3>1. CASE outbox[f].dispatched
      BY <1>1, <2>4, <3>1 DEF Served
    <3>2. CASE ~outbox[f].dispatched
      <4>1. f \in relay.batch \ relay.todo
        BY <1>7, <2>1, <2>2, <2>4, <3>2 DEF Sorted, Undispatched
      <4> QED
        BY <1>1, <1>8, <2>4, <4>1 DEF Served
    <3> QED
      BY <3>1, <3>2
  <2>5. InTurn'
    BY <1>1, <1>9, <1>10, <1>11, <1>12, <2>1, <2>4 DEF InTurn
  <2> QED
    BY <2>3, <2>5
<1> QED
  BY <1>5, <1>6, <1>13, <1>14, <1>15, <1>16 DEF MapInv

\* Nothing is published, nothing on the map.
LEMMA MapInit == ListingsInit => MapInv
<1> SUFFICES ASSUME ListingsInit PROVE MapInv
  OBVIOUS
<1>1. /\ outbox = << >> /\ order = << >> /\ processed = {} /\ relay = NoRelay
      /\ run = [r \in Runs |-> Free] /\ faults = 0
      /\ listing = [status |-> "NONE", ver |-> 0] /\ pin = NoPin
      /\ req = [q \in Requests |-> Idle] /\ threw = FALSE
      /\ MaxEvents \in Nat /\ MaxFaults \in Nat
  BY OutboxAssumption, ListingsAssumption DEF ListingsInit, OutboxInit
<1>2. EventIds = {} /\ Last = 0 /\ Len(order) = 0
  BY <1>1 DEF EventIds, Last
<1>3. ListingsTypeOK
  <2>1. OutboxTypeOK(EventNames, {1}, {Projector, BidCloser})
    BY <1>1, <1>2, EmptySeq DEF OutboxTypeOK, NoRelay
  <2>2. 0 \in 0..MaxEvents
    BY <1>1
  <2>3. NoPin \in PinType
    BY <2>2 DEF PinType, NoPin
  <2>4. listing \in [status : Statuses, ver : 0..MaxEvents]
    BY <1>1, <2>2 DEF Statuses
  <2>5. req \in [Requests -> ReqType]
    BY <1>1 DEF ReqType
  <2> QED
    BY <1>1, <2>1, <2>3, <2>4, <2>5 DEF ListingsTypeOK
<1>4. \A r \in Runs : ~Projects(r)
  BY <1>1 DEF Projects
<1>5. Told
  BY <1>1, <1>2 DEF Told
<1>6. OneAtATime /\ Sorted
  BY <1>1, <1>4 DEF OneAtATime, Sorted, NoRelay
<1>7. Served /\ PinSound /\ InTurn
  BY <1>2, <1>4 DEF Served, PinSound, InTurn, LastTaken
<1> QED
  BY <1>3, <1>5, <1>6, <1>7 DEF MapInv

\* Every step preserves it.
LEMMA MapNext == MapInv /\ [ListingsNext]_mapVars => MapInv'
<1> SUFFICES ASSUME MapInv, [ListingsNext]_mapVars PROVE MapInv'
  OBVIOUS
<1>1. CASE Create \/ \E q \in Requests : (\E op \in Ops : Load(q, op)) \/ Commit(q)
  BY <1>1, RequestInv
<1>2. CASE MapRelayStep
  <2>1. CASE RelayBegin
    BY <1>2, <2>1, BeginInv DEF MapRelayStep
  <2>2. CASE \E e \in relay.todo : Emit(e, ListenersOf(outbox[e]))
    BY <1>2, <2>2, EmitInv DEF MapRelayStep
  <2>3. CASE RelayCommit
    BY <1>2, <2>3, CommitInv DEF MapRelayStep
  <2> QED
    BY <1>2, <2>1, <2>2, <2>3 DEF MapRelayStep
<1>3. CASE MapRelayFails
  BY <1>3, RollbackInv DEF MapRelayFails
<1>4. ASSUME NEW r \in Runs, DeliveryStep(r) PROVE MapInv'
  BY <1>4, CheckInv, SaveInv, ProjectInv, CloseInv DEF DeliveryStep
<1>5. ASSUME NEW r \in Runs, DeliveryThrows(r) PROVE MapInv'
  BY <1>5, ThrowInv
<1>6. CASE ListingsCrash
  BY <1>6, CrashMapInv
<1>7. CASE UNCHANGED mapVars
  <2>1. UNCHANGED <<outbox, order, processed, relay, run, faults, listing, pin, req, threw>>
    BY <1>7 DEF mapVars, outboxVars, listingVars
  <2>2. ListingsTypeOK' /\ Told'
    BY <2>1 DEF MapInv, ListingsTypeOK, OutboxTypeOK, EventIds, Told, Last
  <2>3. \A r \in Runs : Projects(r)' <=> Projects(r)
    BY <2>1 DEF Projects
  <2>4. OneAtATime' /\ Served' /\ PinSound' /\ (InOrder' => Sorted' /\ InTurn')
    BY <2>1, <2>3, RestStays DEF MapInv
  <2> QED
    BY <2>2, <2>4 DEF MapInv
<1> QED
  BY <1>1, <1>2, <1>3, <1>4, <1>5, <1>6, <1>7 DEF ListingsNext

\* When everything was dispatched and nothing is in hand, the newest event was
\* seen, unless a delivery threw.
LEMMA MapInvExact == MapInv => MapIsExact
<1> SUFFICES ASSUME MapInv, Drained, ~threw
             PROVE  /\ pin \in {NoPin, Projection}
                    /\ InOrder => pin = Projection
  BY DEF MapIsExact, MapInv, InOrder
<1>1. /\ EventIds = 1..Last /\ Last \in Nat /\ Told /\ Served /\ PinSound
      /\ InOrder => InTurn
  BY MapTypes DEF MapInv
<1>2. CASE Last = 0
  BY <1>1, <1>2 DEF Told, Projection
<1>3. CASE Last # 0
  <2>1. Last \in EventIds /\ outbox[Last].dispatched
    BY <1>1, <1>3 DEF Drained, Undispatched
  <2>2. LastTaken
    BY <1>1, <1>3, <2>1 DEF Served, LastTaken, Took
  <2> QED
    BY <1>1, <2>2 DEF PinSound, InTurn
<1> QED
  BY <1>2, <1>3

\* Once the events of a listing have drained and none of their deliveries threw,
\* its point on the map is the listing's or gone, and the listing's exactly if
\* its transactions did not overlap, whatever the relay's rollbacks and the
\* restarts delivered again (ProjectMapPointListener).
THEOREM MapFollowsTheListing == ListingsSpec => []MapIsExact
<1> QED
  BY MapInit, MapNext, MapInvExact, PTL DEF ListingsSpec
=============================================================================
