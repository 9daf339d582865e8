------------------------------ MODULE Listings ------------------------------
(***************************************************************************)
(* One listing and its row on the map.  ListingsService changes the        *)
(* listing; the map point is a projection that ProjectMapPointListener     *)
(* rebuilds from events the outbox delivers, after the change committed.   *)
(*                                                                         *)
(* A request reads the listing in ListingOwnershipGuard (or mustGet), and  *)
(* decides on that copy; its transaction begins later and does not look    *)
(* again.  The owner and administrators may send several at once.          *)
(***************************************************************************)
EXTENDS Outbox

CONSTANTS
    Edits,      \* the changes the map follows, by their event
    Requests,   \* requests on the listing being served at once
    MaxEvents   \* bound: events ever published

\* @OnEvent gives the projector no option, so the emitter waits for it.
ASSUME ListingsAssumption ==
    /\ MaxEvents \in Nat \ {0}
    /\ Edits \subseteq {"listing.geometry_changed", "listing.price_changed",
                        "listing.images_changed"}
    /\ "project-map-point" \notin Detached

VARIABLES
    listing,   \* its status, and a version of what else the map shows (price,
               \* place, photo), which an edit of those bumps
    pin,       \* its row in listing_map_points
    req,       \* the requests
    threw      \* some delivery of an event threw

listingVars == <<listing, pin, req, threw>>
mapVars == <<outboxVars, listingVars>>

Statuses == {"NONE", "ACTIVE", "ARCHIVED", "SOLD"}
EventNames == Edits \union {"listing.published", "listing.archived", "listing.sold"}
Projector == "project-map-point"
BidCloser == "close-bids-on-archive"

NoPin == [sold |-> FALSE, ver |-> 0]
PinType == [sold : BOOLEAN, ver : 0..MaxEvents]
Ops == {"archive", "sold", "restore"} \union Edits
Idle == [pc |-> "idle"]
ReqType ==
    [pc : {"tx"}, op : Ops, since : 0..MaxEvents] \union {Idle}

ListingsTypeOK ==
    /\ OutboxTypeOK(EventNames, {1}, {Projector, BidCloser})
    /\ listing \in [status : Statuses, ver : 0..MaxEvents]
    /\ pin \in PinType
    /\ req \in [Requests -> ReqType]
    /\ threw \in BOOLEAN

ListingsInit ==
    /\ OutboxInit
    /\ listing = [status |-> "NONE", ver |-> 0]
    /\ pin = NoPin
    /\ req = [q \in Requests |-> Idle]
    /\ threw = FALSE

-----------------------------------------------------------------------------
Announce(name, since) ==
    /\ Len(outbox) < MaxEvents
    /\ Publish(name, 1, since)

\* create: the row is ACTIVE at once, and announced in its transaction.
Create ==
    /\ listing.status = "NONE"
    /\ listing' = [listing EXCEPT !.status = "ACTIVE", !.ver = 1]
    /\ Announce("listing.published", 0)
    /\ UNCHANGED <<processed, relay, run, faults, pin, req, threw>>

\* What the handlers require of the copy they were given: markSold and restore
\* return early for a listing already there, archive and the edits never look.
Admits(op, status) ==
    CASE op = "sold"    -> status = "ACTIVE"
      [] op = "restore" -> status \in {"ARCHIVED", "SOLD"}
      [] OTHER          -> status # "NONE"

\* The guard loads the listing and the handler decides.
Load(q, op) ==
    /\ req[q] = Idle
    /\ Admits(op, listing.status)
    /\ req' = [req EXCEPT ![q] = [pc |-> "tx", op |-> op, since |-> Len(outbox)]]
    /\ UNCHANGED <<outboxVars, listing, pin, threw>>

EventOf(op) ==
    CASE op = "archive" -> "listing.archived"
      [] op = "sold"    -> "listing.sold"
      [] op = "restore" -> "listing.published"
      [] OTHER          -> op

\* The update statement: unconditional.
Written(op) ==
    CASE op = "archive" -> [listing EXCEPT !.status = "ARCHIVED"]
      [] op = "sold"    -> [listing EXCEPT !.status = "SOLD"]
      [] op = "restore" -> [listing EXCEPT !.status = "ACTIVE"]
      [] OTHER          -> [listing EXCEPT !.ver = @ + 1]

\* The handler's transaction: the row, and the event that announces it.
Commit(q) ==
    /\ req[q].pc = "tx"
    /\ listing' = Written(req[q].op)
    /\ Announce(EventOf(req[q].op), req[q].since)
    /\ req' = [req EXCEPT ![q] = Idle]
    /\ UNCHANGED <<processed, relay, run, faults, pin, threw>>

-----------------------------------------------------------------------------
\* Faulty: the projector does not listen to listing.archived.
FaultyListenersOf(event) ==
    (IF event.name = "listing.archived" THEN {} ELSE {Projector}) \union
    (IF event.name \in {"listing.archived", "listing.sold"} THEN {BidCloser} ELSE {})

\* @OnEvent: every event concerns the map; two close the bids.
ListenersOf(event) ==
    {Projector} \union
    (IF event.name \in {"listing.archived", "listing.sold"} THEN {BidCloser} ELSE {})

MapRelayStep ==
    /\ \/ RelayBegin
       \/ \E e \in relay.todo : Emit(e, ListenersOf(outbox[e]))
       \/ RelayCommit
    /\ UNCHANGED listingVars

MapRelayFails == RelayRollback /\ UNCHANGED listingVars

Serving(r, handler) == run[r].pc = "work" /\ run[r].handler = handler
DoneServing(r) == run' = [run EXCEPT ![r].pc = "save"]

\* What the INSERT ... SELECT writes of the listing as it is now.
Projection ==
    IF listing.status \in {"ACTIVE", "SOLD"}
    THEN [sold |-> listing.status = "SOLD", ver |-> listing.ver]
    ELSE NoPin

\* Faulty: a sale takes the point off the map, as it once did.
FaultyProject(r) ==
    /\ Serving(r, Projector)
    /\ pin' = IF outbox[run[r].event].name \in {"listing.archived", "listing.sold"}
              THEN NoPin ELSE Projection
    /\ DoneServing(r)
    /\ UNCHANGED <<outbox, order, processed, relay, faults, listing, req, threw>>

\* onChanged and onSold re-project the listing; onArchived deletes.
Project(r) ==
    /\ Serving(r, Projector)
    /\ pin' = IF outbox[run[r].event].name = "listing.archived"
              THEN NoPin ELSE Projection
    /\ DoneServing(r)
    /\ UNCHANGED <<outbox, order, processed, relay, faults, listing, req, threw>>

\* closeOpenBidsFor: module PriceBids.  Here it only takes its time.
CloseBids(r) ==
    /\ Serving(r, BidCloser)
    /\ DoneServing(r)
    /\ UNCHANGED <<outbox, order, processed, relay, faults, listingVars>>

DeliveryStep(r) ==
    \/ CheckProcessed(r) /\ UNCHANGED listingVars
    \/ SaveProcessed(r) /\ UNCHANGED listingVars
    \/ Project(r)
    \/ CloseBids(r)

\* A statement of a delivery fails: the emitter swallows what it throws.
DeliveryThrows(r) ==
    /\ \/ IdempotencyFails(r)
       \/ /\ Serving(r, Projector) /\ faults < MaxFaults
          /\ run' = [run EXCEPT ![r] = Free]
          /\ faults' = faults + 1
          /\ UNCHANGED <<outbox, order, processed, relay>>
    /\ threw' = TRUE
    /\ UNCHANGED <<listing, pin, req>>

ListingsCrash ==
    /\ OutboxCrash
    /\ req' = [q \in Requests |-> Idle]
    /\ UNCHANGED <<listing, pin, threw>>

ListingsNext ==
    \/ Create
    \/ \E q \in Requests : (\E op \in Ops : Load(q, op)) \/ Commit(q)
    \/ MapRelayStep \/ MapRelayFails
    \/ \E r \in Runs : DeliveryStep(r) \/ DeliveryThrows(r)
    \/ ListingsCrash

ListingsSpec == ListingsInit /\ [][ListingsNext]_mapVars

\* The relay's cron ticks for ever and what it awaits is settled.  Nothing is
\* assumed of requests, faults or crashes.
FairListingsSpec ==
    /\ ListingsSpec
    /\ WF_mapVars(MapRelayStep)
    /\ \A r \in Runs : WF_mapVars(DeliveryStep(r))

-----------------------------------------------------------------------------
(* Properties *)

\* Nothing published is still on its way.
Drained == Undispatched = {} /\ ~relay.open /\ \A r \in Runs : run[r] = Free

\* Once the events have drained, and none of their deliveries threw, the map
\* never shows what the listing is not: no point for an archived listing, none
\* for sale that is sold, none with an old price.  If besides no two of the
\* transactions overlapped, the point is exactly the listing's, so a listing
\* that was restored is back on the map (ProjectMapPointListener, whatever the
\* relay's rollbacks and the restarts deliver again).
MapIsExact ==
    /\ ListingsTypeOK
    /\ Drained /\ ~threw =>
         /\ pin \in {NoPin, Projection}
         /\ (\A i \in DOMAIN order : order[i] = i) => pin = Projection

\* An archived listing leaves the map, unless it is restored first.
ArchivedLeavesMap ==
    listing.status = "ARCHIVED" ~>
      (pin = NoPin \/ listing.status # "ARCHIVED" \/ threw)
=============================================================================
