---------------------------- MODULE ListingViews ----------------------------
(***************************************************************************)
(* How many people opened a listing (ViewsService, ViewsController): one   *)
(* row a viewer, a signed-in person dropping the guest's row of the device *)
(* they hold, then the count stored again, as in Comments in two steps:    *)
(* counted on the statement's snapshot, stored under the row's lock.  None *)
(* of it is one transaction, so the process may stop between the steps.    *)
(***************************************************************************)
EXTENDS Requests

CONSTANTS Phones,    \* devices, by the id the app sends
          MaxOpens   \* bound: times the listing is opened

ASSUME ViewsAssumption == MaxOpens \in Nat

VARIABLES viewers,     \* listing_views: the viewer keys of the listing
          viewCount,   \* listings.view_count
          viewCalls,   \* the requests in flight
          opens,       \* how many there were
          viewsAlone,  \* ghost: the last one ran alone so far
          viewsCut     \* ghost: one was cut off by a restart since it last ran

viewVars == <<viewers, viewCount, viewCalls, opens, viewsAlone, viewsCut>>

Guest(d) == <<"d", d>>
Member(u) == <<"u", u>>

ViewsInit ==
    /\ viewers = {}
    /\ viewCount = 0
    /\ viewCalls = [r \in Requests |-> Idle]
    /\ opens = 0
    /\ viewsAlone = TRUE /\ viewsCut = FALSE

ViewGoes(r, call) == viewCalls' = [viewCalls EXCEPT ![r] = call]
ViewGhosts == UNCHANGED <<opens, viewsAlone, viewsCut>>

(* record: a caller with neither an account nor a device id is not counted *)
(* and gets the stored number.                                             *)
OpenListing(r, u, d) ==
    /\ u # None \/ d # None
    /\ viewCalls[r] = Idle
    /\ opens < MaxOpens
    /\ opens' = opens + 1
    /\ viewsAlone' = Alone(viewCalls, r)
    /\ viewsCut' = FALSE
    /\ ViewGoes(r, IF u # None /\ d # None
                   THEN [at |-> "guest", device |-> d, key |-> Member(u)]
                   ELSE [at |-> "insert",
                         key |-> IF u # None THEN Member(u) ELSE Guest(d)])
    /\ UNCHANGED <<viewers, viewCount>>

(* Signing in makes the guest row a duplicate of the person. *)
DropGuest(r) ==
    LET call == viewCalls[r] IN
    /\ call.at = "guest"
    /\ viewers' = viewers \ {Guest(call.device)}
    /\ ViewGoes(r, [at |-> "insert", key |-> call.key])
    /\ ViewGhosts
    /\ UNCHANGED <<viewCount>>

InsertViewer(r) ==
    LET call == viewCalls[r] IN
    /\ call.at = "insert"
    /\ viewers' = viewers \cup {call.key}
    /\ ViewGoes(r, [at |-> "count"])
    /\ ViewGhosts
    /\ UNCHANGED <<viewCount>>

CountViewers(r) ==
    LET call == viewCalls[r] IN
    /\ call.at = "count"
    /\ ViewGoes(r, [at |-> "store", n |-> Cardinality(viewers)])
    /\ ViewGhosts
    /\ UNCHANGED <<viewers, viewCount>>

StoreViewers(r) ==
    LET call == viewCalls[r] IN
    /\ call.at = "store"
    /\ viewCount' = call.n
    /\ ViewGoes(r, Idle)
    /\ ViewGhosts
    /\ UNCHANGED <<viewers>>

(* The process restarts: what was in flight is gone. *)
ViewsRestart ==
    /\ ~Quiet(viewCalls)
    /\ viewCalls' = [r \in Requests |-> Idle]
    /\ viewsCut' = TRUE
    /\ UNCHANGED <<viewers, viewCount, opens, viewsAlone>>

ViewsNext ==
    \/ \E r \in Requests :
          \/ \E u \in Users \cup {None}, d \in Phones \cup {None} :
                OpenListing(r, u, d)
          \/ DropGuest(r) \/ InsertViewer(r) \/ CountViewers(r)
          \/ StoreViewers(r)
    \/ ViewsRestart

ViewsSpec == ViewsInit /\ [][ViewsNext]_viewVars

ViewsTypeOK ==
    /\ viewers \subseteq {Member(u) : u \in Users} \cup {Guest(d) : d \in Phones}
    /\ viewCount \in Nat
    /\ opens \in 0 .. MaxOpens

(* The number on the card is how many viewers the rows stand for, once     *)
(* nothing is in flight and if the last opening was neither overlapped nor *)
(* cut off by a restart: whatever was lost before it, it heals.            *)
(* (views.service.ts:52-93)                                                *)
ViewsArePeople ==
    Quiet(viewCalls) /\ viewsAlone /\ ~viewsCut =>
        viewCount = Cardinality(viewers)
=============================================================================
