----------------------------- MODULE PriceBids ------------------------------
(***************************************************************************)
(* Offers on one listing: PriceBidsService, its hourly sweep, and the      *)
(* listener that closes the open bids of a listing that was archived or    *)
(* sold.  A buyer's number and the counter-offers that follow are rows of  *)
(* price_bids; a partial unique index allows one PENDING row per bidder.   *)
(*                                                                         *)
(* Every answer reads the bid, then reads the listing, then updates the    *)
(* row by its id alone: three statements, and no transaction around them.  *)
(*                                                                         *)
(* Of the listing (module Listings) this module sees whether it is ACTIVE, *)
(* and its take-downs; of the outbox (module Outbox), that the relay hands *)
(* the closer one take-down at a time, again until it is processed.        *)
(***************************************************************************)
EXTENDS Integers, Sequences, FiniteSets

CONSTANTS
    Bidders,
    Askers,        \* requests on bids being served at once
    MaxBids,       \* bound: bids ever made
    MaxTakeDowns,  \* bound: times the listing is archived or sold
    MaxFaults      \* bound: restarts and failed closings

ASSUME PriceBidsAssumption == MaxBids \in Nat /\ MaxTakeDowns \in Nat /\ MaxFaults \in Nat

VARIABLES
    active,     \* the listing's status is ACTIVE
    takeDowns,  \* how many listing.archived and listing.sold were published
    processed,  \* those the closer has processed
    failed,     \* those whose closing threw, and was recorded as processed
    closer,     \* closeOpenBidsFor: its event, and the open bids it has read
    bids,       \* price_bids, in the order inserted
    ask,        \* the requests
    sweep,      \* expireDueBids: the due bids it has read
    faults

listingVars == <<active, takeDowns>>
closerVars == <<processed, failed, closer>>
vars == <<listingVars, closerVars, bids, ask, sweep, faults>>

BidIds == 1..MaxBids
Events == 1..MaxTakeDowns
Settled == {"ACCEPTED", "DECLINED", "COUNTERED", "WITHDRAWN", "EXPIRED"}
Idle == [pc |-> "idle"]

\* `dir` says who made the offer.  expires_at is left out: the sweep finds a bid
\* due at some time or other, and until then it is open.  `at` is not a column:
\* how many take-downs there had been when the bid was inserted.
BidType ==
    [bidder : Bidders, dir : {"BUYER", "SELLER"},
     status : Settled \union {"PENDING"},
     next : BidIds \union {0}, at : 0..MaxTakeDowns]

Answers == {"accept", "decline", "withdraw", "counter"}
AskType ==
    [pc : {"listing", "write"}, op : {"create"}, bidder : Bidders, seen : 0..MaxBids]
    \union [pc : {"listing", "write"}, op : Answers, bid : BidIds]
    \union {Idle}

TypeOK ==
    /\ active \in BOOLEAN /\ takeDowns \in 0..MaxTakeDowns
    /\ failed \subseteq 1..takeDowns /\ processed \subseteq 1..takeDowns
    /\ closer \in [pc : {"find", "write", "save"}, event : Events,
                   list : SUBSET DOMAIN bids] \union {Idle}
    /\ bids \in Seq(BidType) /\ Len(bids) <= MaxBids
    /\ ask \in [Askers -> AskType]
    /\ sweep \subseteq DOMAIN bids
    /\ faults \in 0..MaxFaults

Init ==
    /\ active = TRUE /\ takeDowns = 0
    /\ processed = {} /\ failed = {} /\ closer = Idle
    /\ bids = << >>
    /\ ask = [s \in Askers |-> Idle]
    /\ sweep = {}
    /\ faults = 0

-----------------------------------------------------------------------------
Open == {b \in DOMAIN bids : bids[b].status = "PENDING"}
OpenOf(bidder) == {b \in Open : bids[b].bidder = bidder}

NewBid(bidder, dir) ==
    [bidder |-> bidder, dir |-> dir, status |-> "PENDING",
     next |-> 0, at |-> takeDowns]

\* bids.update(those, {status}): by id, whatever the rows say by now.
Mark(rows, those, status) ==
    [b \in DOMAIN rows |->
       IF b \in those THEN [rows[b] EXCEPT !.status = status] ELSE rows[b]]

AskCreate(s, u) ==
    /\ ask[s] = Idle /\ Len(bids) < MaxBids
    /\ ask' = [ask EXCEPT ![s] =
                 [pc |-> "listing", op |-> "create", bidder |-> u, seen |-> 0]]
    /\ UNCHANGED <<listingVars, closerVars, bids, sweep, faults>>

\* loadRespondable, up to assertOpen, by whoever did not make the bid; withdraw,
\* by whoever did, does not look at the listing.
AskAnswer(s, op, b) ==
    /\ ask[s] = Idle
    /\ b \in Open
    /\ ask' = [ask EXCEPT ![s] =
                 [pc |-> IF op = "withdraw" THEN "write" ELSE "listing",
                  op |-> op, bid |-> b]]
    /\ UNCHANGED <<listingVars, closerVars, bids, sweep, faults>>

\* getSummary: the listing must be ACTIVE.
CheckListing(s) ==
    /\ ask[s].pc = "listing"
    /\ ask' = [ask EXCEPT ![s] =
                 IF ~active THEN Idle
                 ELSE IF @.op = "create" THEN [@ EXCEPT !.pc = "write", !.seen = Len(bids)]
                 ELSE [@ EXCEPT !.pc = "write"]]
    /\ UNCHANGED <<listingVars, closerVars, bids, sweep, faults>>

Writing(s, ops) == ask[s].pc = "write" /\ ask[s].op \in ops
Answered(s) == ask' = [ask EXCEPT ![s] = Idle]

\* Faulty: the previous bid is left open, and no index forbids it.
FaultyCreateBid(s) ==
    /\ Writing(s, {"create"}) /\ Len(bids) < MaxBids
    /\ bids' = Append(bids, NewBid(ask[s].bidder, "BUYER"))
    /\ Answered(s)
    /\ UNCHANGED <<listingVars, closerVars, sweep, faults>>

\* create's transaction: the bidder's open bid steps aside for the new one.
CreateBid(s) ==
    /\ Writing(s, {"create"}) /\ Len(bids) < MaxBids
    /\ LET u == ask[s].bidder IN
       bids' = Append(Mark(bids, OpenOf(u), "WITHDRAWN"), NewBid(u, "BUYER"))
    /\ Answered(s)
    /\ UNCHANGED <<listingVars, closerVars, sweep, faults>>

\* Two of a bidder's transactions overlap: the UPDATE of this one did not see
\* the row the other inserted, and the unique index refuses its own.
CreateConflicts(s) ==
    /\ Writing(s, {"create"})
    /\ \E b \in OpenOf(ask[s].bidder) : b > ask[s].seen
    /\ Answered(s)
    /\ UNCHANGED <<listingVars, closerVars, bids, sweep, faults>>

AnswerBid(s) ==
    /\ Writing(s, {"accept", "decline", "withdraw"})
    /\ bids' = Mark(bids, {ask[s].bid},
                    CASE ask[s].op = "accept"   -> "ACCEPTED"
                      [] ask[s].op = "decline"  -> "DECLINED"
                      [] ask[s].op = "withdraw" -> "WITHDRAWN")
    /\ Answered(s)
    /\ UNCHANGED <<listingVars, closerVars, sweep, faults>>

\* counter's transaction inserts the counter-offer first, so the index refuses
\* it while the bidder has an open bid: the bid being answered.
CounterBid(s) ==
    /\ Writing(s, {"counter"}) /\ Len(bids) < MaxBids
    /\ LET b == ask[s].bid
           new == Len(bids) + 1
           dir == IF bids[b].dir = "BUYER" THEN "SELLER" ELSE "BUYER"
       IN  /\ OpenOf(bids[b].bidder) = {}
           /\ bids' = Append([bids EXCEPT ![b].status = "COUNTERED", ![b].next = new],
                             NewBid(bids[b].bidder, dir))
    /\ Answered(s)
    /\ UNCHANGED <<listingVars, closerVars, sweep, faults>>

CounterConflicts(s) ==
    /\ Writing(s, {"counter"})
    /\ OpenOf(bids[ask[s].bid].bidder) # {}
    /\ Answered(s)
    /\ UNCHANGED <<listingVars, closerVars, bids, sweep, faults>>

AskStep(s) ==
    \/ CheckListing(s)
    \/ CreateBid(s) \/ CreateConflicts(s)
    \/ AnswerBid(s)
    \/ CounterBid(s) \/ CounterConflicts(s)

-----------------------------------------------------------------------------
\* expireDueBids: the bids whose BID_TTL_DAYS have passed are read, and
\* then updated by id.
SweepFind ==
    /\ sweep = {}
    /\ sweep' \in (SUBSET Open) \ {{}}
    /\ UNCHANGED <<listingVars, closerVars, bids, ask, faults>>

\* Faulty: the bids are told they lapsed, and stay open.
FaultySweepWrite ==
    /\ sweep # {}
    /\ sweep' = {}
    /\ UNCHANGED <<listingVars, closerVars, bids, ask, faults>>

SweepWrite ==
    /\ sweep # {}
    /\ bids' = Mark(bids, sweep, "EXPIRED")
    /\ sweep' = {}
    /\ UNCHANGED <<listingVars, closerVars, ask, faults>>

-----------------------------------------------------------------------------
\* The listing is archived or sold, and comes back.
TakeDown ==
    /\ active /\ takeDowns < MaxTakeDowns
    /\ active' = FALSE
    /\ takeDowns' = takeDowns + 1
    /\ UNCHANGED <<closerVars, bids, ask, sweep, faults>>

Restore ==
    /\ ~active
    /\ active' = TRUE
    /\ UNCHANGED <<takeDowns, closerVars, bids, ask, sweep, faults>>

\* The relay delivers a take-down that is not processed yet.
Deliver ==
    /\ closer = Idle
    /\ \E e \in 1..takeDowns \ processed :
         closer' = [pc |-> "find", event |-> e, list |-> {}]
    /\ UNCHANGED <<listingVars, processed, failed, bids, ask, sweep, faults>>

\* closeOpenBidsFor: the open bids are read, and then updated by id.
CloseFind ==
    /\ closer.pc = "find"
    /\ closer' = [closer EXCEPT !.list = Open,
                               !.pc = IF Open = {} THEN "save" ELSE "write"]
    /\ UNCHANGED <<listingVars, processed, failed, bids, ask, sweep, faults>>

\* Faulty: nothing is closed when the listing is back by now.
FaultyCloseWrite ==
    /\ closer.pc = "write"
    /\ bids' = IF active THEN bids ELSE Mark(bids, closer.list, "DECLINED")
    /\ closer' = [closer EXCEPT !.list = {}, !.pc = "save"]
    /\ UNCHANGED <<listingVars, processed, failed, ask, sweep, faults>>

CloseWrite ==
    /\ closer.pc = "write"
    /\ bids' = Mark(bids, closer.list, "DECLINED")
    /\ closer' = [closer EXCEPT !.list = {}, !.pc = "save"]
    /\ UNCHANGED <<listingVars, processed, failed, ask, sweep, faults>>

\* It catches its own errors, so the event is recorded as processed.
CloseFails ==
    /\ closer.pc \in {"find", "write"} /\ faults < MaxFaults
    /\ closer' = [closer EXCEPT !.list = {}, !.pc = "save"]
    /\ failed' = failed \union {closer.event}
    /\ faults' = faults + 1
    /\ UNCHANGED <<listingVars, processed, bids, ask, sweep>>

SaveProcessed ==
    /\ closer.pc = "save"
    /\ processed' = processed \union {closer.event}
    /\ closer' = Idle
    /\ UNCHANGED <<listingVars, failed, bids, ask, sweep, faults>>

CloserStep == Deliver \/ CloseFind \/ CloseWrite \/ SaveProcessed

\* A restart: requests, the sweep and the delivery under way are gone.
Crash ==
    /\ faults < MaxFaults /\ faults' = faults + 1
    /\ ask' = [s \in Askers |-> Idle]
    /\ sweep' = {}
    /\ closer' = Idle
    /\ UNCHANGED <<listingVars, processed, failed, bids>>

Next ==
    \/ \E s \in Askers :
         \/ \E u \in Bidders : AskCreate(s, u)
         \/ \E op \in Answers, b \in BidIds : AskAnswer(s, op, b)
         \/ AskStep(s)
    \/ SweepFind \/ SweepWrite
    \/ TakeDown \/ Restore
    \/ CloserStep \/ CloseFails
    \/ Crash

Spec == Init /\ [][Next]_vars

\* The crons tick for ever, what they await is settled, and time passes.
\* Nothing is assumed of requests, of the listing or of faults.
FairSpec ==
    /\ Spec
    /\ WF_vars(SweepFind) /\ WF_vars(SweepWrite)

-----------------------------------------------------------------------------
(* Properties *)

\* A buyer has one number on a listing at a time, however their bids, the
\* answers to them and the counter-offers overlap (price-bids.service.ts:78-80).
OneOpenBid == TypeOK /\ \A u \in Bidders : Cardinality(OpenOf(u)) <= 1

\* When a take-down has been processed, every bid that was made before it is
\* settled, although the closer works from a list it read before, and however
\* often it is delivered (close-bids-on-listing-closed.listener.ts).
TakeDownClosesBids ==
    \A e \in processed \ failed : \A b \in DOMAIN bids :
      bids[b].at < e => bids[b].status # "PENDING"

\* No offer is open for ever: it is answered, closed or swept.
BidsSettle ==
    \A b \in BidIds : b \in Open ~> b \notin Open

\* price-bids.controller.ts:121 -- a counter "settles the offer being answered
\* as COUNTERED and creates a new open one".
CounterSettles ==
    [][\A s \in Askers :
         Writing(s, {"counter"}) /\ ask'[s] = Idle
           /\ Open \subseteq {ask[s].bid} /\ faults' = faults
           => bids'[ask[s].bid].status = "COUNTERED"]_vars
=============================================================================
