-------------------------------- MODULE Prices --------------------------------
(***************************************************************************)
(* The exchange rate and the dollar prices that follow it: RatesService    *)
(* asks the Central Bank and then a market source, an offer is stamped     *)
(* with its price in dollars when it is saved, the projector copies it to  *)
(* the map, and PriceNormalizationService works both out again, every hour, *)
(* once the rate has moved.                                                *)
(*                                                                         *)
(* All the offers here are in so'm, and a stored price stands for the rate *)
(* it was worked out at.  A transaction keeps the rows it has written      *)
(* until it ends, and a statement does not see the rows another            *)
(* transaction has not committed when it starts.                           *)
(***************************************************************************)
EXTENDS Requests

CONSTANTS Flats,      \* the listings
          Quotes,     \* what a source may answer, the implausible left out
          Fallback,   \* FALLBACK_USD_UZS
          MaxQuotes,  \* bound: rates applied
          MaxSaves,   \* bound: offers saved
          MaxReboots  \* bound

VARIABLES rate,       \* RatesService: [uzs, source, fresh]
          refreshing, \* the daily refresh and the half-hourly retry
          repriced,   \* lastRepricedRate
          offers,     \* the rate of listing_offers.price_usd of each listing
          points,     \* the same of listing_map_points.price_usd
          changed,    \* listings with a listing.price_changed to deliver
          projecting, \* listings whose projection has deleted the old row
          repricing,  \* the transaction of reprice
          offerCalls, \* the requests in flight
          applied, saved, reboots, \* ghosts for the bounds
          own,        \* ghost: saved since the last reprice that took the row
          torn        \* ghost: projections that ran across a reprice

ratesState == <<rate, refreshing, applied>>
stored == <<offers, points, own, torn>>
priceVars == <<ratesState, repriced, stored, changed, projecting, repricing,
               offerCalls, saved, reboots>>

Sources == {"CBU", "MARKET"}
Cold == [uzs |-> Fallback, source |-> "CONSTANT", fresh |-> FALSE]

PricesInit ==
    /\ rate = Cold
    /\ refreshing = [daily |-> "cbu", retry |-> "idle"]  \* onModuleInit
    /\ applied = 0 /\ saved = 0 /\ reboots = 0
    /\ repriced = None
    /\ offers = [l \in Flats |-> Fallback]
    /\ points = offers
    /\ changed = {} /\ projecting = {} /\ own = {} /\ torn = {}
    /\ repricing = Idle
    /\ offerCalls = [r \in Requests |-> Idle]

(***************************************************************************)
(* The rate                                                                *)
(***************************************************************************)
(* The morning refresh, and the retry while the rate is missing or old: at *)
(* half past nine both may run.                                            *)
StartRefresh(job) ==
    /\ refreshing[job] = "idle"
    /\ job = "retry" => ~rate.fresh
    /\ refreshing' = [refreshing EXCEPT ![job] = "cbu"]
    /\ UNCHANGED <<rate, applied, repriced, stored, changed, projecting,
                   repricing, offerCalls, saved, reboots>>

(* No answer, an error, or a number no real rate has: the next source, and *)
(* after the market the number in hand stays.                              *)
NoQuote(job) ==
    /\ refreshing[job] # "idle"
    /\ refreshing' = [refreshing EXCEPT
                        ![job] = IF @ = "cbu" THEN "market" ELSE "idle"]
    /\ UNCHANGED <<rate, applied, repriced, stored, changed, projecting,
                   repricing, offerCalls, saved, reboots>>

ApplyQuote(job, quote) ==
    /\ refreshing[job] # "idle"
    /\ applied < MaxQuotes
    /\ rate' = [uzs |-> quote, fresh |-> TRUE,
                source |-> IF refreshing[job] = "cbu" THEN "CBU" ELSE "MARKET"]
    /\ refreshing' = [refreshing EXCEPT ![job] = "idle"]
    /\ applied' = applied + 1
    /\ UNCHANGED <<repriced, stored, changed, projecting, repricing,
                   offerCalls, saved, reboots>>

(* Twenty-five hours without an answer. *)
GrowStale ==
    /\ rate.fresh
    /\ rate' = [rate EXCEPT !.fresh = FALSE]
    /\ UNCHANGED <<refreshing, applied, repriced, stored, changed, projecting,
                   repricing, offerCalls, saved, reboots>>

(***************************************************************************)
(* Saving offers, and their copy on the map                                *)
(***************************************************************************)
Rewriting == {offerCalls[r].flat : r \in {q \in Requests : offerCalls[q] # Idle}}

(* The rows reprice holds until it ends. *)
HeldOffers == IF repricing = Idle THEN {} ELSE repricing.offers
HeldPoints == IF repricing = Idle THEN {} ELSE repricing.points

(* update, updateOffers: the old rows deleted, the price stamped at the    *)
(* rate of the moment.                                                     *)
StampOffer(r, l) ==
    /\ offerCalls[r] = Idle
    /\ saved < MaxSaves
    /\ l \notin Rewriting \cup HeldOffers
    /\ offerCalls' = [offerCalls EXCEPT ![r] = [flat |-> l, uzs |-> rate.uzs]]
    /\ saved' = saved + 1
    /\ UNCHANGED <<ratesState, repriced, stored, changed, projecting, repricing,
                   reboots>>

AwaitedBy(l) ==
    repricing # Idle /\ repricing.at = "offers" /\ l \in repricing.awaits

(* A reprice that waited for this row finds it gone and does not see the   *)
(* one that replaces it.                                                   *)
CommitOffer(r) ==
    LET call == offerCalls[r] IN
    /\ call # Idle
    /\ offers' = [offers EXCEPT ![call.flat] = call.uzs]
    /\ own' = own \cup {call.flat}
    /\ changed' = changed \cup {call.flat}
    /\ offerCalls' = [offerCalls EXCEPT ![r] = Idle]
    /\ repricing' = IF AwaitedBy(call.flat)
                    THEN [repricing EXCEPT !.awaits = @ \ {call.flat}]
                    ELSE repricing
    /\ UNCHANGED <<ratesState, repriced, points, torn, projecting, saved, reboots>>

(* The save fails: the old row is back, and a reprice that waited takes it. *)
AbortOffer(r) ==
    LET call == offerCalls[r] IN
    /\ call # Idle
    /\ offerCalls' = [offerCalls EXCEPT ![r] = Idle]
    /\ repricing' = IF AwaitedBy(call.flat)
                    THEN [repricing EXCEPT !.awaits = @ \ {call.flat},
                                           !.offers = @ \cup {call.flat}]
                    ELSE repricing
    /\ UNCHANGED <<ratesState, repriced, stored, changed, projecting, saved, reboots>>

(* onChanged: the old point is deleted... *)
BeginProjection(l) ==
    /\ l \in changed \ projecting
    /\ l \notin HeldPoints
    /\ projecting' = projecting \cup {l}
    /\ changed' = changed \ {l}
    /\ UNCHANGED <<ratesState, repriced, stored, repricing, offerCalls, saved, reboots>>

(* An open reprice takes the offer and not the point projected now, or the *)
(* point and not the offer, which was saved while it ran.                  *)
OneCopyTaken(l) ==
    /\ repricing # Idle
    /\ IF repricing.at = "points" THEN l \in repricing.offers
       ELSE l \notin repricing.offers \cup repricing.awaits

(* ...and the new one takes the price the offer has, which an open reprice *)
(* of it has not changed yet.                                              *)
EndProjection(l) ==
    /\ l \in projecting
    /\ points' = [points EXCEPT ![l] = offers[l]]
    /\ torn' = IF OneCopyTaken(l) THEN torn \cup {l} ELSE torn \ {l}
    /\ projecting' = projecting \ {l}
    /\ UNCHANGED <<ratesState, repriced, offers, own, changed, repricing,
                   offerCalls, saved, reboots>>

(***************************************************************************)
(* repriceIfRateMoved                                                      *)
(***************************************************************************)
(* A tenth of a percent. *)
Drifted(now, then) ==
    1000 * (IF now > then THEN now - then ELSE then - now) >= then

ShouldReprice == repriced # None => Drifted(rate.uzs, repriced)

(* The statement over listing_offers, which takes every row that is not    *)
(* being rewritten and waits for the others.                               *)
TickReprice ==
    /\ repricing = Idle
    /\ ShouldReprice
    /\ repricing' = [at |-> "offers", uzs |-> rate.uzs, awaits |-> Rewriting,
                     offers |-> Flats \ Rewriting, points |-> {}]
    /\ UNCHANGED <<ratesState, repriced, stored, changed, projecting,
                   offerCalls, saved, reboots>>

(* The statement over listing_map_points: a point that is being projected  *)
(* is gone when the wait for it ends.                                      *)
RepricePoints ==
    /\ repricing # Idle
    /\ repricing.at = "offers"
    /\ repricing.awaits = {}
    /\ repricing' = [repricing EXCEPT !.at = "points", !.points = Flats \ projecting,
                                      !.awaits = projecting]
    /\ UNCHANGED <<ratesState, repriced, stored, changed, projecting,
                   offerCalls, saved, reboots>>

(* The commit, and only then lastRepricedRate. *)
CommitReprice ==
    /\ repricing # Idle
    /\ repricing.at = "points"
    /\ repricing.awaits \cap projecting = {}
    /\ offers' = [l \in Flats |-> IF l \in repricing.offers THEN repricing.uzs ELSE offers[l]]
    /\ points' = [l \in Flats |-> IF l \in repricing.points THEN repricing.uzs ELSE points[l]]
    /\ own' = own \ repricing.offers
    /\ repriced' = repricing.uzs
    /\ repricing' = Idle
    /\ UNCHANGED <<ratesState, torn, changed, projecting, offerCalls, saved, reboots>>

(* It fails: nothing is written, and the next tick tries again. *)
FaultyAbortReprice ==
    /\ repricing # Idle
    /\ repriced' = repricing.uzs
    /\ repricing' = Idle
    /\ UNCHANGED <<ratesState, stored, changed, projecting, offerCalls, saved, reboots>>
AbortReprice ==
    /\ repricing # Idle
    /\ repricing' = Idle
    /\ UNCHANGED <<ratesState, repriced, stored, changed, projecting, offerCalls,
                   saved, reboots>>

(* The process starts again: the rate is the constant, what was open rolls *)
(* back, and the relay delivers again what was not projected.              *)
PricesRestart ==
    /\ reboots < MaxReboots
    /\ reboots' = reboots + 1
    /\ rate' = Cold
    /\ refreshing' = [daily |-> "cbu", retry |-> "idle"]
    /\ repriced' = None
    /\ repricing' = Idle
    /\ offerCalls' = [r \in Requests |-> Idle]
    /\ changed' = changed \cup projecting
    /\ projecting' = {}
    /\ UNCHANGED <<applied, stored, saved>>

PricesNext ==
    \/ \E job \in DOMAIN refreshing :
          \/ StartRefresh(job) \/ NoQuote(job)
          \/ \E quote \in Quotes : ApplyQuote(job, quote)
    \/ GrowStale
    \/ \E r \in Requests :
          \/ \E l \in Flats : StampOffer(r, l)
          \/ CommitOffer(r) \/ AbortOffer(r)
    \/ \E l \in Flats : BeginProjection(l) \/ EndProjection(l)
    \/ TickReprice \/ RepricePoints \/ CommitReprice \/ AbortReprice
    \/ PricesRestart

PricesSpec == PricesInit /\ [][PricesNext]_priceVars

PricesTypeOK ==
    /\ rate \in [uzs : Quotes \cup {Fallback}, source : Sources \cup {"CONSTANT"},
                 fresh : BOOLEAN]
    /\ refreshing \in [{"daily", "retry"} -> {"idle", "cbu", "market"}]
    /\ repriced \in Quotes \cup {Fallback, None}
    /\ offers \in [Flats -> Quotes \cup {Fallback}]
    /\ points \in [Flats -> Quotes \cup {Fallback}]

(* The stored prices keep up with the rate.  Once a pass has run, every    *)
(* offer carries its rate or was saved since, at a rate of its own: no     *)
(* pass that fails is taken for done.  And where nothing is on its way to  *)
(* the map, the point says what the offer says, unless a pass ran while it *)
(* was being saved or projected (price-normalization.service.ts:110-151:   *)
(* "a map whose price filter disagrees with the list's is worse than       *)
(* either being a little stale").                                          *)
StoredPricesFollowTheRate ==
    /\ repriced # None => \A l \in Flats \ own : offers[l] = repriced
    /\ \A l \in Flats \ (changed \cup projecting \cup torn) : points[l] = offers[l]
=============================================================================
