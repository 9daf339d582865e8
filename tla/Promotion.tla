------------------------------ MODULE Promotion ------------------------------
(***************************************************************************)
(* Days of TOP (ListingsService): promote buys them, archive and markSold  *)
(* bank what is left, restore gives it back.  Each decides on the copy of  *)
(* the row that the ownership guard read and writes what the row holds by  *)
(* then.  Time passes in half seconds and is banked in whole ones.  What a *)
(* promotion costs is in modules Charging and Payments; here a charge      *)
(* succeeds or is refused.                                                 *)
(***************************************************************************)
EXTENDS Requests

CONSTANTS TopAds,      \* adverts
          Durations,   \* those a LISTING_PROMOTE tariff can have
          MaxBought,   \* bound: half seconds paid for
          EndOfTime    \* bound: half seconds that pass

ASSUME PromotionBounds ==
    Durations \subseteq Nat /\ MaxBought \in Nat /\ EndOfTime \in Nat

VARIABLES top,         \* listings: status, promoted_until (0: none),
                       \* promotion_remaining_seconds (0: none)
          onSale,      \* the durations with an active tariff
          topCalls,    \* the requests in flight
          clock,
          bought,      \* ghost: TOP time paid for
          seen,        \* ghost: time the advert was live and at the top
          rounded,     \* ghost: the half seconds that rounding gave
          overtaken    \* ghost: the adverts promoted after they came down

topVars == <<top, onSale, topCalls, clock, bought, seen, rounded, overtaken>>

topGhosts == <<bought, rounded, overtaken>>
ListingStatuses == {"ACTIVE", "ARCHIVED", "SOLD"}
TopRow(status, until, banked) ==
    [status |-> status, until |-> until, banked |-> banked]

PromotionInit ==
    /\ top = [l \in TopAds |-> TopRow("ACTIVE", 0, 0)]
    /\ onSale = Durations
    /\ topCalls = [r \in Requests |-> Idle]
    /\ clock = 0
    /\ bought = [l \in TopAds |-> 0]
    /\ seen = [l \in TopAds |-> 0]
    /\ rounded = [l \in TopAds |-> 0]
    /\ overtaken = {}

TopGoes(r, call) == topCalls' = [topCalls EXCEPT ![r] = call]

(* What is left of a promotion that runs. *)
Running(l) == Monus(top[l].until, clock)

(* The guard's read, and what the copy lets through.  markSold of a sold   *)
(* advert and restore of a live one answer what is there.                  *)
Admitted(op, status) ==
    CASE op \in {"promote", "SOLD"} -> status = "ACTIVE"
      [] op = "ARCHIVED" -> TRUE
      [] op = "restore" -> status \in {"ARCHIVED", "SOLD"}

AskChange(r, l, op) ==
    /\ topCalls[r] = Idle
    /\ Admitted(op, top[l].status)
    /\ TopGoes(r, [at |-> op, ad |-> l])
    /\ UNCHANGED <<top, onSale, clock, topGhosts, seen>>

(* resolveTimedTariff: the tariff named, or the only one on sale. *)
Resolved(named) == {d \in onSale : d = named \/ (named = None /\ onSale = {d})}

(* The days are added to what still runs on the row. *)
Promote(r, named) ==
    LET l == topCalls[r].ad IN
    /\ topCalls[r].at = "promote"
    /\ \E d \in Resolved(named) :
          /\ bought[l] + d <= MaxBought
          /\ top' = [top EXCEPT ![l].until = clock + Running(l) + d]
          /\ bought' = [bought EXCEPT ![l] = @ + d]
    /\ overtaken' = IF top[l].status = "ACTIVE" THEN overtaken
                                                ELSE overtaken \cup {l}
    /\ TopGoes(r, Idle)
    /\ UNCHANGED <<onSale, clock, seen, rounded>>

(* TARIFF_UNAVAILABLE, TARIFF_NOT_FOUND, TARIFF_REQUIRED, or the wallet    *)
(* refuses: nothing is written.                                            *)
PromoteRefused(r) ==
    /\ topCalls[r].at = "promote"
    /\ TopGoes(r, Idle)
    /\ UNCHANGED <<top, onSale, clock, topGhosts, seen>>

(* What a running promotion is banked as: whole seconds, rounded up. *)
FaultyBank(left) == left \div 2
Bank(left) == (left + 1) \div 2

(* takeDown, for archive and markSold. *)
TakeDown(r) ==
    LET call == topCalls[r]
        row == top[call.ad]
        left == Running(call.ad) IN
    /\ call.at \in {"ARCHIVED", "SOLD"}
    /\ top' = [top EXCEPT ![call.ad] =
          IF left > 0 THEN TopRow(call.at, 0, Bank(left))
                      ELSE TopRow(call.at, row.until, row.banked)]
    /\ rounded' = [rounded EXCEPT ![call.ad] = @ + (left % 2)]
    /\ TopGoes(r, Idle)
    /\ UNCHANGED <<onSale, clock, bought, seen, overtaken>>

Restore(r) ==
    LET call == topCalls[r]
        row == top[call.ad] IN
    /\ call.at = "restore"
    /\ top' = [top EXCEPT ![call.ad] = TopRow("ACTIVE",
          IF row.banked > 0 THEN clock + 2 * row.banked ELSE row.until, 0)]
    /\ TopGoes(r, Idle)
    /\ UNCHANGED <<onSale, clock, topGhosts, seen>>

(* The administrator puts a tariff on sale or takes it off. *)
SetTopTariff(d) ==
    /\ onSale' = IF d \in onSale THEN onSale \ {d} ELSE onSale \cup {d}
    /\ UNCHANGED <<top, topCalls, clock, topGhosts, seen>>

(* Half a second passes. *)
Tick ==
    /\ clock < EndOfTime
    /\ clock' = clock + 1
    /\ seen' = [l \in TopAds |->
          seen[l] + IF top[l].status = "ACTIVE" /\ Running(l) > 0 THEN 1 ELSE 0]
    /\ UNCHANGED <<top, onSale, topCalls, topGhosts>>

PromotionNext ==
    \/ \E r \in Requests :
          \/ \E l \in TopAds, op \in {"promote", "ARCHIVED", "SOLD", "restore"} :
                AskChange(r, l, op)
          \/ \E named \in Durations \cup {None} : Promote(r, named)
          \/ PromoteRefused(r)
          \/ TakeDown(r)
          \/ Restore(r)
    \/ \E d \in Durations : SetTopTariff(d)
    \/ Tick

PromotionSpec == PromotionInit /\ [][PromotionNext]_topVars

PromotionTypeOK ==
    /\ top \in [TopAds -> [status : ListingStatuses, until : Nat, banked : Nat]]
    /\ onSale \subseteq Durations
    /\ clock \in 0 .. EndOfTime

(* Time at the top that was paid for is shown or still owed, through any   *)
(* number of take-downs, sales and restores that overlap: none is lost,    *)
(* and none is given but the half second that rounding adds to an odd      *)
(* rest.  Left out: an advert promoted after it came down, on a copy read  *)
(* before, whose days run unseen.                                          *)
(* (listings.service.ts:786-824, :886-942)                                 *)
PaidTimeIsKept ==
    \A l \in TopAds \ overtaken :
        LET kept == seen[l] + Running(l) + 2 * top[l].banked IN
        kept = bought[l] + rounded[l]
=============================================================================
