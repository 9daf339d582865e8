----------------------------- MODULE Reputation -----------------------------
(***************************************************************************)
(* What decides a listing's stars: reviews (ReviewsService), reports on    *)
(* listings (ReportsService) and on conversations (ChatReportsService),    *)
(* and the recomputation each of them ends with (RatingService), which     *)
(* reads the three records in three statements and stores the result in a  *)
(* fourth.                                                                 *)
(*                                                                         *)
(* Ratings are in tenths of a star and weights in quarters of a review:    *)
(* a vote weighs a whole review when it is new and never less than a       *)
(* quarter.  The state machine keeps its votes new; Score is checked for   *)
(* every weight.                                                           *)
(***************************************************************************)
EXTENDS Requests

CONSTANTS Adverts,     \* the listings of one seller
          Seller,
          Stars,       \* the ratings given, out of 1 .. 5
          Talks,       \* the seller's conversations: each names the guest
          MaxRecounts  \* bound: recomputations ever started

ASSUME RatingAssumption ==
    /\ Stars \subseteq 1 .. 5 /\ None \notin 1 .. 5 /\ None # "RESOLVED"
    /\ IsFiniteSet(Users) /\ IsFiniteSet(Adverts) /\ Talks \subseteq Users

VARIABLES reviews,     \* listing_reviews: <<listing, author>> -> stars or None
          reports,     \* listing_reports: <<listing, reporter>> -> status or None
          chatReports, \* chat_reports: <<guest, reporter>> -> status or None
          rating,      \* listings.rating_avg, rating_count
          ratingCalls, \* the requests in flight
          ratingAlone, \* ghost: listing -> its last recount ran alone so far
          recounts     \* how many were started

ratingVars == <<reviews, reports, chatReports, rating, ratingCalls,
                ratingAlone, recounts>>

record == <<reviews, reports, chatReports>>
Statuses == {"OPEN", "RESOLVED", "DISMISSED"}
Buyers == Users \ {Seller}
NewVote == 4

(***************************************************************************)
(* RatingService.score                                                     *)
(***************************************************************************)
PRIOR == 5
PRIOR_WEIGHT == 3 * NewVote
REPORT_STARS == 1
REPORT_LISTING_WEIGHT == 3
REPORT_OWNER_WEIGHT == 1
REPORT_OWNER_CAP == 6 * NewVote

(* A vote is its weight and its weight times its stars; votes add up. *)
Vote(weight, stars) == [weight |-> weight, weighted |-> weight * stars]
PlusVote(v, w) == [weight |-> v.weight + w.weight,
                   weighted |-> v.weighted + w.weighted]
NoVote == Vote(0, 0)

(* The weighted mean against the prior, rounded to a tenth.  It stays in   *)
(* 10 .. 50 because every vote does, so the clamp changes nothing.         *)
Score(votes) ==
    LET all == PlusVote(votes, Vote(PRIOR_WEIGHT, PRIOR)) IN
    (20 * all.weighted + all.weight) \div (2 * all.weight)

(* How a listing's rating follows from its reviews, the weight of the      *)
(* upheld reports on it and the weight of those on its seller: what was    *)
(* already charged to this listing is not charged to it again as the       *)
(* seller's record.                                                        *)
Rated(ofReviews, onListing, onSeller) ==
    LET onOwner == Monus(onSeller, onListing)
        cap(n) == IF n > REPORT_OWNER_CAP THEN REPORT_OWNER_CAP ELSE n IN
    Score(PlusVote(ofReviews,
          PlusVote(Vote(onListing * REPORT_LISTING_WEIGHT, REPORT_STARS),
                   Vote(cap(onOwner * REPORT_OWNER_WEIGHT), REPORT_STARS))))

(***************************************************************************)
(* The three reads                                                         *)
(***************************************************************************)
ReviewsOf(l) == {b \in Buyers : reviews[<<l, b>>] # None}
ReviewedAt(l, s) == Cardinality({b \in Buyers : reviews[<<l, b>>] = s})

ReviewWeight(l) ==
    LET with(s) == NewVote * ReviewedAt(l, s) IN
    [weight   |-> with(1) + with(2) + with(3) + with(4) + with(5),
     weighted |-> with(1) + 2 * with(2) + 3 * with(3) + 4 * with(4) + 5 * with(5)]
Upheld(l) == NewVote * Cardinality({b \in Buyers : reports[<<l, b>>] = "RESOLVED"})

(* The accused in a chat report is the participant who did not file it. *)
UpheldOnSeller ==
    NewVote * (Cardinality({x \in Adverts \X Buyers : reports[x] = "RESOLVED"})
             + Cardinality({g \in Talks : chatReports[<<g, g>>] = "RESOLVED"}))

(* What a recomputation that ran now and alone would store. *)
Deserved(l) == [avg |-> Rated(ReviewWeight(l), Upheld(l), UpheldOnSeller),
                count |-> Cardinality(ReviewsOf(l))]

RatingInit ==
    /\ reviews = [x \in Adverts \X Buyers |-> None]
    /\ reports = [x \in Adverts \X Buyers |-> None]
    /\ chatReports = [x \in Talks \X Users |-> None]
    /\ rating = [l \in Adverts |-> [avg |-> 10 * PRIOR, count |-> 0]]
    /\ ratingCalls = [r \in Requests |-> Idle]
    /\ ratingAlone = [l \in Adverts |-> TRUE]
    /\ recounts = 0

(***************************************************************************)
(* The requests: each writes its row and goes on to recompute the listings *)
(* it bears on, one for a review, the whole shelf for a report.            *)
(***************************************************************************)
Recomputes(r, listings) ==
    /\ recounts < MaxRecounts
    /\ recounts' = recounts + 1
    /\ ratingCalls[r] = Idle
    /\ ratingCalls' = [ratingCalls EXCEPT ![r] =
          [at |-> "read", listings |-> listings,
           reviews |-> None, onListing |-> None, onSeller |-> None]]
    /\ ratingAlone' = [l \in Adverts |->
          IF l \in listings THEN Alone(ratingCalls, r)
                            ELSE ratingAlone[l] /\ Alone(ratingCalls, r)]
    /\ UNCHANGED rating

(* upsert: the owner is refused, a second review replaces the first. *)
Review(r, l, b, s) ==
    /\ reviews' = [reviews EXCEPT ![<<l, b>>] = s]
    /\ Recomputes(r, {l})
    /\ UNCHANGED <<reports, chatReports>>

(* remove and adminRemove count again only what was there. *)
RemoveReview(r, l, b) ==
    /\ reviews[<<l, b>>] # None
    /\ reviews' = [reviews EXCEPT ![<<l, b>>] = None]
    /\ Recomputes(r, {l})
    /\ UNCHANGED <<reports, chatReports>>

(* One report a person: the unique constraint answers the second.  Nothing *)
(* is recomputed until a moderator has looked.                             *)
Report(l, b) ==
    /\ reports[<<l, b>>] = None
    /\ reports' = [reports EXCEPT ![<<l, b>>] = "OPEN"]
    /\ UNCHANGED <<reviews, chatReports, rating, ratingCalls, ratingAlone,
                   recounts>>

ReportChat(g, u) ==
    /\ u \in {g, Seller}
    /\ chatReports[<<g, u>>] = None
    /\ chatReports' = [chatReports EXCEPT ![<<g, u>>] = "OPEN"]
    /\ UNCHANGED <<reviews, reports, rating, ratingCalls, ratingAlone,
                   recounts>>

(* A slip: a report counts when it is upheld, and is not taken back. *)
FaultyJudge(r, l, b, status) ==
    /\ reports[<<l, b>>] # None
    /\ reports' = [reports EXCEPT ![<<l, b>>] = status]
    /\ IF status = "RESOLVED" THEN Recomputes(r, Adverts)
       ELSE UNCHANGED <<rating, ratingCalls, ratingAlone, recounts>>
    /\ UNCHANGED <<reviews, chatReports>>

(* setStatus: any status may follow any other. *)
Judge(r, l, b, status) ==
    /\ reports[<<l, b>>] # None
    /\ reports' = [reports EXCEPT ![<<l, b>>] = status]
    /\ Recomputes(r, Adverts)
    /\ UNCHANGED <<reviews, chatReports>>

(* A report the seller filed is about the guest, who sells nothing here. *)
JudgeChat(r, g, u, status) ==
    /\ chatReports[<<g, u>>] # None
    /\ chatReports' = [chatReports EXCEPT ![<<g, u>>] = status]
    /\ IF u = g THEN Recomputes(r, Adverts)
       ELSE UNCHANGED <<rating, ratingCalls, ratingAlone, recounts>>
    /\ UNCHANGED <<reviews, reports>>

(***************************************************************************)
(* recomputeListings                                                       *)
(***************************************************************************)
Reading(r) ==
    /\ ratingCalls[r] # Idle
    /\ UNCHANGED <<record, rating, ratingAlone, recounts>>

ReadReviews(r) ==
    /\ Reading(r)
    /\ ratingCalls[r].reviews = None
    /\ ratingCalls' = [ratingCalls EXCEPT ![r].reviews =
          [l \in ratingCalls[r].listings |->
              [votes |-> ReviewWeight(l), count |-> Cardinality(ReviewsOf(l))]]]

ReadListingReports(r) ==
    /\ Reading(r)
    /\ ratingCalls[r].onListing = None
    /\ ratingCalls' = [ratingCalls EXCEPT ![r].onListing =
          [l \in ratingCalls[r].listings |-> Upheld(l)]]

ReadOwnerReports(r) ==
    /\ Reading(r)
    /\ ratingCalls[r].onSeller = None
    /\ ratingCalls' = [ratingCalls EXCEPT ![r].onSeller = UpheldOnSeller]

StoreRatings(r) ==
    LET call == ratingCalls[r] IN
    /\ call # Idle
    /\ None \notin {call.reviews, call.onListing, call.onSeller}
    /\ rating' = [l \in Adverts |->
          IF l \in call.listings
          THEN [avg |-> Rated(call.reviews[l].votes, call.onListing[l],
                              call.onSeller),
                count |-> call.reviews[l].count]
          ELSE rating[l]]
    /\ ratingCalls' = [ratingCalls EXCEPT ![r] = Idle]
    /\ UNCHANGED <<record, ratingAlone, recounts>>

RatingNext ==
    \/ \E r \in Requests :
          \/ \E l \in Adverts, b \in Buyers :
                \/ \E s \in Stars : Review(r, l, b, s)
                \/ RemoveReview(r, l, b)
                \/ \E status \in Statuses : Judge(r, l, b, status)
          \/ \E g \in Talks, u \in Users, status \in Statuses :
                JudgeChat(r, g, u, status)
          \/ ReadReviews(r) \/ ReadListingReports(r) \/ ReadOwnerReports(r)
          \/ StoreRatings(r)
    \/ \E l \in Adverts, b \in Buyers : Report(l, b)
    \/ \E g \in Talks, u \in Users : ReportChat(g, u)

RatingSpec == RatingInit /\ [][RatingNext]_ratingVars

RatingTypeOK ==
    /\ reviews \in [Adverts \X Buyers -> Stars \cup {None}]
    /\ reports \in [Adverts \X Buyers -> Statuses \cup {None}]
    /\ chatReports \in [Talks \X Users -> Statuses \cup {None}]
    /\ rating \in [Adverts -> [avg : 10 .. 50, count : 0 .. Cardinality(Users)]]

(* The stars on a card are what the record says of the listing and of its  *)
(* seller, on every listing of the shelf, once nothing is in flight and if *)
(* the last recomputation of that listing did not overlap another request: *)
(* a review moves one listing, a report upheld or taken back moves all.    *)
(* (reports.service.ts:139-149, chat-reports.service.ts:176-183,           *)
(*  rating.service.ts:76-150)                                              *)
StarsFollowTheRecord ==
    Quiet(ratingCalls) =>
        \A l \in Adverts : ratingAlone[l] => rating[l] = Deserved(l)
=============================================================================
