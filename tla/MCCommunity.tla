---------------------------- MODULE MCCommunity ----------------------------
(***************************************************************************)
(* What people do around a listing and to each other, for TLC: the thread  *)
(* under a listing, its view counter, the stars and reports, follows,      *)
(* complaints about reels, and what they are told of it all.  They share   *)
(* no row, so a behaviour moves one of them, chosen at the start, and the  *)
(* state space is the sum of theirs and not the product.                   *)
(***************************************************************************)
EXTENDS Comments, ListingViews, Reputation, Follows, Flags, Inbox, TLC

CONSTANTS u1, u2, r1, r2, l1, l2, a1, a2, d1, v1, c1, h1

VARIABLE part

OwnerIsU1 == [l \in Listings |-> u1]
ReelByU1 == [t \in Targets |-> IF t \in Shots THEN u1 ELSE None]
AlikeEachOther == Permutations(Requests) \cup Permutations(Adverts)

CommunityInit ==
    /\ part \in {"comments", "views", "stars", "follows", "flags", "inbox"}
    /\ CommentsInit /\ ViewsInit /\ RatingInit /\ FollowsInit /\ FlagsInit
    /\ InboxInit

CommunityNext ==
    \/ /\ part = "comments" /\ CommentsNext
       /\ UNCHANGED <<part, viewVars, ratingVars, followVars, flagVars,
                      inboxVars>>
    \/ /\ part = "views" /\ ViewsNext
       /\ UNCHANGED <<part, commentsVars, ratingVars, followVars, flagVars,
                      inboxVars>>
    \/ /\ part = "stars" /\ RatingNext
       /\ UNCHANGED <<part, commentsVars, viewVars, followVars, flagVars,
                      inboxVars>>
    \/ /\ part = "follows" /\ FollowsNext
       /\ UNCHANGED <<part, commentsVars, viewVars, ratingVars, flagVars,
                      inboxVars>>
    \/ /\ part = "flags" /\ FlagsNext
       /\ UNCHANGED <<part, commentsVars, viewVars, ratingVars, followVars,
                      inboxVars>>
    \/ /\ part = "inbox" /\ InboxNext
       /\ UNCHANGED <<part, commentsVars, viewVars, ratingVars, followVars,
                      flagVars>>

communityVars == <<part, commentsVars, viewVars, ratingVars, followVars,
                   flagVars, inboxVars>>

CommunitySpec == CommunityInit /\ [][CommunityNext]_communityVars

TypeOK ==
    /\ CommentsTypeOK /\ ViewsTypeOK /\ RatingTypeOK /\ FollowsTypeOK
    /\ FlagsTypeOK /\ InboxTypeOK

(* The numbers beside the names and on the cards stand for rows: who       *)
(* opened a listing, and who follows whom, however the requests repeat and *)
(* overlap.  (views.service.ts:28-93, follows.service.ts:68-132)           *)
CountsAreRows == TypeOK /\ ViewsArePeople /\ FollowCountsAreRows

(* What rating.constants.ts says the numbers come to, and what score must  *)
(* be: a mean that stays among the stars and that a worse vote never       *)
(* raises, for every weight in quarters of a review.                       *)
ASSUME ScoreIsAsDocumented ==
    /\ Score(NoVote) = 50
    /\ Score(Vote(NewVote, 1)) = 40
    /\ Score(Vote(10 * NewVote, 1)) = 19
    /\ \A w \in 0 .. 60, s \in 1 .. 5, o \in 0 .. 24 :
          LET votes == PlusVote(Vote(w, s), Vote(o, 1)) IN
          /\ Score(votes) \in 10 .. 50
          /\ Score(PlusVote(votes, Vote(1, 1))) <= Score(votes)
=============================================================================
