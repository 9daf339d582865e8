----------------------------- MODULE MCServices -----------------------------
(***************************************************************************)
(* The services around the adverts, for TLC: what a post costs, days of    *)
(* TOP, the rate and the prices, the catalogue, tours, pictures, what      *)
(* people do to a reel, the desk, and how a list is read.  They share no   *)
(* row, so a behaviour moves one of them, chosen at the start; and where   *)
(* one keeps two things that do not meet, it moves one of those.           *)
(***************************************************************************)
EXTENDS Charging, Promotion, Prices, Catalogue, Tours, Gallery, Reels, Desk, Pages

CONSTANTS u1, u2, r1, r2, l1, l2, l3, c1, c2, a1, v1, d1

VARIABLE part

servicesVars == <<part, chargeVars, topVars, priceVars, catalogueVars, tourVars,
                  galleryVars, clipVars, deskVars, pageVars>>

Parts == {"charging", "promotion", "prices", "categories", "amenities", "tours",
          "avatar", "images", "watch", "talk", "letters", "badge", "pages"}

SellersU1AndU2 == [l \in Ads |-> IF l = l3 THEN u2 ELSE u1]
AuthorU1 == [v \in Clips |-> u1]

(* Every list that can be read, in the behaviours that read one. *)
PagesAtRest ==
    /\ PagesInit
    /\ part # "pages" => list = LedgerPage /\ PageRows = {}

ServicesInit ==
    /\ part \in Parts
    /\ ChargingInit /\ PromotionInit /\ PricesInit /\ CatalogueInit
    /\ ToursInit /\ GalleryInit /\ ReelsInit /\ DeskInit /\ PagesAtRest

(***************************************************************************)
(* The halves of a module                                                  *)
(***************************************************************************)
(* What is asked of the adverts that are saved. *)
Filing(P(_)) == \A r \in Requests : catCalls'[r].at = "file" => P(catCalls'[r])

CatalogueHalf ==
    /\ CatalogueNext
    /\ IF part = "categories"
       THEN /\ UNCHANGED <<amenities, amenityCache, page>>
            /\ Filing(LAMBDA call : call.keys = {})
            /\ \A r \in Requests : catCalls'[r].at = "load" =>
                                     catCalls'[r].what = "categories"
       ELSE /\ UNCHANGED categories
            /\ Filing(LAMBDA call : call.answers = {} /\ call.slug = c1)
            /\ \A r \in Requests : catCalls'[r].at \notin {"edit", "remove"}

GalleryHalf ==
    /\ GalleryNext
    /\ \A r \in Requests :
          picCalls'[r].at # IF part = "avatar" THEN "delete" ELSE "avatar"

ReelsHalf ==
    /\ ReelsNext
    /\ IF part = "watch" THEN clipWritten' = 0
                         ELSE clipLikes' = {} /\ clipViews' = {}

DeskHalf ==
    /\ DeskNext
    /\ IF part = "letters" THEN filed' = 0
       ELSE /\ \A u \in Users : letters'[u] \in Seq({"desk"}) /\ Len(letters'[u]) <= 2
            /\ \A r \in Requests : deskCalls'[r].at # "read"

ServicesNext ==
    \/ /\ part = "charging" /\ ChargingNext
       /\ UNCHANGED <<part, topVars, priceVars, catalogueVars, tourVars,
                      galleryVars, clipVars, deskVars, pageVars>>
    \/ /\ part = "promotion" /\ PromotionNext
       /\ UNCHANGED <<part, chargeVars, priceVars, catalogueVars, tourVars,
                      galleryVars, clipVars, deskVars, pageVars>>
    \/ /\ part = "prices" /\ PricesNext
       /\ UNCHANGED <<part, chargeVars, topVars, catalogueVars, tourVars,
                      galleryVars, clipVars, deskVars, pageVars>>
    \/ /\ part \in {"categories", "amenities"} /\ CatalogueHalf
       /\ UNCHANGED <<part, chargeVars, topVars, priceVars, tourVars,
                      galleryVars, clipVars, deskVars, pageVars>>
    \/ /\ part = "tours" /\ ToursNext
       /\ UNCHANGED <<part, chargeVars, topVars, priceVars, catalogueVars,
                      galleryVars, clipVars, deskVars, pageVars>>
    \/ /\ part \in {"avatar", "images"} /\ GalleryHalf
       /\ UNCHANGED <<part, chargeVars, topVars, priceVars, catalogueVars,
                      tourVars, clipVars, deskVars, pageVars>>
    \/ /\ part \in {"watch", "talk"} /\ ReelsHalf
       /\ UNCHANGED <<part, chargeVars, topVars, priceVars, catalogueVars,
                      tourVars, galleryVars, deskVars, pageVars>>
    \/ /\ part \in {"letters", "badge"} /\ DeskHalf
       /\ UNCHANGED <<part, chargeVars, topVars, priceVars, catalogueVars,
                      tourVars, galleryVars, clipVars, pageVars>>
    \/ /\ part = "pages" /\ PagesNext
       /\ UNCHANGED <<part, chargeVars, topVars, priceVars, catalogueVars,
                      tourVars, galleryVars, clipVars, deskVars>>

ServicesSpec == ServicesInit /\ [][ServicesNext]_servicesVars /\ ReelsFairness

(* What the desk and the people read of each other: the unread numbers are *)
(* the messages nobody opened, and a badge is worn on an application that  *)
(* stands approved.  (support.service.ts:71-171, 232-292,                  *)
(* verification.service.ts:142-243)                                        *)
TheDeskIsRight == DeskTypeOK /\ UnreadIsUnseen /\ BadgeIsApproved

(* The variables of the other services keep their types.                   *)
TypeOK ==
    /\ ChargingTypeOK /\ PromotionTypeOK /\ PricesTypeOK /\ CatalogueTypeOK
    /\ ToursTypeOK /\ GalleryTypeOK /\ ReelsTypeOK /\ PagesTypeOK

(* Whatever list is read to its end while others write it, what stood all  *)
(* along was given, and given once.  (videos.service.ts:385-563,           *)
(* chat.service.ts:472-508, listing.repository.ts:35-150)                  *)
ListsAreReadWhole == TypeOK /\ ScrollReadsWhatStood
=============================================================================
