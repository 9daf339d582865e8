------------------------------ MODULE Catalogue ------------------------------
(***************************************************************************)
(* The categories and amenities that administrators manage, the adverts    *)
(* filed under them, and what is kept in memory of both: CategoriesService *)
(* and AmenitiesService keep every row until they change one, and          *)
(* ListingsService keeps its feed pages for some seconds, until a write.   *)
(*                                                                         *)
(* No foreign key ties an advert to its category.  A reader that finds no  *)
(* copy loads one and checks against it, which is a load here and then a   *)
(* check.  (The map's copy of a category follows it as that of the price   *)
(* does in Prices.)                                                        *)
(***************************************************************************)
EXTENDS Requests

CONSTANTS Homes,      \* the listings
          Slugs,      \* the categories there may be
          Questions,  \* what a category may ask: "floor", and repair or building
          Amenities,
          MaxEdits    \* bound: changes by administrators

VARIABLES categories,    \* slug -> [active, asks]
          amenities,     \* the keys of the table
          categoryCache, \* CategoriesService.cache
          amenityCache,  \* AmenitiesService.cache
          page,          \* a cached feed page
          homes,         \* listing -> [slug, answers, keys]
          catCalls,      \* the requests in flight
          edits,         \* ghost for the bound
          astray,        \* ghost: copies whose load ran across a change
          raced          \* ghost: adverts saved across a change, or two changes
                         \* that overlapped

ASSUME CatalogueNames == None \notin Slugs

tables == <<categories, amenities>>
copies == <<categoryCache, amenityCache, page, astray>>
catalogueVars == <<tables, copies, homes, catCalls, edits, raced>>

Kinds == [active : BOOLEAN, asks : SUBSET Questions]

CatalogueInit ==
    /\ categories = [s \in Slugs |-> [active |-> TRUE, asks |-> Questions]]
    /\ amenities = Amenities
    /\ categoryCache = None /\ amenityCache = None /\ page = None
    /\ homes = [l \in {} |-> None]
    /\ catCalls = [r \in Requests |-> Idle]
    /\ edits = 0
    /\ astray = {} /\ raced = {}

CatGoes(r, call) == catCalls' = [catCalls EXCEPT ![r] = call]

(* The loads of a copy that are waiting for their rows. *)
Loads(what) == {r \in Requests : catCalls[r].at = "load" /\ catCalls[r].what = what}

(***************************************************************************)
(* The copies: all() of the two services, wrap() of the feed cache         *)
(***************************************************************************)
Copy(what) == CASE what = "categories" -> categoryCache
                [] what = "amenities"  -> amenityCache
                [] what = "page"       -> page
Rows(what) == CASE what = "categories" -> categories
                [] what = "amenities"  -> amenities
                [] what = "page"       -> DOMAIN homes

BeginLoad(r, what) ==
    /\ catCalls[r] = Idle
    /\ Copy(what) = None
    /\ CatGoes(r, [at |-> "load", what |-> what, rows |-> Rows(what), crossed |-> FALSE])
    /\ UNCHANGED <<tables, copies, homes, edits, raced>>

(* The rows go into the copy whatever was dropped since they were read. *)
EndLoad(r) ==
    LET call == catCalls[r] IN
    /\ call.at = "load"
    /\ categoryCache' = IF call.what = "categories" THEN call.rows ELSE categoryCache
    /\ amenityCache' = IF call.what = "amenities" THEN call.rows ELSE amenityCache
    /\ page' = IF call.what = "page" THEN call.rows ELSE page
    /\ astray' = IF call.crossed THEN astray \cup {call.what} ELSE astray \ {call.what}
    /\ CatGoes(r, Idle)
    /\ UNCHANGED <<tables, homes, edits, raced>>

PageExpires ==
    /\ page # None
    /\ page' = None
    /\ UNCHANGED <<tables, categoryCache, amenityCache, astray, homes, catCalls, edits, raced>>

(* A change commits: the request answers, and the loads that are out have  *)
(* read the rows before it.                                                *)
Settles(r, what) ==
    catCalls' = [q \in Requests |->
        IF q = r THEN Idle
        ELSE IF q \in Loads(what) THEN [catCalls[q] EXCEPT !.crossed = TRUE]
        ELSE catCalls[q]]

(***************************************************************************)
(* create and update of a listing                                          *)
(***************************************************************************)
Saving(l) == {r \in Requests : catCalls[r].at = "file" /\ catCalls[r].home = l} # {}

(* assertValidKeys *)
KnownKeys(keys) == keys # {} => amenityCache # None /\ keys \subseteq amenityCache

(* create: the category must be offered and ask for every answer given. *)
CheckCreate(r, l, slug, answers, keys) ==
    /\ catCalls[r] = Idle
    /\ l \notin DOMAIN homes /\ ~Saving(l)
    /\ categoryCache # None
    /\ slug \in DOMAIN categoryCache
    /\ categoryCache[slug].active
    /\ answers \subseteq categoryCache[slug].asks
    /\ KnownKeys(keys)
    /\ CatGoes(r, [at |-> "file", home |-> l, slug |-> slug, was |-> None,
                   answers |-> answers, keys |-> keys, asks |-> categoryCache[slug].asks])
    /\ UNCHANGED <<tables, copies, homes, edits, raced>>

(* update: a category changed to must be offered; the one it has may be    *)
(* hidden or gone.  Only the floors are held to what the category asks.    *)
CheckUpdate(r, l, slug, answers, keys) ==
    LET known == IF slug \in DOMAIN categoryCache THEN {categoryCache[slug]} ELSE {} IN
    /\ catCalls[r] = Idle
    /\ l \in DOMAIN homes
    /\ categoryCache # None
    /\ slug # homes[l].slug => \E c \in known : c.active
    /\ KnownKeys(keys)
    /\ CatGoes(r, [at |-> "file", home |-> l, slug |-> slug, was |-> homes[l].slug,
                   answers |-> answers, keys |-> keys,
                   asks |-> UNION {c.asks : c \in known}])
    /\ UNCHANGED <<tables, copies, homes, edits, raced>>

(* applyFloors *)
ApplyFloors(answers, asks) == IF "floor" \in asks THEN answers ELSE answers \ {"floor"}

(* The advert as the transaction leaves it: update writes what it was sent. *)
Filed(call) ==
    IF call.was = None
    THEN [slug |-> call.slug, answers |-> call.answers, keys |-> call.keys]
    ELSE LET old == homes[call.home] IN
         [slug    |-> IF call.slug = call.was THEN old.slug ELSE call.slug,
          answers |-> ApplyFloors(old.answers \cup call.answers, call.asks),
          keys    |-> call.keys]

(* Nothing the check relied on has changed. *)
StillFits(call) ==
    /\ call.slug \in DOMAIN categories
    /\ categories[call.slug].asks = call.asks
    /\ call.keys \subseteq amenities
    /\ call.was # None => homes[call.home].slug = call.was

FileHome(r) ==
    LET call == catCalls[r] IN
    /\ call.at = "file"
    /\ homes' = With(homes, call.home, Filed(call))
    /\ raced' = IF StillFits(call) THEN raced ELSE raced \cup {call.home}
    /\ page' = None
    /\ Settles(r, "page")
    /\ UNCHANGED <<tables, categoryCache, amenityCache, astray, edits>>

(***************************************************************************)
(* The administrator                                                       *)
(***************************************************************************)
(* invalidate() of the categories. *)
FaultyInvalidate == UNCHANGED categoryCache
Invalidate == categoryCache' = None

Changes == /\ edits < MaxEdits
           /\ edits' = edits + 1

FiledUnder(slug) == {l \in DOMAIN homes : homes[l].slug = slug}

CreateCategory(slug, kind) ==
    /\ Changes
    /\ slug \notin DOMAIN categories
    /\ categories' = With(categories, slug, kind)
    /\ Invalidate
    /\ Settles(None, "categories")
    /\ UNCHANGED <<amenities, amenityCache, page, astray, homes, raced>>

(* update: what the row asked and the change does not is cleared. *)
AskEdit(r, slug, kind) ==
    /\ catCalls[r] = Idle
    /\ Changes
    /\ slug \in DOMAIN categories
    /\ CatGoes(r, [at |-> "edit", slug |-> slug, kind |-> kind,
                   cleared |-> categories[slug].asks \ kind.asks])
    /\ UNCHANGED <<tables, copies, homes, raced>>

SaveEdit(r) ==
    LET call == catCalls[r] IN
    /\ call.at = "edit"
    /\ categories' = IF call.slug \in DOMAIN categories
                     THEN With(categories, call.slug, call.kind) ELSE categories
    /\ homes' = [l \in DOMAIN homes |-> IF l \in FiledUnder(call.slug)
                    THEN [homes[l] EXCEPT !.answers = @ \ call.cleared] ELSE homes[l]]
    /\ raced' = IF call.slug \in DOMAIN categories
                   /\ categories[call.slug].asks \ call.kind.asks = call.cleared
                THEN raced ELSE raced \cup FiledUnder(call.slug)
    /\ Invalidate
    /\ Settles(r, "categories")
    /\ UNCHANGED <<amenities, amenityCache, page, astray, edits>>

(* remove: never the last one, and while adverts are filed under it only   *)
(* with another to move them to.                                           *)
AskRemove(r, slug, moveTo) ==
    /\ catCalls[r] = Idle
    /\ Changes
    /\ slug \in DOMAIN categories
    /\ Cardinality(DOMAIN categories) > 1
    /\ FiledUnder(slug) # {} => moveTo \in DOMAIN categories \ {slug}
    /\ CatGoes(r, IF FiledUnder(slug) = {}
                  THEN [at |-> "remove", slug |-> slug, moveTo |-> None, asks |-> {}]
                  ELSE [at |-> "remove", slug |-> slug, moveTo |-> moveTo,
                        asks |-> categories[moveTo].asks])
    /\ UNCHANGED <<tables, copies, homes, raced>>

CommitRemove(r) ==
    LET call == catCalls[r]
        moved == IF call.moveTo = None THEN {} ELSE FiledUnder(call.slug) IN
    /\ call.at = "remove"
    /\ homes' = [l \in DOMAIN homes |-> IF l \in moved
                    THEN [homes[l] EXCEPT !.slug = call.moveTo,
                                          !.answers = @ \cap call.asks]
                    ELSE homes[l]]
    /\ categories' = Without(categories, {call.slug})
    /\ raced' = IF call.moveTo \in DOMAIN categories
                   /\ categories[call.moveTo].asks = call.asks
                THEN raced ELSE raced \cup FiledUnder(call.slug)
    /\ Invalidate
    /\ Settles(r, "categories")
    /\ UNCHANGED <<amenities, amenityCache, page, astray, edits>>

(* An amenity is added, or taken from the adverts that picked it; one that *)
(* none had when they were counted is only deleted.                        *)
CreateAmenity(key) ==
    /\ Changes
    /\ key \notin amenities
    /\ amenities' = amenities \cup {key}
    /\ amenityCache' = None
    /\ Settles(None, "amenities")
    /\ UNCHANGED <<categories, categoryCache, page, astray, homes, raced>>

Picked(key) == {l \in DOMAIN homes : key \in homes[l].keys}

AskDrop(r, key) ==
    /\ catCalls[r] = Idle
    /\ Changes
    /\ key \in amenities
    /\ CatGoes(r, [at |-> "drop", key |-> key, inUse |-> Picked(key) # {}])
    /\ UNCHANGED <<tables, copies, homes, raced>>

CommitDrop(r) ==
    LET call == catCalls[r] IN
    /\ call.at = "drop"
    /\ amenities' = amenities \ {call.key}
    /\ homes' = IF ~call.inUse THEN homes
                ELSE [l \in DOMAIN homes |-> [homes[l] EXCEPT !.keys = @ \ {call.key}]]
    /\ raced' = IF call.inUse THEN raced ELSE raced \cup Picked(call.key)
    /\ amenityCache' = None
    /\ Settles(r, "amenities")
    /\ UNCHANGED <<categories, categoryCache, page, astray, edits>>

CatalogueNext ==
    \/ \E r \in Requests :
          \/ \E what \in {"categories", "amenities", "page"} : BeginLoad(r, what)
          \/ EndLoad(r)
          \/ \E l \in Homes, s \in Slugs, a \in SUBSET Questions, k \in SUBSET Amenities :
                CheckCreate(r, l, s, a, k) \/ CheckUpdate(r, l, s, a, k)
          \/ FileHome(r)
          \/ \E s \in Slugs, kind \in Kinds : AskEdit(r, s, kind)
          \/ SaveEdit(r)
          \/ \E s, t \in Slugs : AskRemove(r, s, t)
          \/ CommitRemove(r)
          \/ \E key \in Amenities : AskDrop(r, key)
          \/ CommitDrop(r)
    \/ PageExpires
    \/ \E s \in Slugs, kind \in Kinds : CreateCategory(s, kind)
    \/ \E key \in Amenities : CreateAmenity(key)

CatalogueSpec == CatalogueInit /\ [][CatalogueNext]_catalogueVars

CatalogueTypeOK ==
    /\ DOMAIN categories \subseteq Slugs
    /\ \A s \in DOMAIN categories : categories[s] \in Kinds
    /\ amenities \subseteq Amenities
    /\ DOMAIN homes \subseteq Homes
    /\ \A l \in DOMAIN homes :
          homes[l] \in [slug : Slugs, answers : SUBSET Questions, keys : SUBSET Amenities]

(* An advert resolves and a copy is a copy, unless something changed while *)
(* it was being saved or read: its category exists, has the floors it      *)
(* gives, and every amenity it lists exists; the copies in memory are what *)
(* the tables say, and a cached page shows every advert there is           *)
(* (categories.service.ts:182-209, ttl-cache.ts:5).                        *)
CategoriesResolve ==
    /\ \A what \in {"categories", "amenities", "page"} \ astray :
          Copy(what) \in {None, Rows(what)}
    /\ \A l \in DOMAIN homes \ raced :
          /\ homes[l].slug \in DOMAIN categories
          /\ "floor" \in homes[l].answers => "floor" \in categories[homes[l].slug].asks
          /\ homes[l].keys \subseteq amenities
=============================================================================
