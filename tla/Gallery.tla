------------------------------- MODULE Gallery -------------------------------
(***************************************************************************)
(* The picture files: an upload stores two renditions at Bunny             *)
(* (MediaService), an avatar or a listing's gallery refers to them by url  *)
(* (replaceAvatar of UsersService, updateImages of ListingsService), and   *)
(* what a change displaces is published, in its transaction, for the       *)
(* listener that deletes the files.                                        *)
(***************************************************************************)
EXTENDS Requests

CONSTANTS MaxPictures, \* bound: uploads
          MaxChanges,  \* bound: changes of the avatar or the gallery
          MaxCuts      \* bound: restarts

VARIABLES bunny,     \* Bunny: the renditions stored of each picture
          uploaded,  \* how many pictures were uploaded
          loose,     \* pictures answered to a phone and not attached yet
          avatar,    \* users.avatar_url of one person: a picture or None
          gallery,   \* listing_images of one listing: a set of pictures
          orphaned,  \* media.files_orphaned events to deliver: sets of pictures
          picCalls,  \* the requests in flight
          changes, cuts, \* ghosts for the bounds
          givenUp,   \* ghost: pictures whose files were to be deleted
          lost,   \* ghost: pictures that nothing refers to or deletes
          revived    \* ghost: pictures shown although they were given up

ASSUME GalleryBounds == MaxPictures \in Nat /\ None \notin Nat

galleryVars == <<bunny, uploaded, loose, avatar, gallery, orphaned, picCalls,
                 changes, cuts, givenUp, lost, revived>>

Pictures == 1 .. MaxPictures
Renditions == {"full", "thumb"}

GalleryInit ==
    /\ bunny = [p \in Pictures |-> {}]
    /\ uploaded = 0 /\ changes = 0 /\ cuts = 0
    /\ loose = {} /\ gallery = {} /\ orphaned = {}
    /\ avatar = None
    /\ picCalls = [r \in Requests |-> Idle]
    /\ givenUp = {} /\ lost = {} /\ revived = {}

PicGoes(r, call) == picCalls' = [picCalls EXCEPT ![r] = call]

(* A request comes in. *)
Asks(r, call) ==
    /\ picCalls[r] = Idle
    /\ changes < MaxChanges
    /\ changes' = changes + 1
    /\ PicGoes(r, call)

(* processImage, processAvatar: both renditions are put at once.  Where    *)
(* one fails the request does, and the other stays; a batch answers the    *)
(* pictures that went through.                                             *)
Upload(stored) ==
    /\ uploaded < MaxPictures
    /\ uploaded' = uploaded + 1
    /\ bunny' = [bunny EXCEPT ![uploaded'] = stored]
    /\ IF stored = Renditions
       THEN loose' = loose \cup {uploaded'} /\ UNCHANGED lost
       ELSE lost' = lost \cup {uploaded'} /\ UNCHANGED loose
    /\ UNCHANGED <<avatar, gallery, orphaned, picCalls, changes, cuts, givenUp, revived>>

(* What a transaction displaced, in the outbox with it. *)
Publish(displaced) ==
    /\ orphaned' = IF displaced = {} THEN orphaned ELSE orphaned \cup {displaced}
    /\ givenUp' = givenUp \cup displaced

(***************************************************************************)
(* replaceAvatar: the profile is read, then one transaction                *)
(***************************************************************************)
(* setAvatar with the picture just uploaded, and removeAvatar. *)
AskAvatar(r) ==
    /\ uploaded < MaxPictures
    /\ uploaded' = uploaded + 1
    /\ bunny' = [bunny EXCEPT ![uploaded'] = Renditions]
    /\ Asks(r, [at |-> "avatar", new |-> uploaded', old |-> avatar])
    /\ UNCHANGED <<loose, avatar, gallery, orphaned, cuts, givenUp, lost, revived>>

AskNoAvatar(r) ==
    /\ Asks(r, [at |-> "avatar", new |-> None, old |-> avatar])
    /\ UNCHANGED <<bunny, uploaded, loose, avatar, gallery, orphaned, cuts,
                   givenUp, lost, revived>>

SwapAvatar(r) ==
    LET call == picCalls[r] IN
    /\ call.at = "avatar"
    /\ avatar' = call.new
    /\ Publish({call.old} \ {None})
    /\ lost' = lost \cup ({avatar} \ {None, call.old})
    /\ PicGoes(r, Idle)
    /\ UNCHANGED <<bunny, uploaded, loose, gallery, changes, cuts, revived>>

(***************************************************************************)
(* updateImages: the rows are read, deleted and inserted again             *)
(***************************************************************************)
AskImages(r, pictures) ==
    /\ pictures # {}
    /\ pictures \subseteq loose \cup gallery \cup givenUp
    /\ Asks(r, [at |-> "delete", keep |-> pictures, existing |-> gallery])
    /\ UNCHANGED <<bunny, uploaded, loose, avatar, gallery, orphaned, cuts,
                   givenUp, lost, revived>>

(* The delete takes the rows there are when it starts, and not those that  *)
(* another edit inserts while it waits.                                    *)
DeleteRows(r) ==
    LET call == picCalls[r] IN
    /\ call.at = "delete"
    /\ PicGoes(r, [at |-> "insert", keep |-> call.keep, existing |-> call.existing,
                   sees |-> gallery])
    /\ UNCHANGED <<bunny, uploaded, loose, avatar, gallery, orphaned, changes, cuts,
                   givenUp, lost, revived>>

(* existing.filter: the rows whose url is not sent again. *)
FaultyRemoved(call) == call.keep \ call.existing
Removed(call) == call.existing \ call.keep

CommitImages(r) ==
    LET call == picCalls[r]
        rows == (gallery \ call.sees) \cup call.keep IN
    /\ call.at = "insert"
    /\ gallery' = rows
    /\ loose' = loose \ call.keep
    /\ Publish(Removed(call))
    /\ lost' = lost \cup (call.sees \ (call.existing \cup call.keep))
    /\ revived' = revived \cup (call.keep \cap givenUp)
                          \cup (rows \cap (call.existing \ call.keep))
    /\ PicGoes(r, Idle)
    /\ UNCHANGED <<bunny, uploaded, avatar, changes, cuts>>

(* handleOrphaned: each url in turn; a delete that Bunny refuses is logged. *)
DeleteFiles(event, refused) ==
    /\ event \in orphaned
    /\ orphaned' = orphaned \ {event}
    /\ bunny' = [p \in Pictures |-> IF p \in event \ refused THEN {} ELSE bunny[p]]
    /\ lost' = lost \cup refused
    /\ UNCHANGED <<uploaded, loose, avatar, gallery, picCalls, changes, cuts, givenUp, revived>>

(* The avatars of the requests in flight. *)
Attaching == {picCalls[r].new : r \in {q \in Requests : picCalls[q].at = "avatar"}}

(* The process stops: open transactions roll back, the events stay. *)
GalleryRestart ==
    /\ cuts < MaxCuts
    /\ cuts' = cuts + 1
    /\ lost' = lost \cup (Attaching \ {None})
    /\ picCalls' = [r \in Requests |-> Idle]
    /\ UNCHANGED <<bunny, uploaded, loose, avatar, gallery, orphaned, changes,
                   givenUp, revived>>

GalleryNext ==
    \/ \E stored \in SUBSET Renditions : Upload(stored)
    \/ \E r \in Requests :
          \/ AskAvatar(r) \/ AskNoAvatar(r)
          \/ \E ps \in SUBSET Pictures : AskImages(r, ps)
          \/ SwapAvatar(r) \/ DeleteRows(r) \/ CommitImages(r)
    \/ \E event \in orphaned : \E refused \in SUBSET event : DeleteFiles(event, refused)
    \/ GalleryRestart

GallerySpec == GalleryInit /\ [][GalleryNext]_galleryVars

GalleryTypeOK ==
    /\ bunny \in [Pictures -> SUBSET Renditions]
    /\ avatar \in Pictures \cup {None}
    /\ gallery \subseteq Pictures

Shown == gallery \cup ({avatar} \ {None})

(* Nothing shown is broken and nothing stored is forgotten: a picture of   *)
(* the avatar or the gallery has both its files, unless an edit put it     *)
(* back after another gave it up; and whatever Bunny stores is shown,      *)
(* waiting to be attached, being attached or on its way to deletion, save  *)
(* what overlapping changes and refused deletes lose                       *)
(* (users.service.ts:111-136, listings.service.ts:530-566,                 *)
(* delete-listing-image.listener.ts:25-42).                                *)
FilesAreAccountedFor ==
    /\ \A p \in Shown \ revived : bunny[p] = Renditions
    /\ \A p \in Pictures : bunny[p] # {} =>
          p \in Shown \cup loose \cup Attaching \cup (UNION orphaned) \cup lost \cup revived
=============================================================================
