-------------------------------- MODULE Tours --------------------------------
(***************************************************************************)
(* The walkthrough of a listing (ListingVideosService): a ticket replaces  *)
(* the one there was, the phone sends the file straight to Bunny, and the  *)
(* webhook or the sweep asks Bunny what became of it.  The row and the     *)
(* file are in two places and every step between them awaits one of them.  *)
(***************************************************************************)
EXTENDS Requests

CONSTANTS Villas,      \* the listings
          MaxFiles,    \* bound: guids Bunny gives
          MaxVerdicts, \* bound: questions put to Bunny
          MaxStops     \* bound: restarts

VARIABLES tours,     \* listing_videos: listing -> [file, status]
          remote,    \* Bunny: guid -> "uploading", "playable", "bad"
          tourCalls, \* the requests, webhooks and sweeps in flight
          issued,    \* how many guids Bunny has given
          asked, stops, \* ghosts for the bounds
          leaked,    \* ghost: files that nothing will delete any more
          crossed    \* ghost: files with two verdicts under way at one time

ASSUME ToursBounds == MaxFiles \in Nat

tourVars == <<tours, remote, tourCalls, issued, asked, stops, leaked, crossed>>

Files == 1 .. MaxFiles

ToursInit ==
    /\ tours = [l \in {} |-> None]
    /\ remote = [f \in {} |-> None]
    /\ tourCalls = [r \in Requests |-> Idle]
    /\ issued = 0 /\ asked = 0 /\ stops = 0
    /\ leaked = {} /\ crossed = {}

TourGoes(r, call) == tourCalls' = [tourCalls EXCEPT ![r] = call]

RowOf(f) == {l \in DOMAIN tours : tours[l].file = f}

(* What the phone and the encoder do to a file meanwhile. *)
Encode(f, outcome) ==
    /\ f \in DOMAIN remote
    /\ remote[f] = "uploading"
    /\ remote' = [remote EXCEPT ![f] = outcome]
    /\ UNCHANGED <<tours, tourCalls, asked, stops, leaked, crossed, issued>>

(***************************************************************************)
(* createUploadTicket and remove                                           *)
(***************************************************************************)
(* After the discard: a ticket goes on to Bunny, a removal is done. *)
After(call) == IF call.then = "create" THEN [at |-> "create", villa |-> call.villa] ELSE Idle

(* mustOwn, and discard's read. *)
AskTour(r, l, then) ==
    /\ tourCalls[r] = Idle
    /\ TourGoes(r, IF l \in DOMAIN tours
                   THEN [at |-> "drop", villa |-> l, then |-> then, file |-> tours[l].file]
                   ELSE After([villa |-> l, then |-> then]))
    /\ UNCHANGED <<tours, remote, asked, stops, leaked, crossed, issued>>

(* discard: the row, by the id that was read... *)
DropRow(r) ==
    LET call == tourCalls[r] IN
    /\ call.at = "drop"
    /\ tours' = Without(tours, RowOf(call.file))
    /\ TourGoes(r, [call EXCEPT !.at = "dropFile"])
    /\ UNCHANGED <<remote, asked, stops, leaked, crossed, issued>>

(* ...and then the file, whose failure to go is only logged. *)
FaultyDropFile(r) ==
    LET call == tourCalls[r] IN
    /\ call.at = "dropFile"
    /\ TourGoes(r, After(call))
    /\ UNCHANGED <<tours, remote, issued, asked, stops, leaked, crossed>>
DropFile(r) ==
    LET call == tourCalls[r] IN
    /\ call.at = "dropFile"
    /\ \/ remote' = Without(remote, {call.file}) /\ UNCHANGED leaked
       \/ leaked' = leaked \cup {call.file} /\ UNCHANGED remote
    /\ TourGoes(r, After(call))
    /\ UNCHANGED <<tours, asked, stops, crossed, issued>>

(* Bunny's createVideo answers a guid, or nothing and the request fails. *)
CreateRemote(r) ==
    LET call == tourCalls[r] IN
    /\ call.at = "create"
    /\ \/ /\ issued < MaxFiles
          /\ issued' = issued + 1
          /\ remote' = With(remote, issued', "uploading")
          /\ TourGoes(r, [at |-> "save", villa |-> call.villa, file |-> issued'])
       \/ TourGoes(r, Idle) /\ UNCHANGED <<remote, issued>>
    /\ UNCHANGED <<tours, asked, stops, leaked, crossed>>

(* The row, unless another ticket saved one meanwhile: listing_id is       *)
(* unique, the request fails and its file has no row.                      *)
SaveTour(r) ==
    LET call == tourCalls[r] IN
    /\ call.at = "save"
    /\ IF call.villa \in DOMAIN tours
       THEN leaked' = leaked \cup {call.file} /\ UNCHANGED tours
       ELSE /\ tours' = With(tours, call.villa, [file |-> call.file, status |-> "UPLOADING"])
            /\ UNCHANGED leaked
    /\ TourGoes(r, Idle)
    /\ UNCHANGED <<remote, asked, stops, crossed, issued>>

(***************************************************************************)
(* finalize and sweep                                                      *)
(***************************************************************************)
Pending(f) == \E l \in RowOf(f) : tours[l].status = "UPLOADING"

Judged(f) == {r \in Requests : tourCalls[r].at \in {"ask", "verdict"}
                               /\ tourCalls[r].file = f}

(* finalize has read the row and asks Bunny; the sweep, too, or it gives   *)
(* up on a row a day old.                                                  *)
Judge(r, f, call) ==
    /\ tourCalls[r] = Idle
    /\ asked < MaxVerdicts
    /\ Pending(f)
    /\ asked' = asked + 1
    /\ TourGoes(r, call)
    /\ crossed' = IF Judged(f) = {} THEN crossed ELSE crossed \cup {f}
    /\ UNCHANGED <<tours, remote, stops, leaked, issued>>

Finalize(r, f) == Judge(r, f, [at |-> "ask", file |-> f])
Abandon(r, f)  == Judge(r, f, [at |-> "verdict", file |-> f, status |-> "FAILED"])

(* getVideo: a verdict, nothing to decide yet, or no answer. *)
Ask(r) ==
    LET call == tourCalls[r]
        verdict(status) == TourGoes(r, [at |-> "verdict", file |-> call.file,
                                        status |-> status]) IN
    /\ call.at = "ask"
    /\ \/ /\ call.file \in DOMAIN remote
          /\ \/ remote[call.file] = "playable" /\ verdict("READY")
             \/ remote[call.file] = "bad" /\ verdict("FAILED")
       \/ TourGoes(r, Idle)
    /\ UNCHANGED <<tours, remote, asked, stops, leaked, crossed, issued>>

(* The verdict is written by id, whatever the row has come to since: ready, *)
(* or failed and then the file goes.                                       *)
Verdict(r) ==
    LET call == tourCalls[r] IN
    /\ call.at = "verdict"
    /\ tours' = [l \in DOMAIN tours |-> IF l \in RowOf(call.file)
                    THEN [tours[l] EXCEPT !.status = call.status] ELSE tours[l]]
    /\ TourGoes(r, IF call.status = "READY" THEN Idle
                   ELSE [at |-> "dropFile", villa |-> None, then |-> "end",
                         file |-> call.file])
    /\ UNCHANGED <<remote, asked, stops, leaked, crossed, issued>>

(* The process stops: a file whose row is gone or failed, or not saved yet, *)
(* is Bunny's for good.                                                    *)
Unfinished == {tourCalls[r].file : r \in {q \in Requests :
                    tourCalls[q].at \in {"dropFile", "save"}}}

TourRestart ==
    /\ stops < MaxStops
    /\ stops' = stops + 1
    /\ leaked' = leaked \cup Unfinished
    /\ tourCalls' = [r \in Requests |-> Idle]
    /\ UNCHANGED <<tours, remote, asked, crossed, issued>>

ToursNext ==
    \/ \E f \in Files :
          \/ \E outcome \in {"playable", "bad"} : Encode(f, outcome)
          \/ \E r \in Requests : Finalize(r, f) \/ Abandon(r, f)
    \/ \E r \in Requests :
          \/ \E l \in Villas, then \in {"create", "end"} : AskTour(r, l, then)
          \/ DropRow(r) \/ DropFile(r) \/ CreateRemote(r) \/ SaveTour(r)
          \/ Ask(r) \/ Verdict(r)
    \/ TourRestart

ToursSpec == ToursInit /\ [][ToursNext]_tourVars

ToursTypeOK ==
    /\ DOMAIN tours \subseteq Villas
    /\ \A l \in DOMAIN tours :
          tours[l] \in [file : Files, status : {"UPLOADING", "READY", "FAILED"}]
    /\ \A f \in DOMAIN remote : remote[f] \in {"uploading", "playable", "bad"}
    /\ DOMAIN remote \subseteq 1 .. issued

(* When nothing is in flight, a tour that is shown plays: Bunny has its    *)
(* file and could play it, unless two verdicts on it ran at one time.  And *)
(* Bunny stores no other file than the one of each listing's row, save     *)
(* those a failed delete, a lost ticket or a stop has left behind          *)
(* (listing-videos.service.ts:66-69: "a listing never holds more than one  *)
(* file").                                                                 *)
TourPlays ==
    Quiet(tourCalls) =>
        /\ \A l \in DOMAIN tours : LET f == tours[l].file IN
              /\ tours[l].status = "READY" /\ f \notin crossed =>
                    f \in DOMAIN remote /\ remote[f] = "playable"
              /\ tours[l].status = "UPLOADING" => f \in DOMAIN remote
        /\ \A f \in DOMAIN remote \ leaked :
              \E l \in RowOf(f) : tours[l].status # "FAILED"
=============================================================================
