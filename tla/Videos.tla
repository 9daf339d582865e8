------------------------------- MODULE Videos -------------------------------
(***************************************************************************)
(* The life of one reel: VideosService, its maintenance crons, and Bunny   *)
(* Stream, which holds the file.  Bunny says that a file is encoded with a *)
(* webhook that may come twice, late or never; the crons ask for what it   *)
(* never said.  Posting is charged when the file proves to be playable.    *)
(*                                                                         *)
(* Every caller reads the row in one statement and writes it in another,   *)
(* with a call to Bunny or a transaction on the wallet in between.  Only   *)
(* the publication claims the row by its status.                           *)
(*                                                                         *)
(* The wallet (module Ledger) can pay or it cannot, whenever it is asked.  *)
(***************************************************************************)
EXTENDS Integers, FiniteSets

CONSTANTS
    Deliveries,  \* webhooks Bunny ever sends about the file (a bound)
    Calls,       \* requests of the author or an admin on the video (a bound)
    MaxCharges,  \* bound: VIDEO_POST debits are counted up to here
    MaxFaults    \* bound: restarts

ASSUME VideosAssumption ==
    /\ MaxCharges \in Nat \ {0} /\ MaxFaults \in Nat
    /\ (Deliveries \union Calls) \intersect {"resync", "expire", "purge"} = {}

VARIABLES
    video,    \* the row
    file,     \* what Bunny has
    charges,  \* the debits whose reference is this video
    refused,  \* the wallet was once unable to pay
    job,      \* where each delivery, call and cron stands
    faults

vars == <<video, file, charges, refused, job, faults>>

Statuses == {"NONE", "UPLOADING", "AWAITING_PAYMENT", "READY", "FAILED", "EXPIRED", "REMOVED"}
Pending == {"UPLOADING", "AWAITING_PAYMENT"}
Over == {"FAILED", "EXPIRED", "REMOVED"}

\* How long ago updated_at is, against the limits the crons use: a quarter of
\* an hour, a day, two days, thirty days.
Ages == {"fresh", "stuck", "abandoned", "unpaid", "retained"}
Older(age) ==
    CASE age = "fresh" -> "stuck" [] age = "stuck" -> "abandoned"
      [] age = "abandoned" -> "unpaid" [] OTHER -> "retained"
AtLeast(age) ==
    CASE age = "stuck"     -> Ages \ {"fresh"}
      [] age = "abandoned" -> Ages \ {"fresh", "stuck"}
      [] age = "unpaid"    -> {"unpaid", "retained"}
      [] age = "retained"  -> {"retained"}

Crons == {"resync", "expire", "purge"}
Workers == Deliveries \union Calls \union Crons
Finalizers == Deliveries \union {"resync"}

TypeOK ==
    /\ video \in [status : Statuses, age : Ages, purged : BOOLEAN]
    /\ file \in {"none", "encoding", "playable", "bad", "deleted"}
    /\ charges \in 0..MaxCharges
    /\ refused \in BOOLEAN
    /\ job \in [Workers -> {"idle", "done", "ask", "publish", "park", "fail",
                            "expire", "delete", "purged", "pay", "remove"}]
    /\ faults \in 0..MaxFaults

Init ==
    /\ video = [status |-> "NONE", age |-> "fresh", purged |-> FALSE]
    /\ file = "none"
    /\ charges = 0 /\ refused = FALSE
    /\ job = [w \in Workers |-> "idle"]
    /\ faults = 0

-----------------------------------------------------------------------------
\* videos.update(id, {status}): whatever the row says by now.
Write(status) == video' = [video EXCEPT !.status = status, !.age = "fresh"]

Goto(w, step) == job' = [job EXCEPT ![w] = step]
\* A cron comes back; a delivery or a call does not.
Return(w) == Goto(w, IF w \in Crons THEN "idle" ELSE "done")

Charge == charges' = IF charges < MaxCharges THEN charges + 1 ELSE charges

\* createUploadTicket: Bunny's object is made, then the row.
CreateUploadTicket ==
    /\ video.status = "NONE"
    /\ Write("UPLOADING")
    /\ UNCHANGED <<file, charges, refused, job, faults>>

\* The phone uploads into the object, and Bunny encodes what came.
Upload ==
    /\ video.status # "NONE"
    /\ \/ file = "none" /\ file' = "encoding"
       \/ file = "encoding" /\ file' \in {"playable", "bad"}
    /\ UNCHANGED <<video, charges, refused, job, faults>>

TimePasses ==
    /\ video.status # "NONE" /\ video.age # "retained"
    /\ video' = [video EXCEPT !.age = Older(@)]
    /\ UNCHANGED <<file, charges, refused, job, faults>>

-----------------------------------------------------------------------------
\* finalize: a webhook about the file, or the resync of a stuck upload, finds
\* the row still pending.
FinalizeFind(w) ==
    /\ w \in Finalizers /\ job[w] = "idle"
    /\ IF w = "resync"
       THEN video.status = "UPLOADING" /\ video.age \in AtLeast("stuck")
       ELSE file \in {"playable", "bad", "deleted"}
    /\ IF video.status \in Pending THEN Goto(w, "ask") ELSE Return(w)
    /\ UNCHANGED <<video, file, charges, refused, faults>>

\* bunny.getVideo, the answer to which may not come: too long or not encodable
\* is a failure, not playable yet is nothing.
AskBunny(w) ==
    /\ job[w] = "ask"
    /\ \/ file = "playable" /\ Goto(w, "publish")
       \/ file = "bad" /\ Goto(w, "fail")
       \/ Return(w)
    /\ UNCHANGED <<video, file, charges, refused, faults>>

\* Faulty: the row is published whatever its status.
FaultyPublish(w) ==
    /\ job[w] = "publish"
    /\ \/ Write("READY") /\ Charge /\ Return(w) /\ UNCHANGED refused
       \/ refused' = TRUE /\ Goto(w, "park") /\ UNCHANGED <<video, charges>>
    /\ UNCHANGED <<file, faults>>

\* publish: one transaction claims the row, by its status, and charges.  When
\* the wallet refuses, the claim is rolled back.
Publish(w) ==
    /\ job[w] = "publish"
    /\ \/ /\ video.status \in Pending
          /\ \/ Write("READY") /\ Charge /\ Return(w) /\ UNCHANGED refused
             \/ refused' = TRUE /\ Goto(w, "park") /\ UNCHANGED <<video, charges>>
       \/ /\ video.status \notin Pending
          /\ Return(w) /\ UNCHANGED <<video, charges, refused>>
    /\ UNCHANGED <<file, faults>>

\* publish's catch: the video waits for money.
Park(w) ==
    /\ job[w] = "park"
    /\ Write("AWAITING_PAYMENT")
    /\ Return(w)
    /\ UNCHANGED <<file, charges, refused, faults>>

\* fail, and the cron's end of an abandoned upload: then the file goes.
Fail(w) ==
    /\ job[w] = "fail"
    /\ Write("FAILED")
    /\ Goto(w, "delete")
    /\ UNCHANGED <<file, charges, refused, faults>>

\* bunny.deleteVideo: it swallows its errors, so the file may stay.
DeleteFile(w) ==
    /\ job[w] = "delete"
    /\ file' \in {file, "deleted"}
    /\ Goto(w, "purged")
    /\ UNCHANGED <<video, charges, refused, faults>>

MarkPurged(w) ==
    /\ job[w] = "purged"
    /\ video' = [video EXCEPT !.purged = TRUE, !.age = "fresh"]
    /\ Return(w)
    /\ UNCHANGED <<file, charges, refused, faults>>

-----------------------------------------------------------------------------
\* A call is publishPending, remove, or an edit of the caption or the link.
PayFind(w) ==
    /\ w \in Calls /\ job[w] = "idle" /\ video.status = "AWAITING_PAYMENT"
    /\ Goto(w, "pay")
    /\ UNCHANGED <<video, file, charges, refused, faults>>

\* publishPending's transaction: it charges, and the row is READY; or 402.
Pay(w) ==
    /\ job[w] = "pay"
    /\ \/ Write("READY") /\ Charge /\ UNCHANGED refused
       \/ refused' = TRUE /\ UNCHANGED <<video, charges>>
    /\ Return(w)
    /\ UNCHANGED <<file, faults>>

RemoveFind(w) ==
    /\ w \in Calls /\ job[w] = "idle" /\ video.status \notin {"NONE", "REMOVED"}
    /\ Goto(w, "remove")
    /\ UNCHANGED <<video, file, charges, refused, faults>>

Remove(w) ==
    /\ job[w] = "remove"
    /\ Write("REMOVED")
    /\ Return(w)
    /\ UNCHANGED <<file, charges, refused, faults>>

\* update, adminUpdate: nothing but updated_at, as far as this module goes.
Update(w) ==
    /\ w \in Calls /\ job[w] = "idle" /\ video.status # "NONE"
    /\ Write(video.status)
    /\ Return(w)
    /\ UNCHANGED <<file, charges, refused, faults>>

-----------------------------------------------------------------------------
\* Faulty: only abandoned uploads are looked for.
FaultyExpireFind ==
    /\ job["expire"] = "idle"
    /\ video.status = "UPLOADING" /\ video.age \in AtLeast("abandoned")
    /\ Goto("expire", "fail")
    /\ UNCHANGED <<video, file, charges, refused, faults>>

\* expireStalled: uploads that never came, and videos nobody paid for.
ExpireFind ==
    /\ job["expire"] = "idle"
    /\ \/ /\ video.status = "UPLOADING" /\ video.age \in AtLeast("abandoned")
          /\ Goto("expire", "fail")
       \/ /\ video.status = "AWAITING_PAYMENT" /\ video.age \in AtLeast("unpaid")
          /\ Goto("expire", "expire")
    /\ UNCHANGED <<video, file, charges, refused, faults>>

Expire ==
    /\ job["expire"] = "expire"
    /\ Write("EXPIRED")
    /\ Goto("expire", "delete")
    /\ UNCHANGED <<file, charges, refused, faults>>

\* purgeRemoved: also the failures whose purge a restart cut short.
PurgeFind ==
    /\ job["purge"] = "idle"
    /\ video.status \in Over /\ ~video.purged /\ video.age \in AtLeast("retained")
    /\ Goto("purge", "delete")
    /\ UNCHANGED <<video, file, charges, refused, faults>>

\* The statements awaited inside a delivery, a call or a cron.
Step(w) ==
    \/ AskBunny(w) \/ Publish(w) \/ Park(w) \/ Fail(w)
    \/ DeleteFile(w) \/ MarkPurged(w)
    \/ Pay(w) \/ Remove(w)
    \/ w = "expire" /\ Expire

\* A restart: what was under way is gone.
Crash ==
    /\ faults < MaxFaults /\ faults' = faults + 1
    /\ job' = [w \in Workers |->
                 IF w \in Crons \/ job[w] = "idle" THEN "idle" ELSE "done"]
    /\ UNCHANGED <<video, file, charges, refused>>

Next ==
    \/ CreateUploadTicket \/ Upload \/ TimePasses
    \/ \E w \in Workers :
         \/ FinalizeFind(w)
         \/ PayFind(w) \/ RemoveFind(w) \/ Update(w)
         \/ Step(w)
    \/ ExpireFind \/ PurgeFind
    \/ Crash

Spec == Init /\ [][Next]_vars

\* The crons tick for ever, what they await is settled, and time passes.
\* Nothing is assumed of the phone, Bunny, the author or the wallet.
FairSpec ==
    /\ Spec
    /\ WF_vars(TimePasses)
    /\ WF_vars(FinalizeFind("resync")) /\ WF_vars(ExpireFind) /\ WF_vars(PurgeFind)
    /\ \A w \in Workers : WF_vars(Step(w))

-----------------------------------------------------------------------------
(* Properties *)

\* videos.constants.ts:5 -- "nothing becomes public without being charged",
\* by whichever of the ways in, and whoever overwrote the row before.  And
\* however many webhooks and resyncs say that the file is ready, they charge
\* once between them (videos.service.ts:282, "exactly one delivery wins"),
\* as long as the wallet never refused.
PublicIsPaidOnce ==
    /\ TypeOK
    /\ video.status = "READY" => charges > 0
    /\ charges > 1 => refused

\* Nothing is left over (videos.maintenance.service.ts:27): an upload is settled
\* though no webhook comes and Bunny never answers, a video that waits for money
\* does not wait for ever, and the file of one that is over is disposed of,
\* though a restart cut its disposal short -- unless it comes back meanwhile.
UploadsSettle ==
    /\ video.status \in Pending ~> video.status \notin Pending
    /\ video.status \in Over ~> (video.purged \/ video.status \notin Over)
=============================================================================
