---------------------------- MODULE VideosProofs ----------------------------
(***************************************************************************)
(* Theorems about Videos, for any webhooks, requests and restarts: what is *)
(* public was charged, and once unless the wallet ever refused.            *)
(***************************************************************************)
EXTENDS Videos, TLAPS

(* Where a worker may stand.                                               *)
Stages == {"idle", "done", "ask", "publish", "park", "fail",
           "expire", "delete", "purged", "pay", "remove"}

(* Until the wallet refuses no video waits for money, nobody is about to   *)
(* let it wait or to pay for it later, and what is not yet encoded has     *)
(* cost nothing.                                                           *)
NeverRefused ==
    ~refused =>
        /\ video.status # "AWAITING_PAYMENT"
        /\ \A w \in Workers : job[w] \notin {"park", "pay"}
        /\ video.status \in {"NONE", "UPLOADING"} => charges = 0

VideosInv == PublicIsPaidOnce /\ NeverRefused

-----------------------------------------------------------------------------
(* What writes neither the row nor the wallet, and sends nobody to the     *)
(* wallet's refusals, keeps all of it.                                     *)
LEMMA StandStill ==
    ASSUME VideosInv, TypeOK',
           video'.status = video.status,
           UNCHANGED <<charges, refused>>,
           \A w \in Workers : job'[w] = job[w] \/ job'[w] \notin {"park", "pay"}
    PROVE  VideosInv'
BY DEF VideosInv, PublicIsPaidOnce, NeverRefused

(* A row may be taken to any end that is not public and owes nothing.      *)
LEMMA Closes ==
    ASSUME VideosInv, TypeOK',
           video'.status \in Over,
           UNCHANGED <<charges, refused>>,
           \A w \in Workers : job'[w] = job[w] \/ job'[w] \notin {"park", "pay"}
    PROVE  VideosInv'
BY DEF VideosInv, PublicIsPaidOnce, NeverRefused, Over

LEMMA GotoType ==
    ASSUME TypeOK, NEW w \in Workers,
           NEW step \in Stages,
           Goto(w, step)
    PROVE  /\ job' \in [Workers -> Stages]
           /\ \A v \in Workers : job'[v] = IF v = w THEN step ELSE job[v]
BY DEF TypeOK, Goto, Stages

LEMMA ReturnType ==
    ASSUME TypeOK, NEW w \in Workers, Return(w)
    PROVE  /\ job' \in [Workers -> Stages]
           /\ \A v \in Workers : job'[v] = job[v] \/ job'[v] \in {"idle", "done"}
BY DEF TypeOK, Return, Goto, Stages

LEMMA WriteType ==
    ASSUME TypeOK, NEW status \in Statuses, Write(status)
    PROVE  /\ video' \in [status : Statuses, age : Ages, purged : BOOLEAN]
           /\ video'.status = status
BY DEF TypeOK, Write, Ages, Stages

LEMMA ChargeType ==
    ASSUME TypeOK, Charge
    PROVE  /\ charges' \in 0..MaxCharges /\ charges' > 0
           /\ charges' <= charges + 1
BY VideosAssumption DEF TypeOK, Charge, Stages

-----------------------------------------------------------------------------
(* The steps                                                               *)

(* A ticket starts a row that has cost nothing.                            *)
LEMMA TicketInv ==
    ASSUME VideosInv, CreateUploadTicket
    PROVE  VideosInv'
<1>1. TypeOK
  BY DEF VideosInv, PublicIsPaidOnce
<1>2. video' \in [status : Statuses, age : Ages, purged : BOOLEAN] /\ video'.status = "UPLOADING"
  BY <1>1, WriteType DEF CreateUploadTicket, Statuses
<1>3. TypeOK'
  BY <1>1, <1>2 DEF TypeOK, CreateUploadTicket, Stages
<1> QED
  BY <1>2, <1>3 DEF VideosInv, PublicIsPaidOnce, NeverRefused, CreateUploadTicket

(* The file and the hours move on by themselves.                           *)
LEMMA WorldInv ==
    ASSUME VideosInv, Upload \/ TimePasses
    PROVE  VideosInv'
<1>1. TypeOK
  BY DEF VideosInv, PublicIsPaidOnce
<1>2. CASE Upload
  <2>1. TypeOK'
    BY <1>1, <1>2 DEF TypeOK, Upload, Stages
  <2> QED
    BY <1>2, <2>1, StandStill DEF Upload
<1>3. CASE TimePasses
  <2>1. Older(video.age) \in Ages
    BY DEF Older, Ages
  <2>2. video' \in [status : Statuses, age : Ages, purged : BOOLEAN]
        /\ video'.status = video.status
    BY <1>1, <1>3, <2>1 DEF TypeOK, TimePasses, Stages
  <2>3. TypeOK'
    BY <1>1, <1>3, <2>2 DEF TypeOK, TimePasses, Stages
  <2> QED
    BY <1>3, <2>2, <2>3, StandStill DEF TimePasses
<1> QED
  BY <1>2, <1>3

(* What only reads: a request or a cron finds the row, or Bunny answers.   *)
(* A payment is asked for only where the wallet refused one before.        *)
LEMMA FindInv ==
    ASSUME VideosInv, NEW w \in Workers,
           FinalizeFind(w) \/ AskBunny(w) \/ PayFind(w) \/ RemoveFind(w)
    PROVE  VideosInv'
<1>1. TypeOK
  BY DEF VideosInv, PublicIsPaidOnce
<1>2. UNCHANGED <<video, file, charges, refused, faults>>
  BY DEF FinalizeFind, AskBunny, PayFind, RemoveFind
<1>3. CASE PayFind(w)
  <2>1. TypeOK'
    BY <1>1, <1>2, <1>3, GotoType DEF TypeOK, PayFind, Stages
  <2>2. refused
    BY <1>3 DEF VideosInv, NeverRefused, PayFind
  <2> QED
    BY <1>2, <2>1, <2>2 DEF VideosInv, PublicIsPaidOnce, NeverRefused
<1>4. CASE ~PayFind(w)
  <2>1. \/ Return(w)
        \/ \E step \in {"ask", "publish", "fail", "remove"} : Goto(w, step)
    BY <1>4 DEF FinalizeFind, AskBunny, RemoveFind
  <2>2. /\ job' \in [Workers -> Stages]
        /\ \A v \in Workers : job'[v] = job[v] \/ job'[v] \notin {"park", "pay"}
    BY <1>1, <2>1, GotoType, ReturnType DEF Stages
  <2>3. TypeOK'
    BY <1>1, <1>2, <2>2 DEF TypeOK, Stages
  <2> QED
    BY <1>2, <2>2, <2>3, StandStill
<1> QED
  BY <1>3, <1>4

(* The claim is by the status, so the one that passes it charges first;    *)
(* or the wallet refuses.                                                  *)
LEMMA PublishInv ==
    ASSUME VideosInv, NEW w \in Workers, Publish(w)
    PROVE  VideosInv'
<1>1. TypeOK
  BY DEF VideosInv, PublicIsPaidOnce
<1>2. CASE /\ video.status \in Pending
           /\ Write("READY") /\ Charge /\ Return(w) /\ UNCHANGED refused
  <2>1. video' \in [status : Statuses, age : Ages, purged : BOOLEAN] /\ video'.status = "READY"
    BY <1>1, <1>2, WriteType DEF Statuses
  <2>2. charges' \in 0..MaxCharges /\ charges' > 0 /\ charges' <= charges + 1
    BY <1>1, <1>2, ChargeType
  <2>3. /\ job' \in [Workers -> Stages]
        /\ \A v \in Workers : job'[v] = job[v] \/ job'[v] \in {"idle", "done"}
    BY <1>1, <1>2, ReturnType
  <2>4. TypeOK'
    BY <1>1, <1>2, <2>1, <2>2, <2>3 DEF TypeOK, Publish, Stages
  <2>5. ~refused => charges = 0
    BY <1>2 DEF VideosInv, NeverRefused, Pending
  <2>6. ~refused => charges' <= 1
    BY <2>2, <2>5, VideosAssumption
  <2>7. PublicIsPaidOnce'
    BY <1>2, <2>2, <2>4, <2>6, VideosAssumption DEF PublicIsPaidOnce
  <2> QED
    BY <1>2, <2>1, <2>3, <2>7 DEF VideosInv, NeverRefused
<1>3. CASE refused' = TRUE /\ Goto(w, "park") /\ UNCHANGED <<video, charges>>
  <2>1. TypeOK'
    BY <1>1, <1>3, GotoType DEF TypeOK, Publish, Stages
  <2> QED
    BY <1>3, <2>1 DEF VideosInv, PublicIsPaidOnce, NeverRefused
<1>4. CASE Return(w) /\ UNCHANGED <<video, charges, refused>>
  <2>1. /\ job' \in [Workers -> Stages]
        /\ \A v \in Workers : job'[v] = job[v] \/ job'[v] \in {"idle", "done"}
    BY <1>1, <1>4, ReturnType
  <2>2. TypeOK'
    BY <1>1, <1>4, <2>1 DEF TypeOK, Publish, Stages
  <2> QED
    BY <1>4, <2>1, <2>2, StandStill
<1> QED
  BY <1>2, <1>3, <1>4 DEF Publish

(* Only after a refusal does a row wait for money.                         *)
LEMMA ParkInv ==
    ASSUME VideosInv, NEW w \in Workers, Park(w)
    PROVE  VideosInv'
<1>1. TypeOK
  BY DEF VideosInv, PublicIsPaidOnce
<1>2. refused /\ refused'
  BY DEF VideosInv, NeverRefused, Park
<1>3. /\ video' \in [status : Statuses, age : Ages, purged : BOOLEAN]
      /\ video'.status = "AWAITING_PAYMENT"
  BY <1>1, WriteType DEF Park, Statuses
<1>4. TypeOK'
  BY <1>1, <1>3, ReturnType DEF TypeOK, Park, Stages
<1> QED
  BY <1>2, <1>3, <1>4 DEF VideosInv, PublicIsPaidOnce, NeverRefused

(* A payment later is one after a refusal, and takes its money first.      *)
LEMMA PayInv ==
    ASSUME VideosInv, NEW w \in Workers, Pay(w)
    PROVE  VideosInv'
<1>1. TypeOK
  BY DEF VideosInv, PublicIsPaidOnce
<1>2. refused /\ refused'
  BY DEF VideosInv, NeverRefused, Pay
<1>3. job' \in [Workers -> Stages]
  BY <1>1, ReturnType DEF Pay
<1>4. CASE Write("READY") /\ Charge /\ UNCHANGED refused
  <2>1. video' \in [status : Statuses, age : Ages, purged : BOOLEAN]
    BY <1>1, <1>4, WriteType DEF Statuses
  <2>2. charges' \in 0..MaxCharges /\ charges' > 0
    BY <1>1, <1>4, ChargeType
  <2>3. TypeOK'
    BY <1>1, <1>3, <1>4, <2>1, <2>2 DEF TypeOK, Pay, Stages
  <2> QED
    BY <1>2, <2>2, <2>3 DEF VideosInv, PublicIsPaidOnce, NeverRefused
<1>5. CASE refused' = TRUE /\ UNCHANGED <<video, charges>>
  <2>1. TypeOK'
    BY <1>1, <1>3, <1>5 DEF TypeOK, Pay, Stages
  <2> QED
    BY <1>2, <1>5, <2>1 DEF VideosInv, PublicIsPaidOnce, NeverRefused
<1> QED
  BY <1>4, <1>5 DEF Pay

(* The row comes to an end, whoever brings it about.                       *)
LEMMA EndInv ==
    ASSUME VideosInv, NEW w \in Workers,
           Fail(w) \/ Remove(w) \/ (w = "expire" /\ Expire)
    PROVE  VideosInv'
<1>1. TypeOK
  BY DEF VideosInv, PublicIsPaidOnce
<1>2. \E status \in Over : Write(status)
  BY DEF Fail, Remove, Expire, Over
<1>3. /\ video' \in [status : Statuses, age : Ages, purged : BOOLEAN]
      /\ video'.status \in Over
  BY <1>1, <1>2, WriteType DEF Over, Statuses
<1>4. Return(w) \/ Goto(w, "delete")
  BY DEF Fail, Remove, Expire
<1>5. /\ job' \in [Workers -> Stages]
      /\ \A v \in Workers : job'[v] = job[v] \/ job'[v] \notin {"park", "pay"}
  BY <1>1, <1>4, GotoType, ReturnType DEF Stages
<1>6. UNCHANGED <<file, charges, refused, faults>>
  BY DEF Fail, Remove, Expire
<1>7. TypeOK'
  BY <1>1, <1>3, <1>5, <1>6 DEF TypeOK, Stages
<1> QED
  BY <1>3, <1>5, <1>6, <1>7, Closes

(* Edits and the disposal of the file leave the status as it is.           *)
LEMMA TidyInv ==
    ASSUME VideosInv, NEW w \in Workers,
           Update(w) \/ DeleteFile(w) \/ MarkPurged(w)
    PROVE  VideosInv'
<1>1. TypeOK
  BY DEF VideosInv, PublicIsPaidOnce
<1>2. /\ video' \in [status : Statuses, age : Ages, purged : BOOLEAN]
      /\ video'.status = video.status
  BY <1>1 DEF TypeOK, Update, Write, DeleteFile, MarkPurged, Ages, Stages
<1>3. Return(w) \/ Goto(w, "purged")
  BY DEF Update, DeleteFile, MarkPurged
<1>4. /\ job' \in [Workers -> Stages]
      /\ \A v \in Workers : job'[v] = job[v] \/ job'[v] \notin {"park", "pay"}
  BY <1>1, <1>3, GotoType, ReturnType DEF Stages
<1>5. /\ file' \in {"none", "encoding", "playable", "bad", "deleted"}
      /\ UNCHANGED <<charges, refused, faults>>
  BY <1>1 DEF TypeOK, Update, DeleteFile, MarkPurged, Stages
<1>6. TypeOK'
  BY <1>1, <1>2, <1>4, <1>5 DEF TypeOK, Stages
<1> QED
  BY <1>2, <1>4, <1>5, <1>6, StandStill

(* The crons look for what is left over, and a restart forgets.            *)
LEMMA CronInv ==
    ASSUME VideosInv, ExpireFind \/ PurgeFind \/ Crash
    PROVE  VideosInv'
<1>1. TypeOK
  BY DEF VideosInv, PublicIsPaidOnce
<1>2. UNCHANGED <<video, file, charges, refused>>
  BY DEF ExpireFind, PurgeFind, Crash
<1>3. {"expire", "purge"} \subseteq Workers
  BY DEF Workers, Crons
<1>4. \/ \E w \in Workers, step \in {"fail", "expire", "delete"} : Goto(w, step)
      \/ Crash
  BY <1>3 DEF ExpireFind, PurgeFind
<1>5. /\ job' \in [Workers -> Stages]
      /\ \A v \in Workers : job'[v] = job[v] \/ job'[v] \notin {"park", "pay"}
  BY <1>1, <1>4, GotoType DEF TypeOK, Crash, Stages
<1>6. faults' \in 0..MaxFaults
  BY <1>1, VideosAssumption DEF TypeOK, ExpireFind, PurgeFind, Crash, Stages
<1>7. TypeOK'
  BY <1>1, <1>2, <1>5, <1>6 DEF TypeOK, Stages
<1> QED
  BY <1>2, <1>5, <1>7, StandStill

LEMMA VideosInitInv == Init => VideosInv
<1> SUFFICES ASSUME Init PROVE VideosInv
  OBVIOUS
<1>1. video \in [status : Statuses, age : Ages, purged : BOOLEAN]
  BY DEF Init, Statuses, Ages
<1>2. charges \in 0..MaxCharges /\ faults \in 0..MaxFaults
  BY VideosAssumption DEF Init
<1>3. job \in [Workers -> Stages]
  BY DEF Init, Stages
<1>4. TypeOK
  BY <1>1, <1>2, <1>3 DEF Init, TypeOK, Stages
<1> QED
  BY <1>4 DEF VideosInv, PublicIsPaidOnce, NeverRefused, Init

LEMMA VideosNextInv == VideosInv /\ [Next]_vars => VideosInv'
<1> SUFFICES ASSUME VideosInv, [Next]_vars PROVE VideosInv'
  OBVIOUS
<1>1. CASE CreateUploadTicket
  BY <1>1, TicketInv
<1>2. CASE Upload \/ TimePasses
  BY <1>2, WorldInv
<1>3. ASSUME NEW w \in Workers,
             FinalizeFind(w) \/ PayFind(w) \/ RemoveFind(w) \/ Update(w)
      PROVE  VideosInv'
  BY <1>3, FindInv, TidyInv
<1>4. ASSUME NEW w \in Workers, Step(w)
      PROVE  VideosInv'
  BY <1>4, FindInv, PublishInv, ParkInv, PayInv, EndInv, TidyInv DEF Step
<1>5. CASE ExpireFind \/ PurgeFind \/ Crash
  BY <1>5, CronInv
<1>6. CASE UNCHANGED vars
  BY <1>6 DEF vars, VideosInv, PublicIsPaidOnce, NeverRefused, TypeOK, Stages
<1> QED
  BY <1>1, <1>2, <1>3, <1>4, <1>5, <1>6 DEF Next

-----------------------------------------------------------------------------
(* Nothing becomes public without being charged (videos.constants.ts:5),   *)
(* through any number of webhooks, resyncs, payments, edits and restarts   *)
(* that overlap; and while the wallet never refuses, once.                 *)
THEOREM PublicIsPaid == Spec => []PublicIsPaidOnce
<1>1. VideosInv => PublicIsPaidOnce
  BY DEF VideosInv
<1> QED
  BY VideosInitInv, VideosNextInv, <1>1, PTL DEF Spec
=============================================================================
