-------------------------------- MODULE Reels --------------------------------
(***************************************************************************)
(* What people do to a published reel: likes and views                     *)
(* (VideoEngagementService), the comment thread (VideoCommentsService),    *)
(* the numbers pushed to those watching (VideoLiveGateway), and the nightly *)
(* job that counts everything again (reconcileCounters).                   *)
(*                                                                         *)
(* Every counter is moved by the statement, or in the transaction, that    *)
(* writes its row.  Production has the foreign keys of sql/2026-10-23-     *)
(* videos.sql: replies and likes go with their comment, and a reply to a   *)
(* comment that is gone is refused.                                        *)
(***************************************************************************)
EXTENDS Requests, Integers

CONSTANTS Clips,      \* published reels
          AuthorOf, Admins,
          Devices,    \* guests, by the id their app generated
          MaxReplies  \* bound: comments ever written under the reels

VARIABLES clipLikes,    \* video_likes: <<clip, user>>
          clipViews,    \* video_views: <<clip, viewer key>>
          clipThread,   \* video_comments: id -> row
          clipWritten,  \* ids given
          clipHearts,   \* video_comment_likes: <<comment, user>>
          counters,     \* videos.like_count, view_count, comment_count
          shown,        \* the last number of each kind sent to the clip's room
          clipCalls,    \* the requests in flight
          night,        \* reconcileCounters: what its statement counted
          clipMixed,    \* ghost: some requests have overlapped, or a comment
                        \* went by a moderator's verdict
          nightRaced    \* ghost: the job stored over a number that had moved

ASSUME ReelsBounds == MaxReplies \in Nat /\ None \notin Nat

clipVars == <<clipLikes, clipViews, clipThread, clipWritten, clipHearts,
              counters, shown, clipCalls, night, clipMixed, nightRaced>>

rows == <<clipLikes, clipViews, clipThread, clipWritten, clipHearts>>

Stats(l, v, c) == [likes |-> l, views |-> v, comments |-> c]
Answers(c) == {k \in DOMAIN clipThread : clipThread[k].parent = c}
OfClip(table, v) == {row \in table : row[1] = v}
CommentsOf(v) == {k \in DOMAIN clipThread : clipThread[k].clip = v}

(* What the rows say. *)
Counted(v) == Stats(Cardinality(OfClip(clipLikes, v)),
                    Cardinality(OfClip(clipViews, v)),
                    Cardinality(CommentsOf(v)))

ReelsInit ==
    /\ clipLikes = {} /\ clipViews = {} /\ clipHearts = {}
    /\ clipThread = [k \in {} |-> None]
    /\ clipWritten = 0
    /\ counters = [v \in Clips |-> Stats(0, 0, 0)]
    /\ shown = [v \in Clips |-> Stats(0, 0, 0)]
    /\ clipCalls = [r \in Requests |-> Idle]
    /\ night = None
    /\ clipMixed = FALSE /\ nightRaced = FALSE

Continues(r, call) == clipCalls' = [clipCalls EXCEPT ![r] = call]
ClipGhosts == UNCHANGED <<night, clipMixed, nightRaced>>

Enters(r, call) ==
    /\ clipCalls[r] = Idle
    /\ Continues(r, call)
    /\ clipMixed' = (clipMixed \/ ~Alone(clipCalls, r))
    /\ UNCHANGED <<rows, counters, shown, night, nightRaced>>

(***************************************************************************)
(* setLike on a reel: one statement writes the row and moves the counter   *)
(* by what it wrote, and the count it returns is broadcast                 *)
(***************************************************************************)
AskLike(r, v, u, liked) ==
    Enters(r, [at |-> "like", clip |-> v, user |-> u, liked |-> liked])

LikeClip(r) ==
    LET call == clipCalls[r]
        row == <<call.clip, call.user>>
        n == counters[call.clip].likes
        moved == IF call.liked THEN (IF row \in clipLikes THEN n ELSE n + 1)
                 ELSE IF row \in clipLikes THEN Monus(n, 1) ELSE Monus(n, 0) IN
    /\ call.at = "like"
    /\ clipLikes' = IF call.liked THEN clipLikes \cup {row}
                                  ELSE clipLikes \ {row}
    /\ counters' = [counters EXCEPT ![call.clip].likes = moved]
    /\ Continues(r, [at |-> "sendLikes", clip |-> call.clip, n |-> moved])
    /\ ClipGhosts
    /\ UNCHANGED <<clipViews, clipThread, clipWritten, clipHearts, shown>>

SendLikes(r) ==
    LET call == clipCalls[r] IN
    /\ call.at = "sendLikes"
    /\ shown' = [shown EXCEPT ![call.clip].likes = call.n]
    /\ Continues(r, Idle)
    /\ ClipGhosts
    /\ UNCHANGED <<rows, counters>>

(***************************************************************************)
(* recordViews: one statement for a batch, in which a reel watched too     *)
(* briefly is left out and a looped one is named once                      *)
(***************************************************************************)
ViewerKeys == {<<"u", u>> : u \in Users} \cup {<<"d", d>> : d \in Devices}

FaultyFresh(batch, key) == batch
Fresh(batch, key) == {v \in batch : <<v, key>> \notin clipViews}

RecordViews(r, batch, key) ==
    LET fresh == Fresh(batch, key) IN
    /\ clipCalls[r] = Idle
    /\ clipViews' = clipViews \cup {<<v, key>> : v \in batch}
    /\ counters' = [v \in Clips |->
                      IF v \in fresh THEN [counters[v] EXCEPT !.views = @ + 1]
                                     ELSE counters[v]]
    /\ Continues(r, IF fresh = {} THEN Idle
                    ELSE [at |-> "readViews", batch |-> batch])
    /\ clipMixed' = (clipMixed \/ ~Alone(clipCalls, r))
    /\ UNCHANGED <<clipLikes, clipThread, clipWritten, clipHearts, shown,
                   night, nightRaced>>

(* The counts are read again and sent as soon as they are read. *)
SendViews(r) ==
    LET call == clipCalls[r] IN
    /\ call.at = "readViews"
    /\ shown' = [v \in Clips |->
                   IF v \in call.batch
                   THEN [shown[v] EXCEPT !.views = counters[v].views]
                   ELSE shown[v]]
    /\ Continues(r, Idle)
    /\ ClipGhosts
    /\ UNCHANGED <<rows, counters>>

(***************************************************************************)
(* Comments: create, remove, setLike                                       *)
(***************************************************************************)
AskReply(r, v, u, p) ==
    /\ p = None \/ (p \in CommentsOf(v) /\ clipThread[p].parent = None)
    /\ Enters(r, [at |-> "write", clip |-> v, user |-> u, parent |-> p])

MoveReplies(table, c, d) ==
    [k \in DOMAIN table |->
        IF k = c THEN [table[k] EXCEPT !.replies = @ + d] ELSE table[k]]

(* The row and both counters in one transaction; the foreign key refuses a *)
(* parent that is gone by now.                                             *)
WriteReply(r) ==
    LET call == clipCalls[r] IN
    /\ call.at = "write"
    /\ clipWritten < MaxReplies
    /\ IF call.parent \in DOMAIN clipThread \cup {None}
       THEN /\ clipWritten' = clipWritten + 1
            /\ clipThread' =
                 With(MoveReplies(clipThread, call.parent, 1), clipWritten + 1,
                      [clip |-> call.clip, author |-> call.user,
                       parent |-> call.parent, likes |-> 0, replies |-> 0])
            /\ counters' = [counters EXCEPT ![call.clip].comments = @ + 1]
            /\ Continues(r, [at |-> "sendCount", clip |-> call.clip])
       ELSE /\ Continues(r, Idle)
            /\ UNCHANGED <<clipWritten, clipThread, counters>>
    /\ ClipGhosts
    /\ UNCHANGED <<clipLikes, clipViews, clipHearts, shown>>

(* After a comment was written or removed, the count is read and sent. *)
SendCount(r) ==
    LET call == clipCalls[r] IN
    /\ call.at = "sendCount"
    /\ shown' = [shown EXCEPT ![call.clip].comments = counters[call.clip].comments]
    /\ Continues(r, Idle)
    /\ ClipGhosts
    /\ UNCHANGED <<rows, counters>>

AskRemoval(r, c, u) ==
    /\ c \in DOMAIN clipThread
    /\ u \in {clipThread[c].author, AuthorOf[clipThread[c].clip]} \cup Admins
    /\ Enters(r, [at |-> "countReplies", comment |-> c,
                  clip |-> clipThread[c].clip, parent |-> clipThread[c].parent])

(* The first statement of the transaction counts what the deletion will    *)
(* take with it...                                                         *)
CountReplies(r) ==
    LET call == clipCalls[r] IN
    /\ call.at = "countReplies"
    /\ Continues(r, [at |-> "remove", comment |-> call.comment,
                     clip |-> call.clip, parent |-> call.parent,
                     n |-> IF call.parent = None
                           THEN Cardinality(Answers(call.comment)) ELSE 0])
    /\ ClipGhosts
    /\ UNCHANGED <<rows, counters, shown>>

(* ...and the others delete and decrement, whether or not the row was      *)
(* still there.                                                            *)
RemoveReply(r) ==
    LET call == clipCalls[r]
        gone == {call.comment} \cup Answers(call.comment) IN
    /\ call.at = "remove"
    /\ clipThread' = MoveReplies(Without(clipThread, gone), call.parent, -1)
    /\ clipHearts' = {h \in clipHearts : h[1] \notin gone}
    /\ counters' = [counters EXCEPT ![call.clip].comments = @ - (1 + call.n)]
    /\ Continues(r, [at |-> "sendCount", clip |-> call.clip])
    /\ ClipGhosts
    /\ UNCHANGED <<clipLikes, clipViews, clipWritten, shown>>

(* setLike on a comment: found, then one statement. *)
AskReplyHeart(r, c, u, liked) ==
    /\ c \in DOMAIN clipThread
    /\ Enters(r, [at |-> "heart", comment |-> c, user |-> u, liked |-> liked])

LikeReply(r) ==
    LET call == clipCalls[r]
        row == <<call.comment, call.user>>
        live == call.comment \in DOMAIN clipThread IN
    /\ call.at = "heart"
    /\ clipHearts' = IF call.liked /\ live THEN clipHearts \cup {row}
                                           ELSE clipHearts \ {row}
    /\ clipThread' = IF clipHearts' = clipHearts \/ ~live THEN clipThread
                     ELSE [clipThread EXCEPT ![call.comment].likes =
                              IF call.liked THEN @ + 1 ELSE Monus(@, 1)]
    /\ Continues(r, Idle)
    /\ ClipGhosts
    /\ UNCHANGED <<clipLikes, clipViews, clipWritten, counters, shown>>

(* resolve of an upheld complaint (Flags) deletes the comment by itself,    *)
(* and moves no counter.                                                   *)
CondemnReply(c) ==
    LET gone == {c} \cup Answers(c) IN
    /\ c \in DOMAIN clipThread
    /\ clipThread' = Without(clipThread, gone)
    /\ clipHearts' = {h \in clipHearts : h[1] \notin gone}
    /\ clipMixed' = TRUE
    /\ UNCHANGED <<clipLikes, clipViews, clipWritten, counters, shown,
                   clipCalls, night, nightRaced>>

(***************************************************************************)
(* reconcileCounters, one UPDATE for every reel: it counts on the snapshot *)
(* it starts with and picks the rows that disagree...                      *)
(***************************************************************************)
NightCount ==
    /\ night = None
    /\ \E v \in Clips : counters[v] # Counted(v)
    /\ night' = [v \in {w \in Clips : counters[w] # Counted(w)} |->
                   [counted |-> Counted(v), had |-> counters[v]]]
    /\ UNCHANGED <<rows, counters, shown, clipCalls, clipMixed, nightRaced>>

(* ...and stores what it counted in each of them that still disagrees with *)
(* that when its lock is granted.                                          *)
FaultyNightStore ==
    /\ night # None
    /\ counters' = [v \in Clips |-> IF v \in DOMAIN night
                       THEN [night[v].counted EXCEPT !.comments = counters[v].comments]
                       ELSE counters[v]]
    /\ nightRaced' = (nightRaced \/ \E v \in DOMAIN night :
                                       counters[v] # night[v].had)
    /\ night' = None
    /\ UNCHANGED <<rows, shown, clipCalls, clipMixed>>

NightStore ==
    /\ night # None
    /\ counters' = [v \in Clips |-> IF v \in DOMAIN night
                                    THEN night[v].counted ELSE counters[v]]
    /\ nightRaced' = (nightRaced \/ \E v \in DOMAIN night :
                                       counters[v] # night[v].had)
    /\ night' = None
    /\ UNCHANGED <<rows, shown, clipCalls, clipMixed>>

Serve(r) ==
    \/ LikeClip(r) \/ SendLikes(r) \/ SendViews(r)
    \/ WriteReply(r) \/ SendCount(r) \/ CountReplies(r) \/ RemoveReply(r)
    \/ LikeReply(r)

ReelsNext ==
    \/ \E r \in Requests :
          \/ Serve(r)
          \/ \E v \in Clips, u \in Users, liked \in BOOLEAN : AskLike(r, v, u, liked)
          \/ \E batch \in SUBSET Clips, key \in ViewerKeys : RecordViews(r, batch, key)
          \/ \E v \in Clips, u \in Users, p \in DOMAIN clipThread \cup {None} :
                AskReply(r, v, u, p)
          \/ \E c \in DOMAIN clipThread, u \in Users : AskRemoval(r, c, u)
          \/ \E c \in DOMAIN clipThread, u \in Users, liked \in BOOLEAN :
                AskReplyHeart(r, c, u, liked)
    \/ \E c \in DOMAIN clipThread : CondemnReply(c)
    \/ NightCount
    \/ NightStore

(* The job runs every night and its statement ends; nothing is assumed of  *)
(* the people.                                                             *)
ReelsFairness == WF_clipVars(NightCount) /\ WF_clipVars(NightStore)

ReelsSpec == ReelsInit /\ [][ReelsNext]_clipVars /\ ReelsFairness

ReelsTypeOK ==
    /\ clipLikes \subseteq Clips \X Users
    /\ clipViews \subseteq Clips \X ViewerKeys
    /\ clipWritten \in 0 .. MaxReplies
    /\ DOMAIN clipThread \subseteq 1 .. clipWritten
    /\ \A v \in Clips : counters[v] \in [likes : Nat, views : Nat, comments : Int]
    /\ night = None \/ DOMAIN night \subseteq Clips

(* A reel's numbers are its rows.  Likes and views move with their rows in *)
(* one statement, so they agree at every moment, until the nightly job has *)
(* stored a count that a like had overtaken; the comments agree too if no  *)
(* two requests ever overlapped and no verdict took a comment, and then    *)
(* those watching are shown the same numbers once nothing is in flight;    *)
(* every reply has its root.                                               *)
(* (video-engagement.service.ts:53-55, video-comments.service.ts:124-129)  *)
ReelNumbersAreRows ==
    \A v \in Clips :
        /\ ~nightRaced => /\ counters[v].likes = Counted(v).likes
                          /\ counters[v].views = Counted(v).views
        /\ ~clipMixed => counters[v].comments = Counted(v).comments
        /\ ~clipMixed /\ Quiet(clipCalls) => shown[v] = counters[v]
        /\ \A k \in DOMAIN clipThread :
              clipThread[k].parent \in DOMAIN clipThread \cup {None}

(* Whatever overlapped before, once people leave the reels alone the       *)
(* nightly job brings every counter back to its rows, and it stays there.  *)
(* (videos.maintenance.service.ts:151-185)                                 *)
CountersConverge ==
    <>[]Quiet(clipCalls) => <>[](\A v \in Clips : counters[v] = Counted(v))
=============================================================================
