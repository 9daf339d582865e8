------------------------------ MODULE Comments ------------------------------
(***************************************************************************)
(* The thread under a listing (CommentsService): comments, replies one     *)
(* level deep, their likes, and the three counters kept beside the rows:   *)
(* the listing's comment_count and the like_count of a comment are counted *)
(* again after each change, its reply_count is moved by one.               *)
(*                                                                         *)
(* Every await is a step.  A recount is one UPDATE with a subquery: it     *)
(* counts on the snapshot its statement starts with and stores when it has *)
(* the row lock, so it is two steps.  listing_comments has no foreign key. *)
(***************************************************************************)
EXTENDS Requests, Integers

CONSTANTS Listings, OwnerOf, Moderators,
          Likers,       \* bound: those among the people who like comments
          MaxComments   \* bound: comments ever written

ASSUME CommentsAssumption ==
    /\ MaxComments \in Nat /\ None \notin 1 .. MaxComments
    /\ IsFiniteSet(Likers)

VARIABLES thread,        \* listing_comments: id -> row
          written,       \* how many ids have been given
          hearts,        \* listing_comment_likes: <<comment, user>>
          commentCount,  \* listings.comment_count
          commentCalls,  \* the requests in flight
          commentsAlone, \* ghost: listing -> the last post or removal there
                         \* ran alone so far
          commentsMixed  \* ghost: some requests have overlapped

commentsVars == <<thread, written, hearts, commentCount, commentCalls,
                  commentsAlone, commentsMixed>>

CommentRow(l, u, p) ==
    [listing |-> l, author |-> u, parent |-> p, likes |-> 0, replies |-> 0]

RepliesOf(c) == {k \in DOMAIN thread : thread[k].parent = c}
Roots(l) == {k \in DOMAIN thread :
                thread[k].listing = l /\ thread[k].parent = None}
HeartsOf(c) == {h \in hearts : h[1] = c}

CommentsInit ==
    /\ thread = [k \in {} |-> None]
    /\ written = 0
    /\ hearts = {}
    /\ commentCount = [l \in Listings |-> 0]
    /\ commentCalls = [r \in Requests |-> Idle]
    /\ commentsAlone = [l \in Listings |-> TRUE]
    /\ commentsMixed = FALSE

(* Request r goes on to its next await. *)
Goes(r, call) == commentCalls' = [commentCalls EXCEPT ![r] = call]

(* A request arrives; the ghost notes whether another is being served. *)
Arrives(r, call) ==
    /\ commentCalls[r] = Idle
    /\ Goes(r, call)
    /\ commentsMixed' = (commentsMixed \/ ~Alone(commentCalls, r))
    /\ UNCHANGED <<thread, written, hearts, commentCount>>

(* A post or a removal under listing l that has not stored its recount. *)
IsMoving(call, l) ==
    /\ call.at \in {"insert", "replies", "delete", "count", "store"}
    /\ call.listing = l

(* The ghost of listing l notes whether another is under way there. *)
Moves(l) ==
    commentsAlone' = [commentsAlone EXCEPT ![l] =
                        ~ \E q \in Requests : IsMoving(commentCalls[q], l)]

(* A request goes on; the ghosts do not change. *)
Ghosts == UNCHANGED <<commentsAlone, commentsMixed>>

(***************************************************************************)
(* create                                                                  *)
(***************************************************************************)

(* The parent is read and refused unless it is a root of the same listing; *)
(* an empty comment is refused before anything is read.                    *)
MayReplyTo(l, p) ==
    p = None \/ (p \in DOMAIN thread /\ thread[p].listing = l
                                     /\ thread[p].parent = None)

AskPost(r, l, u, p) ==
    /\ MayReplyTo(l, p)
    /\ Arrives(r, [at |-> "insert", listing |-> l, user |-> u, parent |-> p])
    /\ Moves(l)

(* One more (or one less) reply of comment c, if the row is there. *)
CountReply(table, c, d) ==
    [k \in DOMAIN table |->
        IF k = c THEN [table[k] EXCEPT !.replies = @ + d] ELSE table[k]]

(* The transaction of create: the row, and the parent's reply_count. *)
InsertComment(r) ==
    LET call == commentCalls[r] IN
    /\ call.at = "insert"
    /\ written < MaxComments
    /\ written' = written + 1
    /\ thread' = With(CountReply(thread, call.parent, 1), written + 1,
                      CommentRow(call.listing, call.user, call.parent))
    /\ Goes(r, [at |-> "count", listing |-> call.listing])
    /\ Ghosts
    /\ UNCHANGED <<hearts, commentCount>>

(***************************************************************************)
(* recount: what the statement counts, and what it stores                  *)
(***************************************************************************)
CountRoots(r) ==
    LET call == commentCalls[r] IN
    /\ call.at = "count"
    /\ Goes(r, [at |-> "store", listing |-> call.listing,
                n |-> Cardinality(Roots(call.listing))])
    /\ Ghosts
    /\ UNCHANGED <<thread, written, hearts, commentCount>>

StoreCount(r) ==
    LET call == commentCalls[r] IN
    /\ call.at = "store"
    /\ commentCount' = [commentCount EXCEPT ![call.listing] = call.n]
    /\ Goes(r, Idle)
    /\ Ghosts
    /\ UNCHANGED <<thread, written, hearts>>

(***************************************************************************)
(* remove, adminRemove                                                     *)
(***************************************************************************)
MayRemove(u, c) ==
    u \in {thread[c].author, OwnerOf[thread[c].listing]} \cup Moderators

AskRemove(r, c, u) ==
    /\ c \in DOMAIN thread
    /\ MayRemove(u, c)
    /\ Arrives(r, [at |-> "replies", comment |-> c,
                   listing |-> thread[c].listing, parent |-> thread[c].parent])
    /\ Moves(thread[c].listing)

(* deleteWithReplies finds the replies of a root in its first statement... *)
FindReplies(r) ==
    LET call == commentCalls[r] IN
    /\ call.at = "replies"
    /\ Goes(r, [at |-> "delete", listing |-> call.listing,
                parent |-> call.parent,
                ids |-> {call.comment} \cup
                        (IF call.parent = None THEN RepliesOf(call.comment)
                                               ELSE {})])
    /\ Ghosts
    /\ UNCHANGED <<thread, written, hearts, commentCount>>

(* A slip: the likes of what is deleted are left behind. *)
FaultyDeleteComments(r) ==
    LET call == commentCalls[r] IN
    /\ call.at = "delete"
    /\ thread' = CountReply(Without(thread, call.ids), call.parent, -1)
    /\ Goes(r, [at |-> "count", listing |-> call.listing])
    /\ Ghosts
    /\ UNCHANGED <<written, hearts, commentCount>>

(* ...and deletes them with their likes in those that follow; the parent   *)
(* of a reply loses one whether or not this request deleted the reply.     *)
DeleteComments(r) ==
    LET call == commentCalls[r] IN
    /\ call.at = "delete"
    /\ thread' = CountReply(Without(thread, call.ids), call.parent, -1)
    /\ hearts' = {h \in hearts : h[1] \notin call.ids}
    /\ Goes(r, [at |-> "count", listing |-> call.listing])
    /\ Ghosts
    /\ UNCHANGED <<written, commentCount>>

(***************************************************************************)
(* setLike                                                                 *)
(***************************************************************************)
AskHeart(r, c, u, liked) ==
    /\ c \in DOMAIN thread
    /\ Arrives(r, [at |-> "heart", comment |-> c, user |-> u, liked |-> liked])
    /\ UNCHANGED commentsAlone

(* The row, in a transaction; nothing is counted unless it changed. *)
WriteHeart(r) ==
    LET call == commentCalls[r]
        row == <<call.comment, call.user>> IN
    /\ call.at = "heart"
    /\ hearts' = IF call.liked THEN hearts \cup {row} ELSE hearts \ {row}
    /\ Goes(r, IF hearts' # hearts
               THEN [at |-> "likes", comment |-> call.comment] ELSE Idle)
    /\ Ghosts
    /\ UNCHANGED <<thread, written, commentCount>>

CountHearts(r) ==
    LET call == commentCalls[r] IN
    /\ call.at = "likes"
    /\ Goes(r, [at |-> "liked", comment |-> call.comment,
                n |-> Cardinality(HeartsOf(call.comment))])
    /\ Ghosts
    /\ UNCHANGED <<thread, written, hearts, commentCount>>

StoreHearts(r) ==
    LET call == commentCalls[r] IN
    /\ call.at = "liked"
    /\ thread' = [k \in DOMAIN thread |->
                    IF k = call.comment THEN [thread[k] EXCEPT !.likes = call.n]
                                        ELSE thread[k]]
    /\ Goes(r, Idle)
    /\ Ghosts
    /\ UNCHANGED <<written, hearts, commentCount>>

CommentsNext ==
    \E r \in Requests :
        \/ \E l \in Listings, u \in Users, p \in DOMAIN thread \cup {None} :
              AskPost(r, l, u, p)
        \/ InsertComment(r)
        \/ CountRoots(r)
        \/ StoreCount(r)
        \/ \E c \in DOMAIN thread, u \in Users : AskRemove(r, c, u)
        \/ FindReplies(r)
        \/ DeleteComments(r)
        \/ \E c \in DOMAIN thread, u \in Likers, liked \in BOOLEAN :
              AskHeart(r, c, u, liked)
        \/ WriteHeart(r)
        \/ CountHearts(r)
        \/ StoreHearts(r)

CommentsSpec == CommentsInit /\ [][CommentsNext]_commentsVars

(***************************************************************************)
(* What a reader is shown                                                  *)
(***************************************************************************)

(* The page of list(): the roots newest first, cut by offset and limit,    *)
(* each with its oldest replies, at most Preview of them.                  *)
Newer(l, k) == Cardinality({j \in Roots(l) : j > k})

Page(l, limit, offset) ==
    {k \in Roots(l) : offset <= Newer(l, k) /\ Newer(l, k) < offset + limit}

(* The page of listReplies(), oldest first; list() shows the first of it.  *)
Older(c, k) == Cardinality({j \in RepliesOf(c) : j < k})

ReplyPage(c, limit, offset) ==
    {k \in RepliesOf(c) : offset <= Older(c, k) /\ Older(c, k) < offset + limit}

(* myLikedComments: the total it announces, and the comments it can find.  *)
LikesOf(u) == {h \in hearts : h[2] = u}
LikedComments(u) == {h[1] : h \in LikesOf(u)} \cap DOMAIN thread

CommentsTypeOK ==
    /\ written \in 0 .. MaxComments
    /\ DOMAIN thread \subseteq 1 .. written
    /\ \A k \in DOMAIN thread :
          thread[k] \in [listing : Listings, author : Users,
                         parent : 1 .. MaxComments \cup {None},
                         likes : Nat, replies : Int]
    /\ hearts \subseteq (1 .. MaxComments) \X Likers
    /\ commentCount \in [Listings -> Nat]

(* The counters a reader sees are what the pages hold.  Once no request is *)
(* being served, the number on the listing's card is the number of roots   *)
(* its pages hold, if the last post or removal there had the thread for    *)
(* itself, whatever overlapped before it: recounting heals.  If no two     *)
(* requests ever overlapped, the likes of each comment are its rows, its   *)
(* reply count is what the preview and the page after it show, every reply *)
(* has its root, and nobody's list of likes announces more than it can     *)
(* show.                                                                   *)
(* (comments.service.ts:65-135, :378-416, :444-469, :565-615)              *)
CardMatchesThread ==
    Quiet(commentCalls) =>
        /\ \A l \in Listings : commentsAlone[l] =>
              commentCount[l] = Cardinality(Page(l, 1, 0) \cup
                                            Page(l, MaxComments, 1))
        /\ ~commentsMixed =>
              /\ \A k \in DOMAIN thread :
                    /\ thread[k].likes = Cardinality(HeartsOf(k))
                    /\ thread[k].replies =
                         Cardinality(ReplyPage(k, 1, 0) \cup
                                     ReplyPage(k, MaxComments, 1))
                    /\ thread[k].parent \in DOMAIN thread \cup {None}
              /\ \A u \in Likers :
                    Cardinality(LikesOf(u)) = Cardinality(LikedComments(u))
=============================================================================
