--------------------------- MODULE CommunityProofs ---------------------------
(***************************************************************************)
(* What people do around a listing and to each other, proved for any       *)
(* people, listings, reels and requests: the numbers on the cards and      *)
(* beside the names, the stars, the complaints and the pushes.  Each part  *)
(* has its inductive invariant; the last section puts the parts together.  *)
(***************************************************************************)
EXTENDS MCCommunity, FiniteSetTheorems, SequenceTheorems, TLAPS

(***************************************************************************)
(* The thread under a listing (Comments)                                   *)
(***************************************************************************)
CommentIds == 1 .. MaxComments
CommentRows == [listing : Listings, author : Users,
                parent : CommentIds \cup {None}, likes : Nat, replies : Int]

(* What a request may be at when w comments have been written.             *)
CommentCallsUpTo(w) ==
    {Idle}
    \cup [at : {"insert"}, listing : Listings, user : Users,
          parent : CommentIds \cup {None}]
    \cup [at : {"count"}, listing : Listings]
    \cup [at : {"store"}, listing : Listings, n : Nat]
    \cup [at : {"replies"}, comment : 1 .. w, listing : Listings,
          parent : CommentIds \cup {None}]
    \cup [at : {"delete"}, listing : Listings, parent : CommentIds \cup {None},
          ids : SUBSET (1 .. w)]
    \cup [at : {"heart"}, comment : 1 .. w, user : Likers, liked : BOOLEAN]
    \cup [at : {"likes"}, comment : 1 .. w]
    \cup [at : {"liked"}, comment : 1 .. w, n : Nat]

ThreadTypes ==
    /\ written \in 0 .. MaxComments
    /\ DOMAIN thread \subseteq 1 .. written
    /\ \A k \in DOMAIN thread : thread[k] \in CommentRows
    /\ hearts \subseteq CommentIds \X Likers
    /\ commentCount \in [Listings -> Nat]
    /\ commentCalls \in [Requests -> CommentCallsUpTo(written)]
    /\ commentsAlone \in [Listings -> BOOLEAN]
    /\ commentsMixed \in BOOLEAN

(* The root a removal deletes is of the listing it counts again.           *)
RootOfListing(c) ==
    /\ c.at = "replies" /\ c.comment \in DOMAIN thread =>
         thread[c.comment].listing = c.listing
    /\ c.at = "delete" =>
         \A k \in c.ids \cap DOMAIN thread :
            thread[k].parent = None => thread[k].listing = c.listing

(* While the last post or removal under l is alone there, the card is      *)
(* right unless it is under way, and what it has counted is what stands.   *)
CardRight(l) ==
    commentsAlone[l] =>
      /\ \A q, s \in Requests :
            IsMoving(commentCalls[q], l) /\ IsMoving(commentCalls[s], l) => q = s
      /\ (\A q \in Requests : ~ IsMoving(commentCalls[q], l)) =>
            commentCount[l] = Cardinality(Roots(l))
      /\ \A q \in Requests :
            commentCalls[q].at = "store" /\ commentCalls[q].listing = l =>
              commentCalls[q].n = Cardinality(Roots(l))

-----------------------------------------------------------------------------
(* Rows and sets of comments.                                              *)

LEMMA RowReplies ==
    ASSUME NEW row \in CommentRows, NEW d \in Int, NEW n,
           n = [row EXCEPT !.replies = @ + d]
    PROVE  /\ n \in CommentRows /\ n.listing = row.listing
           /\ n.parent = row.parent /\ n.likes = row.likes /\ n.author = row.author
           /\ n.replies = row.replies + d
<1>1. PICK l \in Listings, a \in Users, p \in CommentIds \cup {None}, k \in Nat, s \in Int :
        row = [listing |-> l, author |-> a, parent |-> p, likes |-> k, replies |-> s]
  BY DEF CommentRows
<1>2. n = [listing |-> l, author |-> a, parent |-> p, likes |-> k, replies |-> s + d]
  BY <1>1
<1> QED
  BY <1>1, <1>2 DEF CommentRows

LEMMA RowLikes ==
    ASSUME NEW row \in CommentRows, NEW d \in Nat, NEW n,
           n = [row EXCEPT !.likes = d]
    PROVE  /\ n \in CommentRows /\ n.listing = row.listing
           /\ n.parent = row.parent /\ n.replies = row.replies /\ n.author = row.author
           /\ n.likes = d
<1>1. PICK l \in Listings, a \in Users, p \in CommentIds \cup {None}, k \in Nat, s \in Int :
        row = [listing |-> l, author |-> a, parent |-> p, likes |-> k, replies |-> s]
  BY DEF CommentRows
<1>2. n = [listing |-> l, author |-> a, parent |-> p, likes |-> d, replies |-> s]
  BY <1>1
<1> QED
  BY <1>1, <1>2 DEF CommentRows

LEMMA CommentsFinite ==
    ASSUME ThreadTypes
    PROVE  /\ IsFiniteSet(hearts)
           /\ \A S : S \subseteq DOMAIN thread =>
                 /\ IsFiniteSet(S) /\ Cardinality(S) \in Nat
                 /\ Cardinality(S) <= MaxComments
<1>1. IsFiniteSet(CommentIds) /\ Cardinality(CommentIds) = MaxComments
  BY FS_Interval, CommentsAssumption DEF CommentIds
<1>2. DOMAIN thread \subseteq CommentIds
  BY CommentsAssumption DEF ThreadTypes, CommentIds
<1>3. ASSUME NEW S, S \subseteq DOMAIN thread
      PROVE  /\ IsFiniteSet(S) /\ Cardinality(S) \in Nat
             /\ Cardinality(S) <= MaxComments
  <2>1. S \subseteq CommentIds
    BY <1>2, <1>3
  <2> QED
    BY <1>1, <2>1, FS_Subset, FS_CardinalityType
<1>4. IsFiniteSet(CommentIds \X Likers)
  BY <1>1, CommentsAssumption, FS_Product
<1>5. IsFiniteSet(hearts)
  BY <1>4, FS_Subset DEF ThreadTypes
<1> QED
  BY <1>3, <1>5

(* A call's request goes on: what the others await does not change.        *)
LEMMA CommentCallGoes ==
    ASSUME ThreadTypes, NEW r \in Requests, NEW c, Goes(r, c)
    PROVE  /\ commentCalls'[r] = c
           /\ \A q \in Requests \ {r} : commentCalls'[q] = commentCalls[q]
           /\ c \in CommentCallsUpTo(written) =>
                 commentCalls' \in [Requests -> CommentCallsUpTo(written)]
BY DEF ThreadTypes, Goes

LEMMA CallsGrow ==
    ASSUME NEW w \in Nat, NEW c \in CommentCallsUpTo(w)
    PROVE  c \in CommentCallsUpTo(w + 1)
<1>1. 1 .. w \subseteq 1 .. w + 1
  OBVIOUS
<1>2. SUBSET (1 .. w) \subseteq SUBSET (1 .. w + 1)
  BY <1>1
<1> QED
  BY <1>1, <1>2 DEF CommentCallsUpTo

LEMMA CallKinds ==
    ASSUME ThreadTypes, NEW r \in Requests, NEW c, c = commentCalls[r]
    PROVE  /\ c.at = "insert" => /\ c.listing \in Listings /\ c.user \in Users
                                 /\ c.parent \in CommentIds \cup {None}
           /\ c.at = "count" => c.listing \in Listings
           /\ c.at = "store" => c.listing \in Listings /\ c.n \in Nat
           /\ c.at = "replies" => /\ c.listing \in Listings /\ c.comment \in 1 .. written
                                  /\ c.parent \in CommentIds \cup {None}
           /\ c.at = "delete" => /\ c.listing \in Listings /\ c.ids \subseteq 1 .. written
                                 /\ c.parent \in CommentIds \cup {None}
           /\ c.at = "heart" => /\ c.comment \in 1 .. written /\ c.user \in Likers
                                /\ c.liked \in BOOLEAN
           /\ c.at = "likes" => c.comment \in 1 .. written
           /\ c.at = "liked" => c.comment \in 1 .. written /\ c.n \in Nat
<1>1. c \in CommentCallsUpTo(written)
  BY DEF ThreadTypes
<1>2. CASE c \in {Idle} \cup [at : {"insert"}, listing : Listings, user : Users,
                            parent : CommentIds \cup {None}]
                 \cup [at : {"count"}, listing : Listings]
                 \cup [at : {"store"}, listing : Listings, n : Nat]
  BY <1>2 DEF Idle
<1>3. CASE c \in [at : {"replies"}, comment : 1 .. written, listing : Listings,
                 parent : CommentIds \cup {None}]
  BY <1>3
<1>4. CASE c \in [at : {"delete"}, listing : Listings,
                 parent : CommentIds \cup {None}, ids : SUBSET (1 .. written)]
  BY <1>4
<1>5. CASE c \in [at : {"heart"}, comment : 1 .. written, user : Likers, liked : BOOLEAN]
  BY <1>5
<1>6. CASE c \in [at : {"likes"}, comment : 1 .. written]
                 \cup [at : {"liked"}, comment : 1 .. written, n : Nat]
  BY <1>6
<1> QED
  BY <1>1, <1>2, <1>3, <1>4, <1>5, <1>6 DEF CommentCallsUpTo

(* What each step does to the rows.                                        *)
LEMMA CountReplyDoes ==
    ASSUME NEW t, \A k \in DOMAIN t : t[k] \in CommentRows,
           NEW p, NEW d \in Int, NEW u, u = CountReply(t, p, d)
    PROVE  /\ DOMAIN u = DOMAIN t
           /\ \A k \in DOMAIN t :
                 /\ u[k] \in CommentRows /\ u[k].listing = t[k].listing
                 /\ u[k].parent = t[k].parent /\ u[k].likes = t[k].likes
                 /\ u[k].replies = t[k].replies + (IF k = p THEN d ELSE 0)
<1>1. /\ DOMAIN u = DOMAIN t
      /\ \A k \in DOMAIN t :
            u[k] = IF k = p THEN [t[k] EXCEPT !.replies = @ + d] ELSE t[k]
  BY DEF CountReply
<1>2. ASSUME NEW k \in DOMAIN t
      PROVE  /\ u[k] \in CommentRows /\ u[k].listing = t[k].listing
             /\ u[k].parent = t[k].parent /\ u[k].likes = t[k].likes
             /\ u[k].replies = t[k].replies + (IF k = p THEN d ELSE 0)
  <2>1. CASE k = p
    <3>1. u[k] = [t[k] EXCEPT !.replies = @ + d]
      BY <1>1, <2>1
    <3> QED
      BY <2>1, <3>1, RowReplies
  <2>2. CASE k # p
    <3>1. u[k] = t[k] /\ t[k] \in CommentRows
      BY <1>1, <2>2
    <3>2. t[k].replies \in Int
      BY <3>1 DEF CommentRows
    <3> QED
      BY <2>2, <3>1, <3>2
  <2> QED
    BY <2>1, <2>2
<1> QED
  BY <1>1, <1>2

LEMMA InsertDoes ==
    ASSUME ThreadTypes, NEW r \in Requests, InsertComment(r),
           NEW c, c = commentCalls[r], NEW n, n = written + 1
    PROVE  /\ n \in CommentIds /\ n \notin DOMAIN thread
           /\ DOMAIN thread' = DOMAIN thread \cup {n}
           /\ thread'[n] = CommentRow(c.listing, c.user, c.parent)
           /\ \A k \in DOMAIN thread :
                 /\ thread'[k] \in CommentRows
                 /\ thread'[k].listing = thread[k].listing
                 /\ thread'[k].parent = thread[k].parent
                 /\ thread'[k].likes = thread[k].likes
                 /\ thread'[k].replies = thread[k].replies + (IF k = c.parent THEN 1 ELSE 0)
<1>1. PICK u : u = CountReply(thread, c.parent, 1)
  OBVIOUS
<1>2. /\ n \in CommentIds /\ n \notin DOMAIN thread
      /\ \A k \in DOMAIN thread : thread[k] \in CommentRows
  BY CommentsAssumption DEF ThreadTypes, InsertComment, CommentIds
<1>3. /\ DOMAIN u = DOMAIN thread
      /\ \A k \in DOMAIN thread :
            /\ u[k] \in CommentRows /\ u[k].listing = thread[k].listing
            /\ u[k].parent = thread[k].parent /\ u[k].likes = thread[k].likes
            /\ u[k].replies = thread[k].replies + (IF k = c.parent THEN 1 ELSE 0)
  BY <1>1, <1>2, CountReplyDoes
<1>4. thread' = With(u, n, CommentRow(c.listing, c.user, c.parent))
  BY <1>1 DEF InsertComment
<1>5. /\ DOMAIN thread' = DOMAIN thread \cup {n}
      /\ thread'[n] = CommentRow(c.listing, c.user, c.parent)
      /\ \A k \in DOMAIN thread : thread'[k] = u[k]
  BY <1>2, <1>3, <1>4 DEF With
<1> QED
  BY <1>2, <1>3, <1>5

LEMMA DeleteDoes ==
    ASSUME ThreadTypes, NEW r \in Requests, DeleteComments(r),
           NEW c, c = commentCalls[r]
    PROVE  /\ DOMAIN thread' = DOMAIN thread \ c.ids
           /\ \A k \in DOMAIN thread \ c.ids :
                 /\ thread'[k] \in CommentRows
                 /\ thread'[k].listing = thread[k].listing
                 /\ thread'[k].parent = thread[k].parent
                 /\ thread'[k].likes = thread[k].likes
                 /\ thread'[k].replies = thread[k].replies + (IF k = c.parent THEN -1 ELSE 0)
<1>1. PICK u : u = Without(thread, c.ids)
  OBVIOUS
<1>2. /\ DOMAIN u = DOMAIN thread \ c.ids
      /\ \A k \in DOMAIN u : u[k] = thread[k] /\ u[k] \in CommentRows
  BY <1>1 DEF Without, ThreadTypes
<1>3. thread' = CountReply(u, c.parent, -1) /\ -1 \in Int
  BY <1>1 DEF DeleteComments
<1>4. /\ DOMAIN thread' = DOMAIN u
      /\ \A k \in DOMAIN u :
            /\ thread'[k] \in CommentRows /\ thread'[k].listing = u[k].listing
            /\ thread'[k].parent = u[k].parent /\ thread'[k].likes = u[k].likes
            /\ thread'[k].replies = u[k].replies + (IF k = c.parent THEN -1 ELSE 0)
  BY <1>2, <1>3, CountReplyDoes
<1> QED
  BY <1>2, <1>4

LEMMA StoreHeartsDoes ==
    ASSUME ThreadTypes, NEW r \in Requests, StoreHearts(r),
           NEW c, c = commentCalls[r]
    PROVE  /\ DOMAIN thread' = DOMAIN thread
           /\ \A k \in DOMAIN thread :
                 /\ thread'[k] \in CommentRows
                 /\ thread'[k].listing = thread[k].listing
                 /\ thread'[k].parent = thread[k].parent
                 /\ thread'[k].replies = thread[k].replies
                 /\ thread'[k].likes = IF k = c.comment THEN c.n ELSE thread[k].likes
<1>1. c.n \in Nat
  BY CallKinds DEF StoreHearts
<1>2. /\ DOMAIN thread' = DOMAIN thread
      /\ \A k \in DOMAIN thread :
            thread'[k] = IF k = c.comment THEN [thread[k] EXCEPT !.likes = c.n]
                                          ELSE thread[k]
  BY DEF StoreHearts
<1>3. ASSUME NEW k \in DOMAIN thread
      PROVE  /\ thread'[k] \in CommentRows
             /\ thread'[k].listing = thread[k].listing
             /\ thread'[k].parent = thread[k].parent
             /\ thread'[k].replies = thread[k].replies
             /\ thread'[k].likes = IF k = c.comment THEN c.n ELSE thread[k].likes
  <2>1. thread[k] \in CommentRows
    BY DEF ThreadTypes
  <2>2. CASE k = c.comment
    <3>1. thread'[k] = [thread[k] EXCEPT !.likes = c.n]
      BY <1>2, <2>2
    <3> QED
      BY <1>1, <2>1, <2>2, <3>1, RowLikes
  <2>3. CASE k # c.comment
    BY <1>2, <2>1, <2>3
  <2> QED
    BY <2>2, <2>3
<1> QED
  BY <1>2, <1>3

-----------------------------------------------------------------------------
(* The card.                                                               *)

LEMMA CardStep ==
    ASSUME ThreadTypes, NEW l \in Listings, CardRight(l), NEW r \in Requests,
           NEW c, Goes(r, c), commentsAlone'[l] = commentsAlone[l],
           IsMoving(c, l) => IsMoving(commentCalls[r], l),
           ~ IsMoving(commentCalls[r], l) =>
              Roots(l)' = Roots(l) /\ commentCount'[l] = commentCount[l],
           IsMoving(commentCalls[r], l) /\ ~ IsMoving(c, l) /\ commentsAlone[l] =>
              commentCount'[l] = Cardinality(Roots(l)'),
           c.at = "store" /\ c.listing = l => c.n = Cardinality(Roots(l)')
    PROVE  CardRight(l)'
<1>1. /\ commentCalls'[r] = c
      /\ \A q \in Requests \ {r} : commentCalls'[q] = commentCalls[q]
  BY CommentCallGoes
<1> SUFFICES ASSUME commentsAlone[l] PROVE CardRight(l)'
  BY DEF CardRight
<1>2. \A q \in Requests : IsMoving(commentCalls'[q], l) => IsMoving(commentCalls[q], l)
  BY <1>1
<1>3. \A q, s \in Requests :
        IsMoving(commentCalls'[q], l) /\ IsMoving(commentCalls'[s], l) => q = s
  BY <1>2 DEF CardRight
<1>4. CASE IsMoving(commentCalls[r], l)
  <2>1. \A q \in Requests \ {r} : ~ IsMoving(commentCalls'[q], l)
    BY <1>1, <1>4 DEF CardRight
  <2>2. \A q \in Requests \ {r} :
          ~ (commentCalls'[q].at = "store" /\ commentCalls'[q].listing = l)
    BY <2>1 DEF IsMoving
  <2>3. (\A q \in Requests : ~ IsMoving(commentCalls'[q], l)) =>
          commentCount'[l] = Cardinality(Roots(l)')
    BY <1>1, <1>4
  <2> QED
    BY <1>1, <1>3, <2>2, <2>3 DEF CardRight, IsMoving
<1>5. CASE ~ IsMoving(commentCalls[r], l)
  <2>1. ~ IsMoving(c, l)
    BY <1>5
  <2>2. ~ (c.at = "store" /\ c.listing = l)
    BY <2>1 DEF IsMoving
  <2>3. (\A q \in Requests : ~ IsMoving(commentCalls'[q], l)) =>
          commentCount'[l] = Cardinality(Roots(l)')
    BY <1>1, <1>5 DEF CardRight
  <2>4. \A q \in Requests :
            commentCalls'[q].at = "store" /\ commentCalls'[q].listing = l =>
              commentCalls'[q].n = Cardinality(Roots(l)')
    BY <1>1, <1>5, <2>2 DEF CardRight
  <2> QED
    BY <1>3, <2>3, <2>4 DEF CardRight, IsMoving
<1> QED
  BY <1>4, <1>5

CardInv ==
    /\ ThreadTypes
    /\ \A q \in Requests : RootOfListing(commentCalls[q])
    /\ \A l \in Listings : CardRight(l)

(* The rows keep their listing and their parent; only a new id comes.      *)
RowsKept ==
    /\ DOMAIN thread' \subseteq DOMAIN thread \cup {written + 1}
    /\ \A k \in DOMAIN thread \cap DOMAIN thread' :
          thread'[k].listing = thread[k].listing /\ thread'[k].parent = thread[k].parent

LEMMA RootsSame ==
    ASSUME DOMAIN thread' = DOMAIN thread, RowsKept, NEW l
    PROVE  Roots(l)' = Roots(l)
BY DEF RowsKept, Roots

LEMMA RootOfListingStays ==
    ASSUME ThreadTypes, RowsKept, NEW q \in Requests, NEW c,
           c = commentCalls[q], RootOfListing(c)
    PROVE  /\ c.at = "replies" /\ c.comment \in DOMAIN thread' =>
                thread'[c.comment].listing = c.listing
           /\ c.at = "delete" =>
                \A k \in c.ids \cap DOMAIN thread' :
                   thread'[k].parent = None => thread'[k].listing = c.listing
<1>1. written + 1 \notin 1 .. written
  BY DEF ThreadTypes
<1>2. c.at = "replies" => c.comment \in 1 .. written
  BY CallKinds
<1>3. c.at = "delete" => c.ids \subseteq 1 .. written
  BY CallKinds
<1> QED
  BY <1>1, <1>2, <1>3 DEF RowsKept, RootOfListing

LEMMA RootsOfListingsStay ==
    ASSUME CardInv, RowsKept, NEW r \in Requests, NEW c, Goes(r, c),
           c.at # "replies", c.at # "delete"
    PROVE  \A q \in Requests : RootOfListing(commentCalls[q])'
<1>1. /\ commentCalls'[r] = c
      /\ \A q \in Requests \ {r} : commentCalls'[q] = commentCalls[q]
  BY CommentCallGoes DEF CardInv
<1>2. ASSUME NEW q \in Requests PROVE RootOfListing(commentCalls[q])'
  <2>1. CASE q = r
    BY <1>1, <2>1 DEF RootOfListing
  <2>2. CASE q # r
    <3>1. PICK d : d = commentCalls[q]
      OBVIOUS
    <3>2. commentCalls'[q] = d
      BY <1>1, <2>2, <3>1
    <3>3. RootOfListing(d)
      BY <3>1 DEF CardInv
    <3> QED
      BY <3>1, <3>2, <3>3, RootOfListingStays DEF RootOfListing, CardInv
  <2> QED
    BY <2>1, <2>2
<1> QED
  BY <1>2

(* The steps that leave the rows' listings and parents alone, and the      *)
(* card's number too.                                                      *)
LEMMA QuietTypes ==
    ASSUME ThreadTypes, NEW r \in Requests, NEW c \in CommentCallsUpTo(written),
           Goes(r, c), UNCHANGED <<written, commentCount>>,
           DOMAIN thread' \subseteq DOMAIN thread,
           \A k \in DOMAIN thread' : thread'[k] \in CommentRows,
           hearts' \subseteq CommentIds \X Likers,
           commentsAlone' \in [Listings -> BOOLEAN], commentsMixed' \in BOOLEAN
    PROVE  ThreadTypes'
<1>1. commentCalls' \in [Requests -> CommentCallsUpTo(written)]
  BY CommentCallGoes
<1>2. CommentCallsUpTo(written)' = CommentCallsUpTo(written)
  BY DEF CommentCallsUpTo, Idle
<1> QED
  BY <1>1, <1>2 DEF ThreadTypes, CommentRows

LEMMA PostAsks ==
    ASSUME CardInv, NEW r \in Requests, NEW l \in Listings, NEW u \in Users,
           NEW p \in DOMAIN thread \cup {None}, AskPost(r, l, u, p)
    PROVE  CardInv'
<1>1. PICK c : c = [at |-> "insert", listing |-> l, user |-> u, parent |-> p]
  OBVIOUS
<1>2. /\ Goes(r, c) /\ UNCHANGED <<thread, written, hearts, commentCount>>
      /\ commentCalls[r] = Idle
      /\ commentsMixed' = (commentsMixed \/ ~ Alone(commentCalls, r))
      /\ commentsAlone' = [commentsAlone EXCEPT ![l] =
            ~ \E q \in Requests : IsMoving(commentCalls[q], l)]
  BY <1>1 DEF AskPost, Arrives, Moves
<1>3. p \in CommentIds \cup {None}
  BY CommentsAssumption DEF CardInv, ThreadTypes, CommentIds
<1>4. c \in CommentCallsUpTo(written)
  BY <1>1, <1>3 DEF CommentCallsUpTo
<1>5. ThreadTypes'
  <2>1. commentsMixed' \in BOOLEAN /\ commentsAlone' \in [Listings -> BOOLEAN]
    BY <1>2 DEF CardInv, ThreadTypes, Alone
  <2> QED
    BY <1>2, <1>4, <2>1, QuietTypes DEF CardInv, ThreadTypes
<1>6. RowsKept /\ DOMAIN thread' = DOMAIN thread
  BY <1>2 DEF RowsKept
<1>7. \A q \in Requests : RootOfListing(commentCalls[q])'
  BY <1>1, <1>2, <1>6, RootsOfListingsStay
<1>8. ASSUME NEW m \in Listings PROVE CardRight(m)'
  <2>1. CASE m = l
    <3> SUFFICES ASSUME commentsAlone'[m] PROVE CardRight(m)'
      BY DEF CardRight
    <3>1. \A q \in Requests : ~ IsMoving(commentCalls[q], m)
      BY <1>2, <2>1 DEF CardInv, ThreadTypes
    <3>2. /\ commentCalls'[r] = c
          /\ \A q \in Requests \ {r} : commentCalls'[q] = commentCalls[q]
      BY <1>2, CommentCallGoes DEF CardInv
    <3>3. IsMoving(c, m) /\ c.at # "store"
      BY <1>1, <2>1 DEF IsMoving
    <3> QED
      BY <3>1, <3>2, <3>3 DEF CardRight, IsMoving
  <2>2. CASE m # l
    <3>1. ~ IsMoving(c, m) /\ c.at # "store" /\ commentsAlone'[m] = commentsAlone[m]
      BY <1>1, <1>2, <2>2 DEF IsMoving, CardInv, ThreadTypes
    <3>2. ~ IsMoving(commentCalls[r], m)
      BY <1>2 DEF IsMoving, Idle
    <3>3. Roots(m)' = Roots(m) /\ commentCount'[m] = commentCount[m]
      BY <1>2, <1>6, RootsSame
    <3> QED
      BY <1>2, <3>1, <3>2, <3>3, CardStep DEF CardInv
  <2> QED
    BY <2>1, <2>2
<1> QED
  BY <1>5, <1>7, <1>8 DEF CardInv

LEMMA RemoveAsks ==
    ASSUME CardInv, NEW r \in Requests, NEW k \in DOMAIN thread,
           NEW u \in Users, AskRemove(r, k, u)
    PROVE  CardInv'
<1>0. PICK l \in Listings, p \in CommentIds \cup {None} :
        l = thread[k].listing /\ p = thread[k].parent
  BY DEF CardInv, ThreadTypes, CommentRows
<1>1. PICK c : c = [at |-> "replies", comment |-> k, listing |-> l, parent |-> p]
  OBVIOUS
<1>2. /\ Goes(r, c) /\ UNCHANGED <<thread, written, hearts, commentCount>>
      /\ commentCalls[r] = Idle
      /\ commentsMixed' = (commentsMixed \/ ~ Alone(commentCalls, r))
      /\ commentsAlone' = [commentsAlone EXCEPT ![l] =
            ~ \E q \in Requests : IsMoving(commentCalls[q], l)]
  BY <1>0, <1>1 DEF AskRemove, Arrives, Moves
<1>3. k \in 1 .. written
  BY DEF CardInv, ThreadTypes
<1>4. c \in CommentCallsUpTo(written)
  BY <1>1, <1>3 DEF CommentCallsUpTo
<1>5. ThreadTypes'
  <2>1. commentsMixed' \in BOOLEAN /\ commentsAlone' \in [Listings -> BOOLEAN]
    BY <1>2 DEF CardInv, ThreadTypes, Alone
  <2> QED
    BY <1>2, <1>4, <2>1, QuietTypes DEF CardInv, ThreadTypes
<1>6. RowsKept /\ DOMAIN thread' = DOMAIN thread
  BY <1>2 DEF RowsKept
<1>9. /\ commentCalls'[r] = c
      /\ \A q \in Requests \ {r} : commentCalls'[q] = commentCalls[q]
  BY <1>2, CommentCallGoes DEF CardInv
<1>7. ASSUME NEW q \in Requests PROVE RootOfListing(commentCalls[q])'
  <2>1. CASE q = r
    BY <1>0, <1>1, <1>2, <1>9, <2>1 DEF RootOfListing
  <2>2. CASE q # r
    BY <1>2, <1>9, <2>2 DEF CardInv, RootOfListing
  <2> QED
    BY <2>1, <2>2
<1>8. ASSUME NEW m \in Listings PROVE CardRight(m)'
  <2>1. CASE m = l
    <3> SUFFICES ASSUME commentsAlone'[m] PROVE CardRight(m)'
      BY DEF CardRight
    <3>1. \A q \in Requests : ~ IsMoving(commentCalls[q], m)
      BY <1>2, <2>1 DEF CardInv, ThreadTypes
    <3>3. IsMoving(c, m) /\ c.at # "store"
      BY <1>1, <2>1 DEF IsMoving
    <3> QED
      BY <3>1, <1>9, <3>3 DEF CardRight, IsMoving
  <2>2. CASE m # l
    <3>1. ~ IsMoving(c, m) /\ c.at # "store" /\ commentsAlone'[m] = commentsAlone[m]
      BY <1>1, <1>2, <2>2 DEF IsMoving, CardInv, ThreadTypes
    <3>2. ~ IsMoving(commentCalls[r], m)
      BY <1>2 DEF IsMoving, Idle
    <3>3. Roots(m)' = Roots(m) /\ commentCount'[m] = commentCount[m]
      BY <1>2, <1>6, RootsSame
    <3> QED
      BY <1>2, <3>1, <3>2, <3>3, CardStep DEF CardInv
  <2> QED
    BY <2>1, <2>2
<1> QED
  BY <1>5, <1>7, <1>8 DEF CardInv

LEMMA HeartAsks ==
    ASSUME CardInv, NEW r \in Requests, NEW k \in DOMAIN thread,
           NEW u \in Likers, NEW b \in BOOLEAN, AskHeart(r, k, u, b)
    PROVE  CardInv'
<1>1. PICK c : c = [at |-> "heart", comment |-> k, user |-> u, liked |-> b]
  OBVIOUS
<1>2. /\ Goes(r, c) /\ UNCHANGED <<thread, written, hearts, commentCount, commentsAlone>>
      /\ commentsMixed' = (commentsMixed \/ ~ Alone(commentCalls, r))
  BY <1>1 DEF AskHeart, Arrives
<1>3. k \in 1 .. written
  BY DEF CardInv, ThreadTypes
<1>4. c \in CommentCallsUpTo(written) /\ commentCalls[r] = Idle
  BY <1>1, <1>3 DEF CommentCallsUpTo, AskHeart, Arrives
<1>5. ThreadTypes'
  <2>1. commentsMixed' \in BOOLEAN /\ commentsAlone' \in [Listings -> BOOLEAN]
    BY <1>2 DEF CardInv, ThreadTypes, Alone
  <2> QED
    BY <1>2, <1>4, <2>1, QuietTypes DEF CardInv, ThreadTypes
<1>6. RowsKept /\ DOMAIN thread' = DOMAIN thread
  BY <1>2 DEF RowsKept
<1>7. \A q \in Requests : RootOfListing(commentCalls[q])'
  BY <1>1, <1>2, <1>6, RootsOfListingsStay
<1>8. ASSUME NEW m \in Listings PROVE CardRight(m)'
  <2>1. ~ IsMoving(c, m) /\ c.at # "store" /\ ~ IsMoving(commentCalls[r], m)
    BY <1>1, <1>4 DEF IsMoving, Idle
  <2>3. Roots(m)' = Roots(m) /\ commentCount'[m] = commentCount[m]
    BY <1>2, <1>6, RootsSame
  <2> QED
    BY <1>2, <2>1, <2>3, CardStep DEF CardInv
<1> QED
  BY <1>5, <1>7, <1>8 DEF CardInv

LEMMA PostInserts ==
    ASSUME CardInv, NEW r \in Requests, InsertComment(r)
    PROVE  CardInv'
<1>1. PICK d : d = commentCalls[r]
  OBVIOUS
<1>2. PICK n : n = written + 1
  OBVIOUS
<1>3. PICK c : c = [at |-> "count", listing |-> d.listing]
  OBVIOUS
<1>4. /\ d.at = "insert" /\ Goes(r, c) /\ written' = n
      /\ UNCHANGED <<hearts, commentCount, commentsAlone, commentsMixed>>
  BY <1>1, <1>2, <1>3 DEF InsertComment, Ghosts
<1>5. /\ d.listing \in Listings /\ d.user \in Users
      /\ d.parent \in CommentIds \cup {None}
  BY <1>1, <1>4, CallKinds DEF CardInv
<1>6. /\ n \in CommentIds /\ n \notin DOMAIN thread
      /\ DOMAIN thread' = DOMAIN thread \cup {n}
      /\ thread'[n] = CommentRow(d.listing, d.user, d.parent)
      /\ \A k \in DOMAIN thread :
            /\ thread'[k] \in CommentRows
            /\ thread'[k].listing = thread[k].listing
            /\ thread'[k].parent = thread[k].parent
  BY <1>1, <1>2, InsertDoes DEF CardInv
<1>7. thread'[n] \in CommentRows /\ thread'[n].listing = d.listing
  BY <1>5, <1>6 DEF CommentRow, CommentRows
<1>8. ThreadTypes'
  <2>1. commentCalls' \in [Requests -> CommentCallsUpTo(n)]
    <3>1. c \in CommentCallsUpTo(n)
      BY <1>3, <1>5 DEF CommentCallsUpTo
    <3>2. \A q \in Requests : commentCalls[q] \in CommentCallsUpTo(n)
      BY <1>2, CallsGrow DEF CardInv, ThreadTypes
    <3> QED
      BY <1>4, <3>1, <3>2 DEF Goes, CardInv, ThreadTypes
  <2>2. CommentCallsUpTo(written)' = CommentCallsUpTo(n)
    BY <1>4 DEF CommentCallsUpTo, Idle
  <2>3. /\ written' \in 0 .. MaxComments
        /\ DOMAIN thread' \subseteq 1 .. n
    BY <1>2, <1>4, <1>6 DEF CardInv, ThreadTypes, CommentIds
  <2>4. \A k \in DOMAIN thread' : thread'[k] \in CommentRows
    BY <1>6, <1>7
  <2>5. /\ hearts' \subseteq CommentIds \X Likers /\ commentCount' \in [Listings -> Nat]
        /\ commentsAlone' \in [Listings -> BOOLEAN] /\ commentsMixed' \in BOOLEAN
    BY <1>4 DEF CardInv, ThreadTypes
  <2> QED
    BY <1>4, <2>1, <2>2, <2>3, <2>4, <2>5 DEF ThreadTypes, CommentRows
<1>9. RowsKept
  BY <1>2, <1>6 DEF RowsKept
<1>10. \A q \in Requests : RootOfListing(commentCalls[q])'
  BY <1>3, <1>4, <1>9, RootsOfListingsStay
<1>11. ASSUME NEW m \in Listings PROVE CardRight(m)'
  <2>1. IsMoving(c, m) <=> m = d.listing
    BY <1>3 DEF IsMoving
  <2>2. IsMoving(commentCalls[r], m) <=> m = d.listing
    BY <1>1, <1>4 DEF IsMoving
  <2>3. m # d.listing => Roots(m)' = Roots(m)
    BY <1>6, <1>7 DEF Roots
  <2>4. c.at # "store"
    BY <1>3
  <2> QED
    BY <1>4, <2>1, <2>2, <2>3, <2>4, CardStep DEF CardInv
<1> QED
  BY <1>8, <1>10, <1>11 DEF CardInv

LEMMA CardCounts ==
    ASSUME CardInv, NEW r \in Requests, CountRoots(r)
    PROVE  CardInv'
<1>1. PICK d : d = commentCalls[r]
  OBVIOUS
<1>2. d.at = "count" /\ d.listing \in Listings
  BY <1>1, CallKinds DEF CardInv, CountRoots
<1>0. Cardinality(Roots(d.listing)) \in Nat
  <2>1. Roots(d.listing) \subseteq DOMAIN thread
    BY DEF Roots
  <2> QED
    BY <2>1, CommentsFinite DEF CardInv
<1>3. PICK n \in Nat : n = Cardinality(Roots(d.listing))
  BY <1>0
<1>4. PICK c : c = [at |-> "store", listing |-> d.listing, n |-> n]
  OBVIOUS
<1>5. /\ Goes(r, c)
      /\ UNCHANGED <<thread, written, hearts, commentCount, commentsAlone, commentsMixed>>
  BY <1>1, <1>3, <1>4 DEF CountRoots, Ghosts
<1>6. c \in CommentCallsUpTo(written)
  BY <1>2, <1>4 DEF CommentCallsUpTo
<1>7. ThreadTypes'
  BY <1>5, <1>6, QuietTypes DEF CardInv, ThreadTypes
<1>8. RowsKept /\ DOMAIN thread' = DOMAIN thread
  BY <1>5 DEF RowsKept
<1>9. \A q \in Requests : RootOfListing(commentCalls[q])'
  BY <1>4, <1>5, <1>8, RootsOfListingsStay
<1>10. ASSUME NEW m \in Listings PROVE CardRight(m)'
  <2>1. IsMoving(c, m) <=> m = d.listing
    BY <1>4 DEF IsMoving
  <2>2. IsMoving(commentCalls[r], m) <=> m = d.listing
    BY <1>1, <1>2 DEF IsMoving
  <2>3. Roots(m)' = Roots(m)
    BY <1>8, RootsSame
  <2>4. c.listing = m => c.n = Cardinality(Roots(m)')
    BY <1>3, <1>4, <2>3
  <2> QED
    BY <1>5, <2>1, <2>2, <2>3, <2>4, CardStep DEF CardInv
<1> QED
  BY <1>7, <1>9, <1>10 DEF CardInv

LEMMA CardStores ==
    ASSUME CardInv, NEW r \in Requests, StoreCount(r)
    PROVE  CardInv'
<1>1. PICK d : d = commentCalls[r]
  OBVIOUS
<1>2. d.at = "store" /\ d.listing \in Listings /\ d.n \in Nat
  BY <1>1, CallKinds DEF CardInv, StoreCount
<1>3. /\ Goes(r, Idle)
      /\ commentCount' = [commentCount EXCEPT ![d.listing] = d.n]
      /\ UNCHANGED <<thread, written, hearts, commentsAlone, commentsMixed>>
  BY <1>1 DEF StoreCount, Ghosts
<1>4. ThreadTypes'
  <2>1. commentCalls' \in [Requests -> CommentCallsUpTo(written)]
    BY <1>3, CommentCallGoes DEF CardInv, CommentCallsUpTo
  <2>2. CommentCallsUpTo(written)' = CommentCallsUpTo(written)
    BY <1>3 DEF CommentCallsUpTo, Idle
  <2>3. commentCount' \in [Listings -> Nat]
    BY <1>2, <1>3 DEF CardInv, ThreadTypes
  <2> QED
    BY <1>3, <2>1, <2>2, <2>3 DEF CardInv, ThreadTypes, CommentRows
<1>5. RowsKept /\ DOMAIN thread' = DOMAIN thread
  BY <1>3 DEF RowsKept
<1>6. \A q \in Requests : RootOfListing(commentCalls[q])'
  <2>1. Idle.at # "replies" /\ Idle.at # "delete"
    BY DEF Idle
  <2> QED
    BY <1>3, <1>5, <2>1, RootsOfListingsStay
<1>7. ASSUME NEW m \in Listings PROVE CardRight(m)'
  <2>1. ~ IsMoving(Idle, m) /\ Idle.at # "store"
    BY DEF IsMoving, Idle
  <2>2. IsMoving(commentCalls[r], m) <=> m = d.listing
    BY <1>1, <1>2 DEF IsMoving
  <2>3. Roots(m)' = Roots(m)
    BY <1>5, RootsSame
  <2>4. m = d.listing /\ commentsAlone[m] => commentCount'[m] = Cardinality(Roots(m)')
    BY <1>1, <1>2, <1>3, <2>3 DEF CardInv, CardRight, ThreadTypes
  <2>5. m # d.listing => commentCount'[m] = commentCount[m]
    BY <1>3 DEF CardInv, ThreadTypes
  <2> QED
    BY <1>3, <2>1, <2>2, <2>3, <2>4, <2>5, CardStep DEF CardInv
<1> QED
  BY <1>4, <1>6, <1>7 DEF CardInv

LEMMA RepliesFound ==
    ASSUME CardInv, NEW r \in Requests, FindReplies(r)
    PROVE  CardInv'
<1>1. PICK d : d = commentCalls[r]
  OBVIOUS
<1>2. /\ d.at = "replies" /\ d.listing \in Listings /\ d.comment \in 1 .. written
      /\ d.parent \in CommentIds \cup {None}
  BY <1>1, CallKinds DEF CardInv, FindReplies
<1>3. PICK ids : ids = {d.comment} \cup
                       (IF d.parent = None THEN RepliesOf(d.comment) ELSE {})
  OBVIOUS
<1>4. PICK c : c = [at |-> "delete", listing |-> d.listing, parent |-> d.parent,
                    ids |-> ids]
  OBVIOUS
<1>5. /\ Goes(r, c)
      /\ UNCHANGED <<thread, written, hearts, commentCount, commentsAlone, commentsMixed>>
  BY <1>1, <1>3, <1>4 DEF FindReplies, Ghosts
<1>6. ids \in SUBSET (1 .. written)
  BY <1>2, <1>3 DEF RepliesOf, CardInv, ThreadTypes
<1>7. c \in CommentCallsUpTo(written)
  BY <1>2, <1>4, <1>6 DEF CommentCallsUpTo
<1>8. ThreadTypes'
  BY <1>5, <1>7, QuietTypes DEF CardInv, ThreadTypes
<1>9. RowsKept /\ DOMAIN thread' = DOMAIN thread
  BY <1>5 DEF RowsKept
<1>10. /\ commentCalls'[r] = c
       /\ \A q \in Requests \ {r} : commentCalls'[q] = commentCalls[q]
  BY <1>5, CommentCallGoes DEF CardInv
<1>11. d.comment # None
  BY <1>2, CommentsAssumption DEF CardInv, ThreadTypes
<1>12. ASSUME NEW q \in Requests PROVE RootOfListing(commentCalls[q])'
  <2>1. CASE q = r
    <3>1. d.comment \in DOMAIN thread => thread[d.comment].listing = d.listing
      BY <1>1, <1>2 DEF CardInv, RootOfListing
    <3>2. ASSUME NEW k \in ids, k \in DOMAIN thread, thread[k].parent = None
          PROVE  thread[k].listing = d.listing
      BY <3>1, <3>2, <1>3, <1>11 DEF RepliesOf
    <3> QED
      BY <1>4, <1>5, <1>10, <2>1, <3>2 DEF RootOfListing
  <2>2. CASE q # r
    BY <1>5, <1>10, <2>2 DEF CardInv, RootOfListing
  <2> QED
    BY <2>1, <2>2
<1>13. ASSUME NEW m \in Listings PROVE CardRight(m)'
  <2>1. IsMoving(c, m) <=> m = d.listing
    BY <1>4 DEF IsMoving
  <2>2. IsMoving(commentCalls[r], m) <=> m = d.listing
    BY <1>1, <1>2 DEF IsMoving
  <2>3. Roots(m)' = Roots(m) /\ c.at # "store"
    BY <1>4, <1>9, RootsSame
  <2> QED
    BY <1>5, <2>1, <2>2, <2>3, CardStep DEF CardInv
<1> QED
  BY <1>8, <1>12, <1>13 DEF CardInv

LEMMA CommentsGo ==
    ASSUME CardInv, NEW r \in Requests, DeleteComments(r)
    PROVE  CardInv'
<1>1. PICK d : d = commentCalls[r]
  OBVIOUS
<1>2. d.at = "delete" /\ d.listing \in Listings
  BY <1>1, CallKinds DEF CardInv, DeleteComments
<1>3. PICK c : c = [at |-> "count", listing |-> d.listing]
  OBVIOUS
<1>4. /\ Goes(r, c)
      /\ hearts' \subseteq hearts
      /\ UNCHANGED <<written, commentCount, commentsAlone, commentsMixed>>
  BY <1>1, <1>3 DEF DeleteComments, Ghosts
<1>5. /\ DOMAIN thread' = DOMAIN thread \ d.ids
      /\ \A k \in DOMAIN thread \ d.ids :
            /\ thread'[k] \in CommentRows
            /\ thread'[k].listing = thread[k].listing
            /\ thread'[k].parent = thread[k].parent
  BY <1>1, DeleteDoes DEF CardInv
<1>6. c \in CommentCallsUpTo(written)
  BY <1>2, <1>3 DEF CommentCallsUpTo
<1>7. ThreadTypes'
  BY <1>4, <1>5, <1>6, QuietTypes DEF CardInv, ThreadTypes
<1>8. RowsKept
  BY <1>5 DEF RowsKept
<1>9. \A q \in Requests : RootOfListing(commentCalls[q])'
  BY <1>3, <1>4, <1>8, RootsOfListingsStay
<1>10. ASSUME NEW m \in Listings PROVE CardRight(m)'
  <2>1. IsMoving(c, m) <=> m = d.listing
    BY <1>3 DEF IsMoving
  <2>2. IsMoving(commentCalls[r], m) <=> m = d.listing
    BY <1>1, <1>2 DEF IsMoving
  <2>3. ASSUME m # d.listing PROVE Roots(m)' = Roots(m)
    <3>1. \A k \in d.ids \cap DOMAIN thread :
            thread[k].parent = None => thread[k].listing = d.listing
      BY <1>1, <1>2 DEF CardInv, RootOfListing
    <3> QED
      BY <1>5, <2>3, <3>1 DEF Roots
  <2>4. c.at # "store"
    BY <1>3
  <2> QED
    BY <1>4, <2>1, <2>2, <2>3, <2>4, CardStep DEF CardInv
<1> QED
  BY <1>7, <1>9, <1>10 DEF CardInv

(* The steps of a like move no card.                                       *)
LEMMA HeartStep ==
    ASSUME CardInv, NEW r \in Requests, NEW c \in CommentCallsUpTo(written),
           Goes(r, c), commentCalls[r].at \in {"heart", "likes", "liked"},
           c.at \in {"idle", "likes", "liked"},
           DOMAIN thread' = DOMAIN thread,
           \A k \in DOMAIN thread : /\ thread'[k] \in CommentRows
                                    /\ thread'[k].listing = thread[k].listing
                                    /\ thread'[k].parent = thread[k].parent,
           hearts' \subseteq CommentIds \X Likers,
           UNCHANGED <<written, commentCount, commentsAlone, commentsMixed>>
    PROVE  CardInv'
<1>1. ThreadTypes'
  BY QuietTypes DEF CardInv, ThreadTypes
<1>2. RowsKept
  BY DEF RowsKept
<1>3. \A q \in Requests : RootOfListing(commentCalls[q])'
  BY <1>2, RootsOfListingsStay
<1>4. ASSUME NEW m \in Listings PROVE CardRight(m)'
  <2>1. ~ IsMoving(c, m) /\ c.at # "store" /\ ~ IsMoving(commentCalls[r], m)
    BY DEF IsMoving
  <2>2. Roots(m)' = Roots(m)
    BY <1>2, RootsSame
  <2> QED
    BY <2>1, <2>2, CardStep DEF CardInv
<1> QED
  BY <1>1, <1>3, <1>4 DEF CardInv

LEMMA HeartsMove ==
    ASSUME CardInv, NEW r \in Requests,
           WriteHeart(r) \/ CountHearts(r) \/ StoreHearts(r)
    PROVE  CardInv'
<1>1. PICK d : d = commentCalls[r]
  OBVIOUS
<1>2. CASE WriteHeart(r)
  <2>1. d.at = "heart" /\ d.comment \in 1 .. written /\ d.user \in Likers
    BY <1>1, <1>2, CallKinds DEF CardInv, WriteHeart
  <2>2. PICK c : /\ c = Idle \/ c = [at |-> "likes", comment |-> d.comment]
                 /\ Goes(r, c)
    BY <1>1, <1>2 DEF WriteHeart
  <2>3. c \in CommentCallsUpTo(written) /\ c.at \in {"idle", "likes", "liked"}
    BY <2>1, <2>2 DEF CommentCallsUpTo, Idle
  <2>4. hearts' \subseteq hearts \cup {<<d.comment, d.user>>}
    BY <1>1, <1>2 DEF WriteHeart
  <2>5. <<d.comment, d.user>> \in CommentIds \X Likers
    BY <2>1, CommentsAssumption DEF CardInv, ThreadTypes, CommentIds
  <2>6. hearts' \subseteq CommentIds \X Likers
    BY <2>4, <2>5 DEF CardInv, ThreadTypes
  <2>7. UNCHANGED <<thread, written, commentCount, commentsAlone, commentsMixed>>
    BY <1>2 DEF WriteHeart, Ghosts
  <2> QED
    BY <1>1, <2>1, <2>2, <2>3, <2>6, <2>7, HeartStep DEF CardInv, ThreadTypes
<1>3. CASE CountHearts(r)
  <2>1. d.at = "likes" /\ d.comment \in 1 .. written
    BY <1>1, <1>3, CallKinds DEF CardInv, CountHearts
  <2>2. Cardinality(HeartsOf(d.comment)) \in Nat
    <3>1. HeartsOf(d.comment) \subseteq hearts
      BY DEF HeartsOf
    <3> QED
      BY <3>1, CommentsFinite, FS_Subset, FS_CardinalityType DEF CardInv
  <2>3. PICK n \in Nat : n = Cardinality(HeartsOf(d.comment))
    BY <2>2
  <2>4. PICK c : c = [at |-> "liked", comment |-> d.comment, n |-> n]
    OBVIOUS
  <2>5. Goes(r, c) /\ UNCHANGED <<thread, written, hearts, commentCount,
                                  commentsAlone, commentsMixed>>
    BY <1>1, <1>3, <2>3, <2>4 DEF CountHearts, Ghosts
  <2>6. c \in CommentCallsUpTo(written) /\ c.at \in {"idle", "likes", "liked"}
    BY <2>1, <2>4 DEF CommentCallsUpTo
  <2> QED
    BY <1>1, <2>1, <2>5, <2>6, HeartStep DEF CardInv, ThreadTypes
<1>4. CASE StoreHearts(r)
  <2>1. d.at = "liked"
    BY <1>1, <1>4 DEF StoreHearts
  <2>2. Goes(r, Idle) /\ UNCHANGED <<written, hearts, commentCount,
                                     commentsAlone, commentsMixed>>
    BY <1>4 DEF StoreHearts, Ghosts
  <2>3. Idle \in CommentCallsUpTo(written) /\ Idle.at \in {"idle", "likes", "liked"}
    BY DEF CommentCallsUpTo, Idle
  <2>4. hearts' \subseteq CommentIds \X Likers
    BY <2>2 DEF CardInv, ThreadTypes
  <2>5. /\ DOMAIN thread' = DOMAIN thread
        /\ \A k \in DOMAIN thread : /\ thread'[k] \in CommentRows
                                     /\ thread'[k].listing = thread[k].listing
                                     /\ thread'[k].parent = thread[k].parent
    BY <1>1, <1>4, StoreHeartsDoes DEF CardInv
  <2> QED
    BY <1>1, <2>1, <2>2, <2>3, <2>4, <2>5, HeartStep
<1> QED
  BY <1>2, <1>3, <1>4

-----------------------------------------------------------------------------
(* As long as no two requests have overlapped: every reply has its root,   *)
(* replies and likes are counted right (but for a like under way), likes   *)
(* are of comments that stand, and the one request works on what stands.   *)

LoneRows ==
    /\ \A k \in DOMAIN thread :
          /\ \/ thread[k].parent = None
             \/ /\ thread[k].parent \in DOMAIN thread
                /\ thread[thread[k].parent].parent = None
          /\ thread[k].replies = Cardinality(RepliesOf(k))
    /\ \A h \in hearts : h[1] \in DOMAIN thread

IsLiking(c, k) == c.at \in {"likes", "liked"} /\ c.comment = k

LoneCall(c) ==
    /\ c.at = "insert" => MayReplyTo(c.listing, c.parent)
    /\ c.at = "replies" =>
         c.comment \in DOMAIN thread /\ c.parent = thread[c.comment].parent
    /\ c.at = "delete" =>
         \E k \in DOMAIN thread :
            /\ c.parent = thread[k].parent
            /\ c.ids = {k} \cup (IF c.parent = None THEN RepliesOf(k) ELSE {})
    /\ c.at = "heart" => c.comment \in DOMAIN thread
    /\ c.at = "liked" => c.n = Cardinality(HeartsOf(c.comment))

OneCall ==
    \A q, s \in Requests : commentCalls[q] # Idle /\ commentCalls[s] # Idle => q = s

LoneInv ==
    ~ commentsMixed =>
      /\ OneCall
      /\ LoneRows
      /\ \A k \in DOMAIN thread :
            (\A q \in Requests : ~ IsLiking(commentCalls[q], k)) =>
              thread[k].likes = Cardinality(HeartsOf(k))
      /\ \A q \in Requests : LoneCall(commentCalls[q])

(* The one request goes on, or the next arrives when there was none.       *)
LEMMA LoneStep ==
    ASSUME ThreadTypes, NEW r \in Requests, NEW c, Goes(r, c), OneCall,
           commentCalls[r] # Idle \/ Alone(commentCalls, r), LoneRows',
           \A k \in DOMAIN thread' :
              ~ IsLiking(c, k) => thread'[k].likes = Cardinality(HeartsOf(k)'),
           LoneCall(c)'
    PROVE  LoneInv'
<1>1. /\ commentCalls'[r] = c
      /\ \A q \in Requests \ {r} : commentCalls'[q] = Idle
  BY CommentCallGoes DEF OneCall, Alone
<1>2. OneCall'
  BY <1>1 DEF OneCall
<1>3. ASSUME NEW k \in DOMAIN thread', \A q \in Requests : ~ IsLiking(commentCalls'[q], k)
      PROVE  thread'[k].likes = Cardinality(HeartsOf(k)')
  BY <1>1, <1>3
<1>4. ASSUME NEW q \in Requests PROVE LoneCall(commentCalls[q])'
  <2>1. CASE q = r
    BY <1>1, <2>1 DEF LoneCall
  <2>2. CASE q # r
    BY <1>1, <2>2 DEF LoneCall, Idle
  <2> QED
    BY <2>1, <2>2
<1> QED
  BY <1>2, <1>3, <1>4 DEF LoneInv, IsLiking

(* Before the one request writes a like, or with none, likes are settled.  *)
LEMMA LikesSettled ==
    ASSUME ThreadTypes, LoneInv, ~ commentsMixed, NEW r \in Requests,
           commentCalls[r] # Idle \/ Alone(commentCalls, r),
           commentCalls[r].at \notin {"likes", "liked"}
    PROVE  \A k \in DOMAIN thread : thread[k].likes = Cardinality(HeartsOf(k))
<1>1. \A q \in Requests \ {r} : commentCalls[q] = Idle
  BY DEF OneCall, Alone, LoneInv
<1>2. ASSUME NEW k \in DOMAIN thread, NEW q \in Requests
      PROVE  ~ IsLiking(commentCalls[q], k)
  BY <1>1 DEF IsLiking, Idle
<1> QED
  BY <1>2 DEF LoneInv

LEMMA AskingStaysLone ==
    ASSUME ThreadTypes, LoneInv, NEW r \in Requests, NEW c, Arrives(r, c),
           ~ commentsMixed' => LoneCall(c),
           c.at \notin {"likes", "liked"}
    PROVE  LoneInv'
<1> SUFFICES ASSUME ~ commentsMixed' PROVE LoneInv'
  BY DEF LoneInv
<1>1. /\ ~ commentsMixed /\ Alone(commentCalls, r) /\ Goes(r, c)
      /\ UNCHANGED <<thread, hearts>> /\ commentCalls[r] = Idle
  BY DEF Arrives
<1>2. OneCall /\ LoneRows
  BY <1>1 DEF LoneInv
<1>3. LoneRows'
  BY <1>1, <1>2 DEF LoneRows, RepliesOf
<1>4. LoneCall(c)'
  BY <1>1 DEF LoneCall, MayReplyTo, RepliesOf, HeartsOf
<1>5. \A k \in DOMAIN thread : thread[k].likes = Cardinality(HeartsOf(k))
  BY <1>1, LikesSettled DEF Idle
<1>6. ASSUME NEW k \in DOMAIN thread'
      PROVE  thread'[k].likes = Cardinality(HeartsOf(k)')
  <2>1. HeartsOf(k)' = HeartsOf(k)
    BY <1>1 DEF HeartsOf
  <2> QED
    BY <1>1, <1>5, <2>1
<1> QED
  BY <1>1, <1>2, <1>3, <1>4, <1>6, LoneStep

LEMMA AsksStayLone ==
    ASSUME ThreadTypes, LoneInv, NEW r \in Requests
    PROVE  /\ \A l \in Listings, u \in Users, p \in DOMAIN thread \cup {None} :
                 AskPost(r, l, u, p) => LoneInv'
           /\ \A k \in DOMAIN thread, u \in Users : AskRemove(r, k, u) => LoneInv'
           /\ \A k \in DOMAIN thread, u \in Likers, b \in BOOLEAN :
                 AskHeart(r, k, u, b) => LoneInv'
<1>1. ASSUME NEW l \in Listings, NEW u \in Users,
             NEW p \in DOMAIN thread \cup {None}, AskPost(r, l, u, p)
      PROVE  LoneInv'
  <2>1. PICK c : c = [at |-> "insert", listing |-> l, user |-> u, parent |-> p]
    OBVIOUS
  <2>2. Arrives(r, c) /\ MayReplyTo(l, p)
    BY <1>1, <2>1 DEF AskPost
  <2>3. LoneCall(c) /\ c.at = "insert"
    BY <2>1, <2>2 DEF LoneCall
  <2> QED
    BY <2>2, <2>3, AskingStaysLone
<1>2. ASSUME NEW k \in DOMAIN thread, NEW u \in Users, AskRemove(r, k, u)
      PROVE  LoneInv'
  <2>1. PICK c : c = [at |-> "replies", comment |-> k, listing |-> thread[k].listing,
                      parent |-> thread[k].parent]
    OBVIOUS
  <2>2. Arrives(r, c)
    BY <1>2, <2>1 DEF AskRemove
  <2>3. LoneCall(c) /\ c.at = "replies"
    BY <2>1 DEF LoneCall
  <2> QED
    BY <2>2, <2>3, AskingStaysLone
<1>3. ASSUME NEW k \in DOMAIN thread, NEW u \in Likers, NEW b \in BOOLEAN,
             AskHeart(r, k, u, b)
      PROVE  LoneInv'
  <2>1. PICK c : c = [at |-> "heart", comment |-> k, user |-> u, liked |-> b]
    OBVIOUS
  <2>2. Arrives(r, c)
    BY <1>3, <2>1 DEF AskHeart
  <2>3. LoneCall(c) /\ c.at = "heart"
    BY <2>1 DEF LoneCall
  <2> QED
    BY <2>2, <2>3, AskingStaysLone
<1> QED
  BY <1>1, <1>2, <1>3

LEMMA InsertStaysLone ==
    ASSUME ThreadTypes, LoneInv, NEW r \in Requests, InsertComment(r)
    PROVE  LoneInv'
<1>1. PICK d : d = commentCalls[r]
  OBVIOUS
<1>2. PICK n : n = written + 1
  OBVIOUS
<1>3. PICK c : c = [at |-> "count", listing |-> d.listing]
  OBVIOUS
<1>4. d.at = "insert" /\ Goes(r, c) /\ hearts' = hearts /\ commentsMixed' = commentsMixed
  BY <1>1, <1>3 DEF InsertComment, Ghosts
<1> SUFFICES ASSUME ~ commentsMixed PROVE LoneInv'
  BY <1>4 DEF LoneInv
<1>5. /\ n \in CommentIds /\ n \notin DOMAIN thread
      /\ DOMAIN thread' = DOMAIN thread \cup {n}
      /\ thread'[n] = CommentRow(d.listing, d.user, d.parent)
      /\ \A k \in DOMAIN thread :
            /\ thread'[k] \in CommentRows
            /\ thread'[k].listing = thread[k].listing
            /\ thread'[k].parent = thread[k].parent
            /\ thread'[k].likes = thread[k].likes
            /\ thread'[k].replies = thread[k].replies + (IF k = d.parent THEN 1 ELSE 0)
  BY <1>1, <1>2, InsertDoes
<1>6. OneCall /\ LoneRows /\ LoneCall(d) /\ d # Idle
  BY <1>1, <1>4 DEF LoneInv, Idle
<1>7. d.parent = None \/ (d.parent \in DOMAIN thread /\ thread[d.parent].parent = None)
  BY <1>4, <1>6 DEF LoneCall, MayReplyTo
<1>8. n # None
  BY <1>5, CommentsAssumption DEF CommentIds
<1>9. thread'[n].parent = d.parent /\ thread'[n].replies = 0 /\ thread'[n].likes = 0
  BY <1>5 DEF CommentRow
<1>10. ASSUME NEW k \in DOMAIN thread'
       PROVE  thread'[k].replies = Cardinality(RepliesOf(k)')
  <2>1. CASE k = n
    <3>1. RepliesOf(k)' = {}
      <4> SUFFICES ASSUME NEW j \in DOMAIN thread', thread'[j].parent = n PROVE FALSE
        BY <2>1 DEF RepliesOf
      <4>1. CASE j = n
        BY <4>1, <1>5, <1>7, <1>8, <1>9
      <4>2. CASE j \in DOMAIN thread
        BY <4>2, <1>5, <1>6, <1>8 DEF LoneRows
      <4> QED
        BY <4>1, <4>2, <1>5
    <3> QED
      BY <2>1, <3>1, <1>9, FS_EmptySet
  <2>2. CASE k # n /\ k # d.parent
    <3>1. RepliesOf(k)' = RepliesOf(k)
      BY <2>2, <1>5, <1>9 DEF RepliesOf
    <3>2. k \in DOMAIN thread /\ thread[k].replies \in Int
      BY <2>2, <1>5 DEF ThreadTypes, CommentRows
    <3> QED
      BY <2>2, <3>1, <3>2, <1>5, <1>6 DEF LoneRows
  <2>3. CASE k # n /\ k = d.parent
    <3>1. RepliesOf(k)' = RepliesOf(k) \cup {n} /\ n \notin RepliesOf(k)
      BY <2>3, <1>5, <1>9 DEF RepliesOf
    <3>2. k \in DOMAIN thread /\ thread[k].replies \in Int
      BY <2>3, <1>5 DEF ThreadTypes, CommentRows
    <3>3. RepliesOf(k) \subseteq DOMAIN thread
      BY DEF RepliesOf
    <3>4. IsFiniteSet(RepliesOf(k))
      BY <3>3, CommentsFinite
    <3>5. Cardinality(RepliesOf(k)') = Cardinality(RepliesOf(k)) + 1
      BY <3>1, <3>4, FS_AddElement
    <3> QED
      BY <2>3, <3>2, <3>5, <1>5, <1>6 DEF LoneRows
  <2> QED
    BY <2>1, <2>2, <2>3
<1>11. LoneRows'
  <2>1. ASSUME NEW k \in DOMAIN thread'
        PROVE  \/ thread'[k].parent = None
               \/ /\ thread'[k].parent \in DOMAIN thread'
                  /\ thread'[thread'[k].parent].parent = None
    <3>1. CASE k = n
      BY <3>1, <1>5, <1>7, <1>9
    <3>2. CASE k \in DOMAIN thread
      BY <3>2, <1>5, <1>6 DEF LoneRows
    <3> QED
      BY <3>1, <3>2, <1>5
  <2>2. \A h \in hearts' : h[1] \in DOMAIN thread'
    BY <1>4, <1>5, <1>6 DEF LoneRows
  <2> QED
    BY <1>10, <2>1, <2>2 DEF LoneRows
<1>12. ASSUME NEW k \in DOMAIN thread'
       PROVE  thread'[k].likes = Cardinality(HeartsOf(k)')
  <2>1. HeartsOf(k)' = HeartsOf(k)
    BY <1>4 DEF HeartsOf
  <2>2. CASE k = n
    <3>1. HeartsOf(k) = {}
      BY <2>2, <1>5, <1>6 DEF HeartsOf, LoneRows
    <3> QED
      BY <2>1, <2>2, <3>1, <1>9, FS_EmptySet
  <2>3. CASE k \in DOMAIN thread
    <3>1. thread[k].likes = Cardinality(HeartsOf(k))
      BY <1>1, <1>4, <1>6, <2>3, LikesSettled
    <3> QED
      BY <2>1, <2>3, <3>1, <1>5
  <2> QED
    BY <2>2, <2>3, <1>5
<1>13. LoneCall(c)'
  BY <1>3 DEF LoneCall
<1> QED
  BY <1>1, <1>4, <1>6, <1>11, <1>12, <1>13, LoneStep

(* A step that writes no row.                                              *)
LEMMA ReadingStaysLone ==
    ASSUME ThreadTypes, LoneInv, NEW r \in Requests, NEW c, Goes(r, c),
           UNCHANGED <<thread, hearts, commentsMixed>>,
           commentCalls[r] # Idle,
           commentCalls[r].at \in {"likes", "liked"} =>
              c.at \in {"likes", "liked"} /\ c.comment = commentCalls[r].comment,
           ~ commentsMixed => LoneCall(c)
    PROVE  LoneInv'
<1> SUFFICES ASSUME ~ commentsMixed PROVE LoneInv'
  BY DEF LoneInv
<1>1. OneCall /\ LoneRows
  BY DEF LoneInv
<1>2. LoneRows'
  BY <1>1 DEF LoneRows, RepliesOf
<1>3. LoneCall(c)'
  BY DEF LoneCall, MayReplyTo, RepliesOf, HeartsOf
<1>4. ASSUME NEW k \in DOMAIN thread', ~ IsLiking(c, k)
      PROVE  thread'[k].likes = Cardinality(HeartsOf(k)')
  <2>1. HeartsOf(k)' = HeartsOf(k)
    BY DEF HeartsOf
  <2>2. ASSUME NEW q \in Requests PROVE ~ IsLiking(commentCalls[q], k)
    <3>1. CASE q = r
      BY <3>1, <1>4 DEF IsLiking
    <3>2. CASE q # r
      BY <3>2, <1>1 DEF OneCall, IsLiking, Idle
    <3> QED
      BY <3>1, <3>2
  <2> QED
    BY <2>1, <2>2 DEF LoneInv
<1> QED
  BY <1>1, <1>2, <1>3, <1>4, LoneStep

LEMMA ReadsStayLone ==
    ASSUME ThreadTypes, LoneInv, NEW r \in Requests,
           CountRoots(r) \/ StoreCount(r) \/ FindReplies(r) \/ CountHearts(r)
    PROVE  LoneInv'
<1>1. PICK d : d = commentCalls[r]
  OBVIOUS
<1>2. CASE CountRoots(r)
  <2>1. PICK c : c = [at |-> "store", listing |-> d.listing,
                      n |-> Cardinality(Roots(d.listing))]
    OBVIOUS
  <2>2. /\ d.at = "count" /\ Goes(r, c) /\ UNCHANGED <<thread, hearts, commentsMixed>>
    BY <1>1, <1>2, <2>1 DEF CountRoots, Ghosts
  <2>3. LoneCall(c) /\ d # Idle
    BY <2>1, <2>2 DEF LoneCall, Idle
  <2> QED
    BY <1>1, <2>2, <2>3, ReadingStaysLone
<1>3. CASE StoreCount(r)
  <2>1. /\ d.at = "store" /\ Goes(r, Idle) /\ UNCHANGED <<thread, hearts, commentsMixed>>
    BY <1>1, <1>3 DEF StoreCount, Ghosts
  <2>2. LoneCall(Idle) /\ d # Idle
    BY <2>1 DEF LoneCall, Idle
  <2> QED
    BY <1>1, <2>1, <2>2, ReadingStaysLone
<1>4. CASE FindReplies(r)
  <2>1. PICK c : c = [at |-> "delete", listing |-> d.listing, parent |-> d.parent,
                      ids |-> {d.comment} \cup
                        (IF d.parent = None THEN RepliesOf(d.comment) ELSE {})]
    OBVIOUS
  <2>2. /\ d.at = "replies" /\ Goes(r, c) /\ UNCHANGED <<thread, hearts, commentsMixed>>
    BY <1>1, <1>4, <2>1 DEF FindReplies, Ghosts
  <2>3. ~ commentsMixed => LoneCall(c)
    <3> SUFFICES ASSUME ~ commentsMixed PROVE LoneCall(c)
      OBVIOUS
    <3>1. LoneCall(d)
      BY <1>1 DEF LoneInv
    <3>2. d.comment \in DOMAIN thread /\ d.parent = thread[d.comment].parent
      BY <2>2, <3>1 DEF LoneCall
    <3> QED
      BY <2>1, <3>2 DEF LoneCall
  <2>4. d # Idle
    BY <2>2 DEF Idle
  <2> QED
    BY <1>1, <2>2, <2>3, <2>4, ReadingStaysLone
<1>5. CASE CountHearts(r)
  <2>1. PICK c : c = [at |-> "liked", comment |-> d.comment,
                      n |-> Cardinality(HeartsOf(d.comment))]
    OBVIOUS
  <2>2. /\ d.at = "likes" /\ Goes(r, c) /\ UNCHANGED <<thread, hearts, commentsMixed>>
    BY <1>1, <1>5, <2>1 DEF CountHearts, Ghosts
  <2>3. LoneCall(c) /\ d # Idle /\ c.at = "liked" /\ c.comment = d.comment
    BY <2>1, <2>2 DEF LoneCall, Idle
  <2> QED
    BY <1>1, <2>2, <2>3, ReadingStaysLone
<1> QED
  BY <1>2, <1>3, <1>4, <1>5

LEMMA DeleteStaysLone ==
    ASSUME ThreadTypes, LoneInv, NEW r \in Requests, DeleteComments(r)
    PROVE  LoneInv'
<1>1. PICK d : d = commentCalls[r]
  OBVIOUS
<1>2. PICK c : c = [at |-> "count", listing |-> d.listing]
  OBVIOUS
<1>3. /\ d.at = "delete" /\ Goes(r, c) /\ commentsMixed' = commentsMixed
      /\ hearts' = {h \in hearts : h[1] \notin d.ids}
  BY <1>1, <1>2 DEF DeleteComments, Ghosts
<1> SUFFICES ASSUME ~ commentsMixed PROVE LoneInv'
  BY <1>3 DEF LoneInv
<1>4. /\ DOMAIN thread' = DOMAIN thread \ d.ids
      /\ \A k \in DOMAIN thread \ d.ids :
            /\ thread'[k] \in CommentRows
            /\ thread'[k].listing = thread[k].listing
            /\ thread'[k].parent = thread[k].parent
            /\ thread'[k].likes = thread[k].likes
            /\ thread'[k].replies = thread[k].replies + (IF k = d.parent THEN -1 ELSE 0)
  BY <1>1, DeleteDoes
<1>5. OneCall /\ LoneRows /\ LoneCall(d) /\ d # Idle
  BY <1>1, <1>3 DEF LoneInv, Idle
<1>6. PICK x \in DOMAIN thread :
        /\ d.parent = thread[x].parent
        /\ d.ids = {x} \cup (IF d.parent = None THEN RepliesOf(x) ELSE {})
  BY <1>3, <1>5 DEF LoneCall
<1>7. None \notin DOMAIN thread
  BY CommentsAssumption DEF ThreadTypes
<1>8. ASSUME NEW k \in DOMAIN thread'
      PROVE  thread'[k].replies = Cardinality(RepliesOf(k)')
  <2>0. /\ k \in DOMAIN thread /\ k \notin d.ids /\ k # x /\ k # None
        /\ thread[k].replies \in Int /\ thread[k].replies = Cardinality(RepliesOf(k))
    BY <1>4, <1>5, <1>6, <1>7 DEF ThreadTypes, CommentRows, LoneRows
  <2>1. RepliesOf(k)' = RepliesOf(k) \ d.ids
    BY <1>4 DEF RepliesOf
  <2>2. CASE k # d.parent
    <3>1. RepliesOf(k) \cap d.ids = {}
      BY <1>6, <2>0, <2>2 DEF RepliesOf
    <3>2. RepliesOf(k)' = RepliesOf(k)
      BY <2>1, <3>1
    <3> QED
      BY <1>4, <2>0, <2>2, <3>2
  <2>3. CASE k = d.parent
    <3>1. d.ids = {x} /\ x \in RepliesOf(k)
      BY <1>6, <2>0, <2>3 DEF RepliesOf
    <3>2. RepliesOf(k)' = RepliesOf(k) \ {x}
      BY <2>1, <3>1
    <3>3. RepliesOf(k) \subseteq DOMAIN thread
      BY DEF RepliesOf
    <3>4. IsFiniteSet(RepliesOf(k)) /\ Cardinality(RepliesOf(k)) \in Nat
      BY <3>3, CommentsFinite
    <3>5. Cardinality(RepliesOf(k)') = Cardinality(RepliesOf(k)) - 1
      BY <3>1, <3>2, <3>4, FS_RemoveElement
    <3> QED
      BY <1>4, <2>0, <2>3, <3>4, <3>5
  <2> QED
    BY <2>2, <2>3
<1>9. LoneRows'
  <2>1. ASSUME NEW k \in DOMAIN thread'
        PROVE  \/ thread'[k].parent = None
               \/ /\ thread'[k].parent \in DOMAIN thread'
                  /\ thread'[thread'[k].parent].parent = None
    <3> SUFFICES ASSUME thread[k].parent # None
                 PROVE  /\ thread[k].parent \in DOMAIN thread'
                        /\ thread'[thread[k].parent].parent = None
      BY <1>4
    <3>1. /\ thread[k].parent \in DOMAIN thread
          /\ thread[thread[k].parent].parent = None
      BY <1>4, <1>5 DEF LoneRows
    <3>2. thread[k].parent \notin d.ids
      <4>1. CASE d.parent = None
        <5>1. k \notin RepliesOf(x)
          BY <1>4, <1>6, <4>1
        <5>2. thread[k].parent # x
          BY <1>4, <5>1 DEF RepliesOf
        <5>3. thread[k].parent \notin RepliesOf(x)
          BY <3>1, <1>7 DEF RepliesOf
        <5> QED
          BY <1>6, <5>2, <5>3
      <4>2. CASE d.parent # None
        BY <1>6, <3>1, <4>2
      <4> QED
        BY <4>1, <4>2
    <3> QED
      BY <1>4, <3>1, <3>2
  <2>2. \A h \in hearts' : h[1] \in DOMAIN thread'
    BY <1>3, <1>4, <1>5 DEF LoneRows
  <2> QED
    BY <1>8, <2>1, <2>2 DEF LoneRows
<1>10. ASSUME NEW k \in DOMAIN thread'
       PROVE  thread'[k].likes = Cardinality(HeartsOf(k)')
  <2>1. HeartsOf(k)' = HeartsOf(k)
    BY <1>3, <1>4 DEF HeartsOf
  <2>2. thread[k].likes = Cardinality(HeartsOf(k))
    BY <1>1, <1>3, <1>4, <1>5, LikesSettled
  <2> QED
    BY <1>4, <2>1, <2>2
<1>11. LoneCall(c)'
  BY <1>2 DEF LoneCall
<1> QED
  BY <1>1, <1>3, <1>5, <1>9, <1>10, <1>11, LoneStep

LEMMA WriteHeartStaysLone ==
    ASSUME ThreadTypes, LoneInv, NEW r \in Requests, WriteHeart(r)
    PROVE  LoneInv'
<1>1. PICK d : d = commentCalls[r]
  OBVIOUS
<1>2. /\ d.at = "heart" /\ UNCHANGED <<thread, commentsMixed>>
      /\ hearts' = IF d.liked THEN hearts \cup {<<d.comment, d.user>>}
                              ELSE hearts \ {<<d.comment, d.user>>}
  BY <1>1 DEF WriteHeart, Ghosts
<1> SUFFICES ASSUME ~ commentsMixed PROVE LoneInv'
  BY <1>2 DEF LoneInv
<1>3. OneCall /\ LoneRows /\ LoneCall(d) /\ d # Idle
  BY <1>1, <1>2 DEF LoneInv, Idle
<1>4. d.comment \in DOMAIN thread
  BY <1>2, <1>3 DEF LoneCall
<1>5. PICK c : /\ c = IF hearts' # hearts THEN [at |-> "likes", comment |-> d.comment]
                                         ELSE Idle
               /\ Goes(r, c)
  BY <1>1 DEF WriteHeart
<1>6. LoneRows'
  <2>1. \A h \in hearts' : h[1] \in DOMAIN thread
    BY <1>2, <1>3, <1>4 DEF LoneRows
  <2> QED
    BY <1>2, <1>3, <2>1 DEF LoneRows, RepliesOf
<1>7. ASSUME NEW k \in DOMAIN thread', ~ IsLiking(c, k)
      PROVE  thread'[k].likes = Cardinality(HeartsOf(k)')
  <2>1. thread[k].likes = Cardinality(HeartsOf(k))
    BY <1>1, <1>2, <1>3, LikesSettled
  <2>2. HeartsOf(k)' = HeartsOf(k)
    <3>1. CASE hearts' = hearts
      BY <3>1 DEF HeartsOf
    <3>2. CASE hearts' # hearts
      <4>1. k # d.comment
        BY <1>5, <1>7, <3>2 DEF IsLiking
      <4> QED
        BY <1>2, <4>1 DEF HeartsOf
    <3> QED
      BY <3>1, <3>2
  <2> QED
    BY <1>2, <2>1, <2>2
<1>8. LoneCall(c)'
  BY <1>5 DEF LoneCall, Idle
<1> QED
  BY <1>1, <1>3, <1>5, <1>6, <1>7, <1>8, LoneStep

LEMMA StoreHeartsStaysLone ==
    ASSUME ThreadTypes, LoneInv, NEW r \in Requests, StoreHearts(r)
    PROVE  LoneInv'
<1>1. PICK d : d = commentCalls[r]
  OBVIOUS
<1>2. d.at = "liked" /\ Goes(r, Idle) /\ UNCHANGED <<hearts, commentsMixed>>
  BY <1>1 DEF StoreHearts, Ghosts
<1> SUFFICES ASSUME ~ commentsMixed PROVE LoneInv'
  BY <1>2 DEF LoneInv
<1>3. OneCall /\ LoneRows /\ LoneCall(d) /\ d # Idle
  BY <1>1, <1>2 DEF LoneInv, Idle
<1>4. d.n = Cardinality(HeartsOf(d.comment))
  BY <1>2, <1>3 DEF LoneCall
<1>5. /\ DOMAIN thread' = DOMAIN thread
      /\ \A k \in DOMAIN thread :
            /\ thread'[k].parent = thread[k].parent
            /\ thread'[k].replies = thread[k].replies
            /\ thread'[k].likes = IF k = d.comment THEN d.n ELSE thread[k].likes
  BY <1>1, StoreHeartsDoes
<1>6. LoneRows'
  <2>1. ASSUME NEW k PROVE RepliesOf(k)' = RepliesOf(k)
    BY <1>5 DEF RepliesOf
  <2> QED
    BY <1>2, <1>3, <1>5, <2>1 DEF LoneRows
<1>7. ASSUME NEW k \in DOMAIN thread'
      PROVE  thread'[k].likes = Cardinality(HeartsOf(k)')
  <2>1. HeartsOf(k)' = HeartsOf(k)
    BY <1>2 DEF HeartsOf
  <2>2. CASE k = d.comment
    BY <1>4, <1>5, <2>1, <2>2
  <2>3. CASE k # d.comment
    <3>1. \A q \in Requests : ~ IsLiking(commentCalls[q], k)
      BY <1>1, <1>3, <2>3 DEF OneCall, IsLiking, Idle
    <3> QED
      BY <1>5, <2>1, <2>3, <3>1 DEF LoneInv
  <2> QED
    BY <2>2, <2>3
<1>8. LoneCall(Idle)'
  BY DEF LoneCall, Idle
<1> QED
  BY <1>1, <1>2, <1>3, <1>6, <1>7, <1>8, LoneStep

-----------------------------------------------------------------------------
(* What the pages hold.                                                    *)

LEMMA PagesHoldRoots ==
    ASSUME ThreadTypes, NEW l
    PROVE  Page(l, 1, 0) \cup Page(l, MaxComments, 1) = Roots(l)
<1>1. ASSUME NEW k \in Roots(l)
      PROVE  Newer(l, k) \in Nat /\ Newer(l, k) <= MaxComments
  <2>1. {j \in Roots(l) : j > k} \subseteq DOMAIN thread
    BY DEF Roots
  <2> QED
    BY <2>1, CommentsFinite DEF Newer
<1>2. ASSUME NEW k \in Roots(l)
      PROVE  \/ 0 <= Newer(l, k) /\ Newer(l, k) < 0 + 1
             \/ 1 <= Newer(l, k) /\ Newer(l, k) < 1 + MaxComments
  BY <1>1, CommentsAssumption
<1> QED
  BY <1>2 DEF Page

LEMMA PagesHoldReplies ==
    ASSUME ThreadTypes, NEW c
    PROVE  ReplyPage(c, 1, 0) \cup ReplyPage(c, MaxComments, 1) = RepliesOf(c)
<1>1. ASSUME NEW k \in RepliesOf(c)
      PROVE  Older(c, k) \in Nat /\ Older(c, k) <= MaxComments
  <2>1. {j \in RepliesOf(c) : j < k} \subseteq DOMAIN thread
    BY DEF RepliesOf
  <2> QED
    BY <2>1, CommentsFinite DEF Older
<1>2. ASSUME NEW k \in RepliesOf(c)
      PROVE  \/ 0 <= Older(c, k) /\ Older(c, k) < 0 + 1
             \/ 1 <= Older(c, k) /\ Older(c, k) < 1 + MaxComments
  BY <1>1, CommentsAssumption
<1> QED
  BY <1>2 DEF ReplyPage

(* One like a person and comment: as many comments as likes.               *)
LEMMA LikesAreComments ==
    ASSUME ThreadTypes, LoneRows, NEW u \in Likers
    PROVE  Cardinality(LikesOf(u)) = Cardinality(LikedComments(u))
<1>1. PICK f : f = [h \in LikesOf(u) |-> h[1]]
  OBVIOUS
<1>2. ASSUME NEW h \in LikesOf(u)
      PROVE  h = <<h[1], u>> /\ h[1] \in LikedComments(u)
  BY DEF LikesOf, LikedComments, ThreadTypes, LoneRows
<1>3. f \in Bijection(LikesOf(u), LikedComments(u))
  <2>1. f \in [LikesOf(u) -> LikedComments(u)]
    BY <1>1, <1>2
  <2>2. \A g, h \in LikesOf(u) : f[g] = f[h] => g = h
    BY <1>1, <1>2
  <2>3. \A k \in LikedComments(u) : \E h \in LikesOf(u) : f[h] = k
    BY <1>1 DEF LikedComments
  <2> QED
    BY <2>1, <2>2, <2>3 DEF Bijection, Injection, Surjection, IsInjective
<1>4. IsFiniteSet(LikesOf(u))
  <2>1. LikesOf(u) \subseteq hearts
    BY DEF LikesOf
  <2> QED
    BY <2>1, CommentsFinite, FS_Subset
<1> QED
  BY <1>3, <1>4, FS_Bijection DEF ExistsBijection

ThreadInv == CardInv /\ LoneInv

LEMMA ThreadStarts == CommentsInit => ThreadInv
<1> SUFFICES ASSUME CommentsInit PROVE ThreadInv
  OBVIOUS
<1>1. thread = [k \in {} |-> None] /\ DOMAIN thread = {}
  BY DEF CommentsInit
<1>2. ThreadTypes
  <2>1. \A w : Idle \in CommentCallsUpTo(w)
    BY DEF CommentCallsUpTo
  <2>2. commentCalls \in [Requests -> CommentCallsUpTo(written)]
    BY <2>1 DEF CommentsInit
  <2>3. written \in 0 .. MaxComments /\ hearts \subseteq CommentIds \X Likers
    BY CommentsAssumption DEF CommentsInit
  <2> QED
    BY <1>1, <2>2, <2>3 DEF CommentsInit, ThreadTypes
<1>3. \A q \in Requests : commentCalls[q] = Idle
  BY DEF CommentsInit
<1>4. ASSUME NEW l \in Listings PROVE CardRight(l)
  <2>1. Roots(l) = {}
    BY <1>1 DEF Roots
  <2>2. commentCount[l] = Cardinality(Roots(l))
    BY <2>1, FS_EmptySet DEF CommentsInit
  <2> QED
    BY <1>3, <2>2 DEF CardRight, IsMoving, Idle
<1>5. CardInv
  BY <1>2, <1>3, <1>4 DEF CardInv, RootOfListing, Idle
<1>6. LoneInv
  BY <1>1, <1>3 DEF LoneInv, OneCall, LoneRows, LoneCall, Idle, CommentsInit
<1> QED
  BY <1>5, <1>6 DEF ThreadInv

LEMMA ThreadStays == ThreadInv /\ [CommentsNext]_commentsVars => ThreadInv'
<1> SUFFICES ASSUME ThreadInv, [CommentsNext]_commentsVars PROVE ThreadInv'
  OBVIOUS
<1>0. CardInv /\ LoneInv /\ ThreadTypes
  BY DEF ThreadInv, CardInv
<1>1. ASSUME NEW r \in Requests, NEW l \in Listings, NEW u \in Users,
             NEW p \in DOMAIN thread \cup {None}, AskPost(r, l, u, p)
      PROVE  ThreadInv'
  BY <1>0, <1>1, PostAsks, AsksStayLone DEF ThreadInv
<1>2. ASSUME NEW r \in Requests, NEW k \in DOMAIN thread, NEW u \in Users,
             AskRemove(r, k, u)
      PROVE  ThreadInv'
  BY <1>0, <1>2, RemoveAsks, AsksStayLone DEF ThreadInv
<1>3. ASSUME NEW r \in Requests, NEW k \in DOMAIN thread, NEW u \in Likers,
             NEW b \in BOOLEAN, AskHeart(r, k, u, b)
      PROVE  ThreadInv'
  BY <1>0, <1>3, HeartAsks, AsksStayLone DEF ThreadInv
<1>4. ASSUME NEW r \in Requests, InsertComment(r) PROVE ThreadInv'
  BY <1>0, <1>4, PostInserts, InsertStaysLone DEF ThreadInv
<1>5. ASSUME NEW r \in Requests, CountRoots(r) PROVE ThreadInv'
  BY <1>0, <1>5, CardCounts, ReadsStayLone DEF ThreadInv
<1>6. ASSUME NEW r \in Requests, StoreCount(r) PROVE ThreadInv'
  BY <1>0, <1>6, CardStores, ReadsStayLone DEF ThreadInv
<1>7. ASSUME NEW r \in Requests, FindReplies(r) PROVE ThreadInv'
  BY <1>0, <1>7, RepliesFound, ReadsStayLone DEF ThreadInv
<1>8. ASSUME NEW r \in Requests, DeleteComments(r) PROVE ThreadInv'
  BY <1>0, <1>8, CommentsGo, DeleteStaysLone DEF ThreadInv
<1>9. ASSUME NEW r \in Requests, WriteHeart(r) PROVE ThreadInv'
  BY <1>0, <1>9, HeartsMove, WriteHeartStaysLone DEF ThreadInv
<1>10. ASSUME NEW r \in Requests, CountHearts(r) PROVE ThreadInv'
  BY <1>0, <1>10, HeartsMove, ReadsStayLone DEF ThreadInv
<1>11. ASSUME NEW r \in Requests, StoreHearts(r) PROVE ThreadInv'
  BY <1>0, <1>11, HeartsMove, StoreHeartsStaysLone DEF ThreadInv
<1>12. CASE UNCHANGED commentsVars
  <2>1. UNCHANGED <<thread, written, hearts, commentCount, commentCalls,
                    commentsAlone, commentsMixed>>
    BY <1>12 DEF commentsVars
  <2>2. ThreadTypes'
    BY <1>0, <2>1 DEF ThreadTypes, CommentCallsUpTo, CommentRows, Idle
  <2>3. ASSUME NEW l PROVE Roots(l)' = Roots(l)
    BY <2>1 DEF Roots
  <2>4. ASSUME NEW l \in Listings PROVE CardRight(l)'
    BY <1>0, <2>1, <2>3 DEF CardInv, CardRight, IsMoving
  <2>5. CardInv'
    BY <1>0, <2>1, <2>2, <2>4 DEF CardInv, RootOfListing
  <2>6. LoneInv'
    BY <1>0, <2>1 DEF LoneInv, OneCall, LoneRows, LoneCall, IsLiking, RepliesOf,
       HeartsOf, MayReplyTo
  <2> QED
    BY <2>5, <2>6 DEF ThreadInv
<1> QED
  BY <1>1, <1>2, <1>3, <1>4, <1>5, <1>6, <1>7, <1>8, <1>9, <1>10, <1>11, <1>12
     DEF CommentsNext

LEMMA ThreadShows == ThreadInv => CardMatchesThread /\ CommentsTypeOK
<1> SUFFICES ASSUME ThreadInv PROVE CardMatchesThread /\ CommentsTypeOK
  OBVIOUS
<1>0. CardInv /\ LoneInv /\ ThreadTypes
  BY DEF ThreadInv, CardInv
<1>1. CommentsTypeOK
  BY <1>0 DEF ThreadTypes, CommentsTypeOK, CommentRows, CommentIds
<1>2. ASSUME Quiet(commentCalls), NEW l \in Listings, commentsAlone[l]
      PROVE  commentCount[l] = Cardinality(Page(l, 1, 0) \cup Page(l, MaxComments, 1))
  <2>1. \A q \in Requests : ~ IsMoving(commentCalls[q], l)
    BY <1>2 DEF Quiet, IsMoving, Idle
  <2>2. commentCount[l] = Cardinality(Roots(l))
    BY <1>0, <1>2, <2>1 DEF CardInv, CardRight
  <2> QED
    BY <1>0, <2>2, PagesHoldRoots
<1>3. ASSUME Quiet(commentCalls), ~ commentsMixed, NEW k \in DOMAIN thread
      PROVE  /\ thread[k].likes = Cardinality(HeartsOf(k))
             /\ thread[k].replies = Cardinality(ReplyPage(k, 1, 0) \cup
                                                ReplyPage(k, MaxComments, 1))
             /\ thread[k].parent \in DOMAIN thread \cup {None}
  <2>1. \A q \in Requests : ~ IsLiking(commentCalls[q], k)
    BY <1>3 DEF Quiet, IsLiking, Idle
  <2>2. thread[k].likes = Cardinality(HeartsOf(k))
    BY <1>0, <1>3, <2>1 DEF LoneInv
  <2>3. /\ thread[k].replies = Cardinality(RepliesOf(k))
        /\ thread[k].parent \in DOMAIN thread \cup {None}
    BY <1>0, <1>3 DEF LoneInv, LoneRows
  <2> QED
    BY <1>0, <2>2, <2>3, PagesHoldReplies
<1>4. ASSUME ~ commentsMixed, NEW u \in Likers
      PROVE  Cardinality(LikesOf(u)) = Cardinality(LikedComments(u))
  BY <1>0, <1>4, LikesAreComments DEF LoneInv
<1> QED
  BY <1>1, <1>2, <1>3, <1>4 DEF CardMatchesThread

(* The number on each listing's card is the number of roots its pages hold *)
(* once nothing is in flight, if the last post or removal there ran alone, *)
(* for any listings and people; likes, replies and lists of likes are      *)
(* right as long as no two requests have overlapped.                       *)
THEOREM CardsMatchThreads == CommentsSpec => [](CardMatchesThread /\ CommentsTypeOK)
BY ThreadStarts, ThreadStays, ThreadShows, PTL DEF CommentsSpec

(***************************************************************************)
(* The view counter (ListingViews)                                         *)
(***************************************************************************)
ViewerKeys == {Member(u) : u \in Users} \cup {Guest(d) : d \in Phones}

ViewCallType ==
    {Idle}
    \cup [at : {"guest"}, device : Phones, key : ViewerKeys]
    \cup [at : {"insert"}, key : ViewerKeys]
    \cup [at : {"count"}]
    \cup [at : {"store"}, n : Nat]

(* While the last opening has the listing for itself, whatever is in       *)
(* flight is that opening, it has counted what is there, and what it has   *)
(* stored stands.                                                          *)
ViewsExact ==
    viewsAlone /\ ~viewsCut =>
        /\ \A r, s \in Requests : viewCalls[r] # Idle /\ viewCalls[s] # Idle => r = s
        /\ Quiet(viewCalls) => viewCount = Cardinality(viewers)
        /\ \A r \in Requests :
              viewCalls[r].at = "store" => viewCalls[r].n = Cardinality(viewers)

ViewsInv ==
    /\ ViewsTypeOK /\ IsFiniteSet(viewers)
    /\ viewCalls \in [Requests -> ViewCallType]
    /\ ViewsExact

LEMMA ViewFields ==
    ASSUME NEW c \in ViewCallType
    PROVE  /\ c.at = "guest" => c.device \in Phones /\ c.key \in ViewerKeys
           /\ c.at = "insert" => c.key \in ViewerKeys
           /\ c.at = "store" => c.n \in Nat
           /\ c.at \in {"guest", "insert", "count", "store"} => c # Idle
BY DEF ViewCallType, Idle

LEMMA ViewsInitInv == ViewsInit => ViewsInv
BY ViewsAssumption, FS_EmptySet DEF ViewsInit, ViewsInv, ViewsTypeOK, ViewsExact, ViewCallType, Idle

LEMMA OpenListingInv ==
    ASSUME ViewsInv, NEW r \in Requests, NEW u \in Users \cup {None},
           NEW d \in Phones \cup {None}, OpenListing(r, u, d)
    PROVE  ViewsInv'
<1>1. PICK call \in ViewCallType \ {Idle} :
        viewCalls' = [viewCalls EXCEPT ![r] = call] /\ call.at # "store"
  <2>1. CASE u # None /\ d # None
    <3> DEFINE call == [at |-> "guest", device |-> d, key |-> Member(u)]
    <3>1. call \in ViewCallType /\ call # Idle /\ call.at # "store"
      BY <2>1 DEF ViewCallType, ViewerKeys, Idle
    <3> HIDE DEF call
    <3> QED
      BY <2>1, <3>1 DEF OpenListing, ViewGoes, call
  <2>2. CASE ~(u # None /\ d # None)
    <3>1. PICK key : key = IF u # None THEN Member(u) ELSE Guest(d)
      OBVIOUS
    <3>2. key \in ViewerKeys
      BY <2>2, <3>1 DEF OpenListing, ViewerKeys
    <3> DEFINE call == [at |-> "insert", key |-> key]
    <3>3. call \in ViewCallType /\ call # Idle /\ call.at # "store"
      BY <3>2 DEF ViewCallType, Idle
    <3> HIDE DEF call
    <3>4. viewCalls' = [viewCalls EXCEPT ![r] = call]
      BY <2>2, <3>1 DEF OpenListing, ViewGoes, call
    <3> QED
      BY <3>3, <3>4
  <2> QED
    BY <2>1, <2>2
<1>2. /\ viewCalls \in [Requests -> ViewCallType] /\ viewCalls[r] = Idle
      /\ viewsAlone' = Alone(viewCalls, r) /\ UNCHANGED <<viewers, viewCount>>
  BY DEF ViewsInv, OpenListing
<1>5. opens' \in 0 .. MaxOpens
  BY ViewsAssumption DEF ViewsInv, ViewsTypeOK, OpenListing
<1>3. ViewsTypeOK' /\ IsFiniteSet(viewers)'
  BY <1>2, <1>5 DEF ViewsInv, ViewsTypeOK
<1>4. ViewsExact'
  <2>1. CASE Alone(viewCalls, r)
    <3>1. /\ viewCalls'[r] = call /\ call # Idle
          /\ \A s \in Requests : s # r => viewCalls'[s] = Idle
      BY <1>1, <1>2, <2>1 DEF Alone
    <3> QED
      BY <1>1, <3>1 DEF ViewsExact, Quiet, Idle
  <2>2. CASE ~Alone(viewCalls, r)
    BY <1>2, <2>2 DEF ViewsExact
  <2> QED
    BY <2>1, <2>2
<1> QED
  BY <1>1, <1>2, <1>3, <1>4 DEF ViewsInv

(* A step of the one opening in flight.                                    *)
LEMMA ViewStepInv ==
    ASSUME ViewsInv, NEW r \in Requests, NEW call \in ViewCallType,
           viewCalls[r] # Idle, viewCalls' = [viewCalls EXCEPT ![r] = call],
           UNCHANGED <<opens, viewsAlone, viewsCut>>,
           viewers' \subseteq ViewerKeys, IsFiniteSet(viewers'), viewCount' \in Nat,
           call = Idle /\ viewsAlone /\ ~viewsCut => viewCount' = Cardinality(viewers'),
           call.at = "store" => call.n = Cardinality(viewers')
    PROVE  ViewsInv'
<1>1. viewCalls \in [Requests -> ViewCallType] /\ opens \in 0 .. MaxOpens
  BY DEF ViewsInv, ViewsTypeOK
<1>2. ViewsTypeOK' /\ viewCalls' \in [Requests -> ViewCallType]
  BY <1>1 DEF ViewsTypeOK, ViewerKeys
<1>3. ASSUME viewsAlone, ~viewsCut
      PROVE  /\ \A s, t \in Requests : viewCalls'[s] # Idle /\ viewCalls'[t] # Idle => s = t
             /\ Quiet(viewCalls') => viewCount' = Cardinality(viewers')
             /\ \A s \in Requests :
                   viewCalls'[s].at = "store" => viewCalls'[s].n = Cardinality(viewers')
  <2>1. \A s \in Requests : s # r => viewCalls[s] = Idle
    BY <1>3 DEF ViewsInv, ViewsExact
  <2>2. viewCalls'[r] = call /\ \A s \in Requests : s # r => viewCalls'[s] = Idle
    BY <1>1, <2>1
  <2>3. Quiet(viewCalls') => call = Idle
    BY <2>2 DEF Quiet
  <2> QED
    BY <1>3, <2>2, <2>3 DEF Idle
<1> QED
  BY <1>2, <1>3 DEF ViewsInv, ViewsExact

LEMMA ViewsNextInv == ViewsInv /\ [ViewsNext]_viewVars => ViewsInv'
<1> SUFFICES ASSUME ViewsInv, [ViewsNext]_viewVars PROVE ViewsInv'
  OBVIOUS
<1>0. /\ viewCalls \in [Requests -> ViewCallType] /\ viewers \subseteq ViewerKeys
      /\ IsFiniteSet(viewers) /\ viewCount \in Nat
  BY DEF ViewsInv, ViewsTypeOK, ViewerKeys
<1>1. ASSUME NEW r \in Requests, NEW u \in Users \cup {None}, NEW d \in Phones \cup {None},
             OpenListing(r, u, d)
      PROVE  ViewsInv'
  BY <1>1, OpenListingInv
<1>2. ASSUME NEW r \in Requests, DropGuest(r) PROVE ViewsInv'
  <2>1. PICK call : call = [at |-> "insert", key |-> viewCalls[r].key]
    OBVIOUS
  <2>2. PICK S : S = viewers \ {Guest(viewCalls[r].device)}
    OBVIOUS
  <2>3. viewCalls[r].at = "guest" /\ viewCalls[r] # Idle /\ viewCalls[r].key \in ViewerKeys
    BY <1>0, <1>2, ViewFields DEF DropGuest
  <2>4. call \in ViewCallType /\ call # Idle /\ call.at = "insert"
    BY <2>1, <2>3 DEF ViewCallType, Idle
  <2>5. S \subseteq ViewerKeys /\ IsFiniteSet(S)
    BY <1>0, <2>2, FS_Subset
  <2>6. /\ viewers' = S /\ viewCalls' = [viewCalls EXCEPT ![r] = call]
        /\ UNCHANGED <<viewCount, opens, viewsAlone, viewsCut>>
    BY <1>2, <2>1, <2>2 DEF DropGuest, ViewGoes, ViewGhosts
  <2> QED
    BY <1>0, <2>3, <2>4, <2>5, <2>6, ViewStepInv
<1>3. ASSUME NEW r \in Requests, InsertViewer(r) PROVE ViewsInv'
  <2>1. PICK call : call = [at |-> "count"]
    OBVIOUS
  <2>2. PICK S : S = viewers \cup {viewCalls[r].key}
    OBVIOUS
  <2>3. viewCalls[r].at = "insert" /\ viewCalls[r] # Idle /\ viewCalls[r].key \in ViewerKeys
    BY <1>0, <1>3, ViewFields DEF InsertViewer
  <2>4. call \in ViewCallType /\ call # Idle /\ call.at = "count"
    BY <2>1 DEF ViewCallType, Idle
  <2>5. S \subseteq ViewerKeys /\ IsFiniteSet(S)
    BY <1>0, <2>2, <2>3, FS_AddElement
  <2>6. /\ viewers' = S /\ viewCalls' = [viewCalls EXCEPT ![r] = call]
        /\ UNCHANGED <<viewCount, opens, viewsAlone, viewsCut>>
    BY <1>3, <2>1, <2>2 DEF InsertViewer, ViewGoes, ViewGhosts
  <2> QED
    BY <1>0, <2>3, <2>4, <2>5, <2>6, ViewStepInv
<1>4. ASSUME NEW r \in Requests, CountViewers(r) PROVE ViewsInv'
  <2>1. PICK n : n = Cardinality(viewers)
    OBVIOUS
  <2>2. PICK call : call = [at |-> "store", n |-> n]
    OBVIOUS
  <2>3. viewCalls[r].at = "count" /\ viewCalls[r] # Idle
    BY <1>0, <1>4, ViewFields DEF CountViewers
  <2>4. n \in Nat /\ call \in ViewCallType /\ call # Idle /\ call.n = n
    BY <1>0, <2>1, <2>2, FS_CardinalityType DEF ViewCallType, Idle
  <2>5. /\ viewCalls' = [viewCalls EXCEPT ![r] = call]
        /\ UNCHANGED <<viewers, viewCount, opens, viewsAlone, viewsCut>>
    BY <1>4, <2>1, <2>2 DEF CountViewers, ViewGoes, ViewGhosts
  <2> QED
    BY <1>0, <2>1, <2>3, <2>4, <2>5, ViewStepInv
<1>5. ASSUME NEW r \in Requests, StoreViewers(r) PROVE ViewsInv'
  <2>1. PICK n : n = viewCalls[r].n
    OBVIOUS
  <2>2. viewCalls[r].at = "store" /\ viewCalls[r] # Idle /\ n \in Nat
    BY <1>0, <1>5, <2>1, ViewFields DEF StoreViewers
  <2>3. Idle \in ViewCallType /\ Idle.at = "idle"
    BY DEF ViewCallType, Idle
  <2>4. viewsAlone /\ ~viewsCut => n = Cardinality(viewers)
    BY <2>1, <2>2 DEF ViewsInv, ViewsExact
  <2>5. /\ viewCalls' = [viewCalls EXCEPT ![r] = Idle] /\ viewCount' = n
        /\ UNCHANGED <<viewers, opens, viewsAlone, viewsCut>>
    BY <1>5, <2>1 DEF StoreViewers, ViewGoes, ViewGhosts
  <2> QED
    BY <1>0, <2>2, <2>3, <2>4, <2>5, ViewStepInv
<1>6. CASE ViewsRestart
  <2>1. viewCalls' \in [Requests -> ViewCallType]
    BY <1>6 DEF ViewsRestart, ViewCallType
  <2> QED
    BY <1>6, <2>1 DEF ViewsRestart, ViewsInv, ViewsTypeOK, ViewsExact
<1>7. CASE UNCHANGED viewVars
  BY <1>7 DEF viewVars, ViewsInv, ViewsTypeOK, ViewsExact
<1> QED
  BY <1>1, <1>2, <1>3, <1>4, <1>5, <1>6, <1>7 DEF ViewsNext

(* The number on a listing's card is how many people and devices opened    *)
(* it, whenever the last opening was neither overlapped nor cut off, for   *)
(* any people, devices and requests (views.service.ts:52-93).              *)
THEOREM ViewersAreCounted == ViewsSpec => [](ViewsArePeople /\ ViewsTypeOK)
<1>1. ViewsInv => ViewsArePeople /\ ViewsTypeOK
  BY DEF ViewsInv, ViewsExact, ViewsArePeople
<1> QED
  BY ViewsInitInv, ViewsNextInv, <1>1, PTL DEF ViewsSpec

(***************************************************************************)
(* The stars (Reputation)                                                  *)
(***************************************************************************)
(* Votes are weights, each of one to five stars.                           *)
IsVote(v) ==
    /\ v.weight \in Nat /\ v.weighted \in Nat
    /\ v.weight <= v.weighted /\ v.weighted <= 5 * v.weight

LEMMA MeanInRange ==
    ASSUME NEW w \in Nat, NEW x \in Nat, w > 0, w <= x, x <= 5 * w
    PROVE  (20 * x + w) \div (2 * w) \in 10 .. 50
<1> DEFINE q == (20 * x + w) \div (2 * w)
           r == (20 * x + w) % (2 * w)
           d == 2 * w
<1>1. /\ q \in Int /\ r \in Int /\ d \in Nat /\ d > 0
      /\ 20 * x + w = d * q + r /\ 0 <= r /\ r < d
  OBVIOUS
<1>2. 20 * x + w >= 10 * d /\ 20 * x + w < 51 * d
  OBVIOUS
<1> HIDE DEF q, r, d
<1>3. q >= 10
  <2> SUFFICES ASSUME q <= 9 PROVE FALSE
    BY <1>1
  <2>1. d * q <= d * 9
    BY <1>1
  <2> QED
    BY <1>1, <1>2, <2>1
<1>4. q <= 50
  <2> SUFFICES ASSUME q >= 51 PROVE FALSE
    BY <1>1
  <2>1. d * q >= d * 51
    BY <1>1
  <2> QED
    BY <1>1, <1>2, <2>1
<1> QED
  BY <1>1, <1>3, <1>4 DEF q

LEMMA PlusIsVote ==
    ASSUME NEW v, NEW w, IsVote(v), IsVote(w), NEW n, n = PlusVote(v, w)
    PROVE  IsVote(n) /\ n.weight = v.weight + w.weight
BY DEF IsVote, PlusVote

LEMMA StarsVote ==
    ASSUME NEW w \in Nat, NEW s \in 1 .. 5, NEW n, n = Vote(w, s)
    PROVE  IsVote(n) /\ n.weight = w
<1>1. n.weight = w /\ n.weighted = w * s
  BY DEF Vote
<1>2. w * s \in Nat /\ w <= w * s /\ w * s <= 5 * w
  OBVIOUS
<1> QED
  BY <1>1, <1>2 DEF IsVote

(* The stars of any votes are among the stars.                             *)
LEMMA ScoreInRange ==
    ASSUME NEW v, IsVote(v)
    PROVE  Score(v) \in 10 .. 50
<1>1. PICK p : p = Vote(PRIOR_WEIGHT, PRIOR)
  OBVIOUS
<1>2. IsVote(p) /\ p.weight = 12
  BY <1>1, StarsVote DEF PRIOR_WEIGHT, PRIOR, NewVote
<1>3. PICK all : all = PlusVote(v, p)
  OBVIOUS
<1>4. IsVote(all) /\ all.weight = v.weight + 12
  BY <1>2, <1>3, PlusIsVote
<1>5. (20 * all.weighted + all.weight) \div (2 * all.weight) \in 10 .. 50
  BY <1>4, MeanInRange DEF IsVote
<1> QED
  BY <1>1, <1>3, <1>5 DEF Score

LEMMA RatedInRange ==
    ASSUME NEW v, IsVote(v), NEW m \in Nat, NEW n \in Nat
    PROVE  Rated(v, m, n) \in 10 .. 50
<1>0. Monus(n, m) \in Nat
  BY DEF Monus
<1>1. PICK o \in Nat : o = Monus(n, m)
  BY <1>0
<1>2. PICK c \in Nat : c = IF o * REPORT_OWNER_WEIGHT > REPORT_OWNER_CAP
                           THEN REPORT_OWNER_CAP ELSE o * REPORT_OWNER_WEIGHT
  BY DEF REPORT_OWNER_WEIGHT, REPORT_OWNER_CAP, NewVote
<1>3. PICK a : a = Vote(m * REPORT_LISTING_WEIGHT, REPORT_STARS)
  OBVIOUS
<1>4. PICK b : b = Vote(c, REPORT_STARS)
  OBVIOUS
<1>5. IsVote(a) /\ IsVote(b)
  BY <1>3, <1>4, StarsVote DEF REPORT_LISTING_WEIGHT, REPORT_STARS
<1>6. PICK ab : ab = PlusVote(a, b)
  OBVIOUS
<1>7. PICK all : all = PlusVote(v, ab)
  OBVIOUS
<1>8. IsVote(all)
  BY <1>5, <1>6, <1>7, PlusIsVote
<1>9. Rated(v, m, n) = Score(all)
  BY <1>1, <1>2, <1>3, <1>4, <1>6, <1>7 DEF Rated
<1> QED
  BY <1>8, <1>9, ScoreInRange

-----------------------------------------------------------------------------
(* The inductive invariant.                                                *)

Tally == [votes : {v \in [weight : Nat, weighted : Nat] : IsVote(v)},
          count : 0 .. Cardinality(Users)]

(* A request awaits one of its statements, and has read something for each *)
(* of its listings.                                                        *)
RatingCall(c) ==
    \/ c = Idle
    \/ \E L \in SUBSET Adverts : \E v, m, n :
          /\ c = [at |-> "read", listings |-> L,
                  reviews |-> v, onListing |-> m, onSeller |-> n]
          /\ v = None \/ v \in [L -> Tally]
          /\ m = None \/ m \in [L -> Nat]
          /\ n = None \/ n \in Nat

ReviewTally(l) == [votes |-> ReviewWeight(l), count |-> Cardinality(ReviewsOf(l))]

(* What it has read of listing l is what stands.                           *)
UpToDate(c, l) ==
    c # Idle /\ l \in c.listings =>
      /\ c.reviews # None => c.reviews[l] = ReviewTally(l)
      /\ c.onListing # None => c.onListing[l] = Upheld(l)
      /\ c.onSeller # None => c.onSeller = UpheldOnSeller

RightOf(l) ==
    ratingAlone[l] =>
      /\ \A r, s \in Requests : ratingCalls[r] # Idle /\ ratingCalls[s] # Idle => r = s
      /\ (\A r \in Requests : ratingCalls[r] # Idle => l \notin ratingCalls[r].listings)
           => rating[l] = Deserved(l)
      /\ \A r \in Requests : UpToDate(ratingCalls[r], l)

RatingInv ==
    /\ RatingTypeOK
    /\ ratingAlone \in [Adverts -> BOOLEAN]
    /\ DOMAIN ratingCalls = Requests
    /\ ratingCalls = [r \in Requests |-> ratingCalls[r]]
    /\ \A r \in Requests : RatingCall(ratingCalls[r])
    /\ \A l \in Adverts : RightOf(l)

-----------------------------------------------------------------------------
(* What the three reads give.                                              *)

LEMMA BuyersFinite ==
    /\ Cardinality(Users) \in Nat
    /\ \A S \in SUBSET Buyers : /\ Cardinality(S) \in Nat
                                /\ Cardinality(S) <= Cardinality(Users)
<1>1. IsFiniteSet(Users) /\ Cardinality(Users) \in Nat
  BY RatingAssumption, FS_CardinalityType
<1>2. ASSUME NEW S \in SUBSET Buyers
      PROVE  Cardinality(S) \in Nat /\ Cardinality(S) <= Cardinality(Users)
  <2>1. S \subseteq Users
    BY DEF Buyers
  <2> QED
    BY <1>1, <2>1, FS_Subset, FS_CardinalityType
<1> QED
  BY <1>1, <1>2

LEMMA ReviewedAtNat == ASSUME NEW l, NEW s PROVE ReviewedAt(l, s) \in Nat
<1>1. {b \in Buyers : reviews[<<l, b>>] = s} \in SUBSET Buyers
  OBVIOUS
<1> QED
  BY <1>1, BuyersFinite DEF ReviewedAt

LEMMA TallyType == ASSUME NEW l PROVE ReviewTally(l) \in Tally
<1>1. PICK n1 \in Nat, n2 \in Nat, n3 \in Nat, n4 \in Nat, n5 \in Nat :
        /\ n1 = NewVote * ReviewedAt(l, 1) /\ n2 = NewVote * ReviewedAt(l, 2)
        /\ n3 = NewVote * ReviewedAt(l, 3) /\ n4 = NewVote * ReviewedAt(l, 4)
        /\ n5 = NewVote * ReviewedAt(l, 5)
  <2>1. ASSUME NEW s PROVE NewVote * ReviewedAt(l, s) \in Nat
    BY ReviewedAtNat DEF NewVote
  <2> QED
    BY <2>1
<1>2. PICK v : v = [weight |-> n1 + n2 + n3 + n4 + n5,
                    weighted |-> n1 + 2 * n2 + 3 * n3 + 4 * n4 + 5 * n5]
  OBVIOUS
<1>3. v = ReviewWeight(l)
  BY <1>1, <1>2 DEF ReviewWeight
<1>4. v \in [weight : Nat, weighted : Nat] /\ IsVote(v)
  BY <1>2 DEF IsVote
<1>5. Cardinality(ReviewsOf(l)) \in 0 .. Cardinality(Users)
  <2>1. ReviewsOf(l) \in SUBSET Buyers
    BY DEF ReviewsOf
  <2> QED
    BY <2>1, BuyersFinite
<1> QED
  BY <1>3, <1>4, <1>5 DEF ReviewTally, Tally

LEMMA UpheldNat == ASSUME NEW l PROVE Upheld(l) \in Nat
<1>1. {b \in Buyers : reports[<<l, b>>] = "RESOLVED"} \in SUBSET Buyers
  OBVIOUS
<1>2. Cardinality({b \in Buyers : reports[<<l, b>>] = "RESOLVED"}) \in Nat
  BY <1>1, BuyersFinite
<1> QED
  BY <1>2 DEF Upheld, NewVote

LEMMA OnSellerNat == UpheldOnSeller \in Nat
<1>1. PICK A : A = {x \in Adverts \X Buyers : reports[x] = "RESOLVED"}
  OBVIOUS
<1>2. PICK T : T = {g \in Talks : chatReports[<<g, g>>] = "RESOLVED"}
  OBVIOUS
<1>3. IsFiniteSet(Buyers) /\ IsFiniteSet(Adverts) /\ IsFiniteSet(Talks)
  BY RatingAssumption, FS_Subset DEF Buyers
<1>4. IsFiniteSet(Adverts \X Buyers)
  BY <1>3, FS_Product
<1>5. Cardinality(A) \in Nat /\ Cardinality(T) \in Nat
  BY <1>1, <1>2, <1>3, <1>4, FS_Subset, FS_CardinalityType
<1> QED
  BY <1>1, <1>2, <1>5 DEF UpheldOnSeller, NewVote

(* What is read of a listing depends on its own rows.                      *)
LEMMA SameReviews ==
    ASSUME NEW l, \A b \in Buyers : reviews'[<<l, b>>] = reviews[<<l, b>>]
    PROVE  ReviewTally(l)' = ReviewTally(l)
<1>1. ASSUME NEW s PROVE ReviewedAt(l, s)' = ReviewedAt(l, s)
  <2>1. {b \in Buyers : reviews'[<<l, b>>] = s} = {b \in Buyers : reviews[<<l, b>>] = s}
    OBVIOUS
  <2> QED
    BY <2>1 DEF ReviewedAt
<1>2. ReviewWeight(l)' = ReviewWeight(l)
  BY <1>1 DEF ReviewWeight
<1>3. ReviewsOf(l)' = ReviewsOf(l)
  BY DEF ReviewsOf
<1> QED
  BY <1>2, <1>3 DEF ReviewTally

LEMMA SameReports ==
    ASSUME NEW l, \A b \in Buyers : reports'[<<l, b>>] = "RESOLVED" <=> reports[<<l, b>>] = "RESOLVED"
    PROVE  Upheld(l)' = Upheld(l)
<1>1. {b \in Buyers : reports'[<<l, b>>] = "RESOLVED"} = {b \in Buyers : reports[<<l, b>>] = "RESOLVED"}
  OBVIOUS
<1> QED
  BY <1>1 DEF Upheld

LEMMA SameSeller ==
    ASSUME \A x \in Adverts \X Buyers : reports'[x] = "RESOLVED" <=> reports[x] = "RESOLVED",
           \A g \in Talks : chatReports'[<<g, g>>] = "RESOLVED" <=> chatReports[<<g, g>>] = "RESOLVED"
    PROVE  UpheldOnSeller' = UpheldOnSeller
<1>1. {x \in Adverts \X Buyers : reports'[x] = "RESOLVED"}
        = {x \in Adverts \X Buyers : reports[x] = "RESOLVED"}
  OBVIOUS
<1>2. {g \in Talks : chatReports'[<<g, g>>] = "RESOLVED"} = {g \in Talks : chatReports[<<g, g>>] = "RESOLVED"}
  OBVIOUS
<1> QED
  BY <1>1, <1>2 DEF UpheldOnSeller

(* Then so do what it deserves and what has been read of it.               *)
LEMMA SameDeserts ==
    ASSUME NEW l, ReviewTally(l)' = ReviewTally(l), Upheld(l)' = Upheld(l),
           UpheldOnSeller' = UpheldOnSeller
    PROVE  /\ Deserved(l)' = Deserved(l)
           /\ \A c : UpToDate(c, l) => (c # Idle /\ l \in c.listings =>
                /\ c.reviews # None => c.reviews[l] = ReviewTally(l)'
                /\ c.onListing # None => c.onListing[l] = Upheld(l)'
                /\ c.onSeller # None => c.onSeller = UpheldOnSeller')
<1>1. /\ ReviewTally(l).votes = ReviewWeight(l)
      /\ ReviewTally(l).count = Cardinality(ReviewsOf(l))
  BY DEF ReviewTally
<1>2. /\ ReviewTally(l)'.votes = ReviewWeight(l)'
      /\ ReviewTally(l)'.count = Cardinality(ReviewsOf(l))'
  BY DEF ReviewTally
<1>3. Deserved(l)' = Deserved(l)
  BY <1>1, <1>2 DEF Deserved
<1> QED
  BY <1>3 DEF UpToDate

-----------------------------------------------------------------------------
(* The steps.                                                              *)

LEMMA IdleIsNoRead ==
    ASSUME NEW L, NEW v, NEW m, NEW n
    PROVE  [at |-> "read", listings |-> L, reviews |-> v, onListing |-> m,
            onSeller |-> n] # Idle
BY DEF Idle

(* A recomputation starts: those who were overlapped lose their claim, and *)
(* nothing else the recomputation does not reach has changed.              *)
LEMMA StartsRecount ==
    ASSUME RatingInv, NEW r \in Requests, NEW L \in SUBSET Adverts,
           Recomputes(r, L), NEW l \in Adverts,
           l \notin L => Deserved(l)' = Deserved(l)
    PROVE  RightOf(l)'
<1>1. PICK c : c = [at |-> "read", listings |-> L, reviews |-> None,
                    onListing |-> None, onSeller |-> None]
  OBVIOUS
<1>2. /\ ratingCalls' = [ratingCalls EXCEPT ![r] = c]
      /\ ratingCalls[r] = Idle /\ rating' = rating
  BY <1>1 DEF Recomputes
<1>3. c # Idle /\ c.listings = L /\ c.reviews = None /\ c.onListing = None
      /\ c.onSeller = None
  BY <1>1, IdleIsNoRead
<1>4. ratingCalls'[r] = c /\ \A q \in Requests \ {r} : ratingCalls'[q] = ratingCalls[q]
  BY <1>2 DEF RatingInv
<1>5. ratingAlone'[l] => Alone(ratingCalls, r) /\ (l \notin L => ratingAlone[l])
  BY DEF Recomputes
<1> SUFFICES ASSUME ratingAlone'[l] PROVE RightOf(l)'
  BY DEF RightOf
<1>6. \A q \in Requests \ {r} : ratingCalls'[q] = Idle
  BY <1>4, <1>5 DEF Alone
<1>7. l \notin L => rating'[l] = Deserved(l)'
  <2> SUFFICES ASSUME l \notin L PROVE rating'[l] = Deserved(l)'
    OBVIOUS
  <2>1. RightOf(l) /\ ratingAlone[l]
    BY <1>5 DEF RatingInv
  <2>2. \A q \in Requests : ratingCalls[q] = Idle
    BY <1>2, <1>5 DEF Alone
  <2>3. rating[l] = Deserved(l)
    BY <2>1, <2>2 DEF RightOf
  <2> QED
    BY <1>2, <2>3
<1>8. \A q \in Requests : UpToDate(ratingCalls[q], l)'
  <2> SUFFICES ASSUME NEW q \in Requests PROVE UpToDate(ratingCalls[q], l)'
    OBVIOUS
  <2>1. CASE q = r
    BY <2>1, <1>3, <1>4 DEF UpToDate
  <2>2. CASE q # r
    BY <2>2, <1>6 DEF UpToDate
  <2> QED
    BY <2>1, <2>2
<1> QED
  BY <1>3, <1>4, <1>6, <1>7, <1>8 DEF RightOf

(* Nothing of what a listing deserves changes.                             *)
LEMMA NothingOfItChanges ==
    ASSUME NEW l \in Adverts, RightOf(l),
           UNCHANGED <<rating, ratingCalls, ratingAlone>>,
           ReviewTally(l)' = ReviewTally(l), Upheld(l)' = Upheld(l),
           UpheldOnSeller' = UpheldOnSeller
    PROVE  RightOf(l)'
<1>1. Deserved(l)' = Deserved(l)
  BY SameDeserts
<1>2. ASSUME NEW q \in Requests, ratingAlone[l]
      PROVE  UpToDate(ratingCalls[q], l)'
  <2>1. UpToDate(ratingCalls[q], l)
    BY <1>2 DEF RightOf
  <2> QED
    BY <2>1 DEF UpToDate
<1> QED
  BY <1>1, <1>2 DEF RightOf

(* One of the three reads brings the call further, and reads what stands.  *)
LEMMA ReadMoves ==
    ASSUME RatingInv, NEW r \in Requests, NEW c,
           ratingCalls' = [ratingCalls EXCEPT ![r] = c],
           UNCHANGED <<record, rating, ratingAlone>>,
           ratingCalls[r] # Idle, c # Idle,
           c.listings = ratingCalls[r].listings,
           NEW l \in Adverts,
           UpToDate(ratingCalls[r], l) => UpToDate(c, l)
    PROVE  RightOf(l)'
<1>1. ratingCalls'[r] = c /\ \A q \in Requests \ {r} : ratingCalls'[q] = ratingCalls[q]
  BY DEF RatingInv
<1>2. /\ ReviewTally(l)' = ReviewTally(l) /\ Upheld(l)' = Upheld(l)
      /\ UpheldOnSeller' = UpheldOnSeller
  BY SameReviews, SameReports, SameSeller DEF record
<1>3. Deserved(l)' = Deserved(l)
  BY <1>2, SameDeserts
<1>4. RightOf(l)
  BY DEF RatingInv
<1> SUFFICES ASSUME ratingAlone[l] PROVE RightOf(l)'
  BY DEF RightOf
<1>5. \A q, s \in Requests : ratingCalls'[q] # Idle /\ ratingCalls'[s] # Idle => q = s
  BY <1>1, <1>4 DEF RightOf
<1>6. (\A q \in Requests : ratingCalls'[q] # Idle => l \notin ratingCalls'[q].listings)
        => rating'[l] = Deserved(l)'
  BY <1>1, <1>3, <1>4 DEF RightOf
<1>7. \A q \in Requests : UpToDate(ratingCalls[q], l)'
  <2> SUFFICES ASSUME NEW q \in Requests PROVE UpToDate(ratingCalls[q], l)'
    OBVIOUS
  <2>1. UpToDate(ratingCalls'[q], l)
    BY <1>1, <1>4 DEF RightOf
  <2> QED
    BY <2>1, <1>2 DEF UpToDate
<1> QED
  BY <1>5, <1>6, <1>7 DEF RightOf

LEMMA ReadReviewsRight ==
    ASSUME RatingInv, NEW r \in Requests, ReadReviews(r), NEW l \in Adverts
    PROVE  RightOf(l)'
<1>1. PICK L \in SUBSET Adverts : \E v, m, n :
        ratingCalls[r] = [at |-> "read", listings |-> L, reviews |-> v,
                          onListing |-> m, onSeller |-> n]
  BY DEF RatingInv, RatingCall, ReadReviews, Reading
<1>2. PICK v, m, n :
        ratingCalls[r] = [at |-> "read", listings |-> L, reviews |-> v,
                          onListing |-> m, onSeller |-> n]
  BY <1>1
<1>3. PICK f : f = [k \in L |-> ReviewTally(k)]
  OBVIOUS
<1>4. PICK c : c = [at |-> "read", listings |-> L, reviews |-> f,
                    onListing |-> m, onSeller |-> n]
  OBVIOUS
<1>5. [k \in ratingCalls[r].listings |->
          [votes |-> ReviewWeight(k), count |-> Cardinality(ReviewsOf(k))]] = f
  BY <1>2, <1>3 DEF ReviewTally
<1>6. ratingCalls' = [ratingCalls EXCEPT ![r].reviews = f]
  BY <1>5, Zenon DEF ReadReviews, Reading
<1>7. ratingCalls' = [ratingCalls EXCEPT ![r] = c]
  <2>1. [ratingCalls[r] EXCEPT !.reviews = f] = c
    BY <1>2, <1>4
  <2>2. ratingCalls' = [ratingCalls EXCEPT ![r] = [ratingCalls[r] EXCEPT !.reviews = f]]
    BY <1>6
  <2> QED
    BY <2>1, <2>2
<1>8. UpToDate(ratingCalls[r], l) => UpToDate(c, l)
  BY <1>2, <1>3, <1>4, IdleIsNoRead DEF UpToDate
<1> QED
  BY <1>2, <1>4, <1>7, <1>8, IdleIsNoRead, ReadMoves DEF ReadReviews, Reading

LEMMA ReadListingReportsRight ==
    ASSUME RatingInv, NEW r \in Requests, ReadListingReports(r), NEW l \in Adverts
    PROVE  RightOf(l)'
<1>1. PICK L \in SUBSET Adverts : \E v, m, n :
        ratingCalls[r] = [at |-> "read", listings |-> L, reviews |-> v,
                          onListing |-> m, onSeller |-> n]
  BY DEF RatingInv, RatingCall, ReadListingReports, Reading
<1>2. PICK v, m, n :
        ratingCalls[r] = [at |-> "read", listings |-> L, reviews |-> v,
                          onListing |-> m, onSeller |-> n]
  BY <1>1
<1>3. PICK f : f = [k \in L |-> Upheld(k)]
  OBVIOUS
<1>4. PICK c : c = [at |-> "read", listings |-> L, reviews |-> v,
                    onListing |-> f, onSeller |-> n]
  OBVIOUS
<1>5. [k \in ratingCalls[r].listings |-> Upheld(k)] = f
  BY <1>2, <1>3
<1>6. ratingCalls' = [ratingCalls EXCEPT ![r].onListing = f]
  BY <1>5, Zenon DEF ReadListingReports, Reading
<1>7. ratingCalls' = [ratingCalls EXCEPT ![r] = c]
  <2>1. [ratingCalls[r] EXCEPT !.onListing = f] = c
    BY <1>2, <1>4
  <2>2. ratingCalls' = [ratingCalls EXCEPT ![r] = [ratingCalls[r] EXCEPT !.onListing = f]]
    BY <1>6
  <2> QED
    BY <2>1, <2>2
<1>8. UpToDate(ratingCalls[r], l) => UpToDate(c, l)
  BY <1>2, <1>3, <1>4, IdleIsNoRead DEF UpToDate
<1> QED
  BY <1>2, <1>4, <1>7, <1>8, IdleIsNoRead, ReadMoves DEF ReadListingReports, Reading

LEMMA ReadOwnerReportsRight ==
    ASSUME RatingInv, NEW r \in Requests, ReadOwnerReports(r), NEW l \in Adverts
    PROVE  RightOf(l)'
<1>1. PICK L \in SUBSET Adverts : \E v, m, n :
        ratingCalls[r] = [at |-> "read", listings |-> L, reviews |-> v,
                          onListing |-> m, onSeller |-> n]
  BY DEF RatingInv, RatingCall, ReadOwnerReports, Reading
<1>2. PICK v, m, n :
        ratingCalls[r] = [at |-> "read", listings |-> L, reviews |-> v,
                          onListing |-> m, onSeller |-> n]
  BY <1>1
<1>3. PICK f : f = UpheldOnSeller
  OBVIOUS
<1>4. PICK c : c = [at |-> "read", listings |-> L, reviews |-> v,
                    onListing |-> m, onSeller |-> f]
  OBVIOUS
<1>6. ratingCalls' = [ratingCalls EXCEPT ![r].onSeller = f]
  BY <1>3, Zenon DEF ReadOwnerReports, Reading
<1>7. ratingCalls' = [ratingCalls EXCEPT ![r] = c]
  <2>1. [ratingCalls[r] EXCEPT !.onSeller = f] = c
    BY <1>2, <1>4
  <2>2. ratingCalls' = [ratingCalls EXCEPT ![r] = [ratingCalls[r] EXCEPT !.onSeller = f]]
    BY <1>6
  <2> QED
    BY <2>1, <2>2
<1>8. UpToDate(ratingCalls[r], l) => UpToDate(c, l)
  BY <1>2, <1>3, <1>4, IdleIsNoRead DEF UpToDate
<1>9. c # Idle /\ c.listings = ratingCalls[r].listings
  BY <1>2, <1>4, IdleIsNoRead
<1>10. UNCHANGED <<record, rating, ratingAlone>> /\ ratingCalls[r] # Idle
  BY DEF ReadOwnerReports, Reading
<1> QED
  BY <1>7, <1>8, <1>9, <1>10, ReadMoves

(* The ratings of the listings are stored: a listing whose call was alone  *)
(* gets what it deserves, and the others keep their claim.                 *)
LEMMA StoreRight ==
    ASSUME RatingInv, NEW r \in Requests, StoreRatings(r), NEW l \in Adverts
    PROVE  RightOf(l)'
<1>1. PICK L \in SUBSET Adverts : \E v, m, n :
        ratingCalls[r] = [at |-> "read", listings |-> L, reviews |-> v,
                          onListing |-> m, onSeller |-> n]
  BY DEF RatingInv, RatingCall, StoreRatings
<1>2. PICK v, m, n :
        ratingCalls[r] = [at |-> "read", listings |-> L, reviews |-> v,
                          onListing |-> m, onSeller |-> n]
  BY <1>1
<1>3. /\ ratingCalls'[r] = Idle
      /\ \A q \in Requests \ {r} : ratingCalls'[q] = ratingCalls[q]
  BY DEF RatingInv, StoreRatings
<1>4. /\ ReviewTally(l)' = ReviewTally(l) /\ Upheld(l)' = Upheld(l)
      /\ UpheldOnSeller' = UpheldOnSeller
  BY SameReviews, SameReports, SameSeller DEF StoreRatings, record
<1>5. Deserved(l)' = Deserved(l)
  BY <1>4, SameDeserts
<1>6. RightOf(l) /\ ratingAlone' = ratingAlone
  BY DEF RatingInv, StoreRatings
<1> SUFFICES ASSUME ratingAlone[l] PROVE RightOf(l)'
  BY <1>6 DEF RightOf
<1>7. v # None /\ m # None /\ n # None
  BY <1>2 DEF StoreRatings
<1>8. l \in L => rating'[l] = Deserved(l)
  <2> SUFFICES ASSUME l \in L PROVE rating'[l] = Deserved(l)
    OBVIOUS
  <2>1. UpToDate(ratingCalls[r], l)
    BY <1>6 DEF RightOf
  <2>2. v[l] = ReviewTally(l) /\ m[l] = Upheld(l) /\ n = UpheldOnSeller
    BY <2>1, <1>2, <1>7, IdleIsNoRead DEF UpToDate
  <2>3. rating'[l] = [avg |-> Rated(v[l].votes, m[l], n), count |-> v[l].count]
    BY <1>2 DEF StoreRatings
  <2> QED
    BY <2>2, <2>3 DEF Deserved, ReviewTally
<1>9. l \notin L => rating'[l] = rating[l]
  BY <1>2 DEF StoreRatings
<1>10. \A q \in Requests : ratingCalls'[q] = Idle
  BY <1>2, <1>3, <1>6, IdleIsNoRead DEF RightOf
<1>11. l \notin L => rating[l] = Deserved(l)
  BY <1>2, <1>3, <1>6, <1>10 DEF RightOf
<1>12. rating'[l] = Deserved(l)'
  BY <1>5, <1>8, <1>9, <1>11
<1>13. \A q \in Requests : UpToDate(ratingCalls[q], l)'
  BY <1>10 DEF UpToDate
<1> QED
  BY <1>6, <1>10, <1>12, <1>13 DEF RightOf

-----------------------------------------------------------------------------
(* The types.                                                              *)

LEMMA CallMoves ==
    ASSUME RatingInv, NEW r \in Requests, NEW c, RatingCall(c),
           ratingCalls' = [ratingCalls EXCEPT ![r] = c]
    PROVE  /\ DOMAIN ratingCalls' = Requests
           /\ ratingCalls' = [q \in Requests |-> ratingCalls'[q]]
           /\ \A q \in Requests : RatingCall(ratingCalls[q])'
<1>1. /\ DOMAIN ratingCalls' = Requests
      /\ ratingCalls' = [q \in Requests |-> ratingCalls'[q]]
      /\ \A q \in Requests : ratingCalls'[q] = c \/ ratingCalls'[q] = ratingCalls[q]
  BY DEF RatingInv
<1>2. ASSUME NEW q \in Requests PROVE RatingCall(ratingCalls[q])'
  <2>1. RatingCall(ratingCalls'[q])
    BY <1>1 DEF RatingInv
  <2> QED
    BY <2>1 DEF RatingCall, Tally, Idle, IsVote
<1> QED
  BY <1>1, <1>2

LEMMA RecomputesTypes ==
    ASSUME RatingInv, NEW r \in Requests, NEW L \in SUBSET Adverts,
           Recomputes(r, L)
    PROVE  /\ rating' = rating
           /\ ratingAlone' \in [Adverts -> BOOLEAN]
           /\ DOMAIN ratingCalls' = Requests
           /\ ratingCalls' = [q \in Requests |-> ratingCalls'[q]]
           /\ \A q \in Requests : RatingCall(ratingCalls[q])'
<1>1. PICK c : c = [at |-> "read", listings |-> L, reviews |-> None,
                    onListing |-> None, onSeller |-> None]
  OBVIOUS
<1>2. RatingCall(c)
  BY <1>1 DEF RatingCall
<1>3. ratingCalls' = [ratingCalls EXCEPT ![r] = c] /\ rating' = rating
  BY <1>1 DEF Recomputes
<1>4. ASSUME NEW l \in Adverts
      PROVE  (IF l \in L THEN Alone(ratingCalls, r)
                         ELSE ratingAlone[l] /\ Alone(ratingCalls, r)) \in BOOLEAN
  BY DEF Alone
<1>5. ratingAlone' \in [Adverts -> BOOLEAN]
  BY <1>4 DEF Recomputes
<1> QED
  BY <1>2, <1>3, <1>5, CallMoves

LEMMA ReadTypes ==
    ASSUME RatingInv, NEW r \in Requests,
           ReadReviews(r) \/ ReadListingReports(r) \/ ReadOwnerReports(r)
    PROVE  /\ DOMAIN ratingCalls' = Requests
           /\ ratingCalls' = [q \in Requests |-> ratingCalls'[q]]
           /\ \A q \in Requests : RatingCall(ratingCalls[q])'
<1>0. ratingCalls[r] # Idle
  BY DEF ReadReviews, ReadListingReports, ReadOwnerReports, Reading
<1>1. PICK L \in SUBSET Adverts : \E v, m, n :
        /\ ratingCalls[r] = [at |-> "read", listings |-> L, reviews |-> v,
                             onListing |-> m, onSeller |-> n]
        /\ v = None \/ v \in [L -> Tally]
        /\ m = None \/ m \in [L -> Nat]
        /\ n = None \/ n \in Nat
  BY <1>0 DEF RatingInv, RatingCall
<1>2. PICK v, m, n :
        /\ ratingCalls[r] = [at |-> "read", listings |-> L, reviews |-> v,
                             onListing |-> m, onSeller |-> n]
        /\ v = None \/ v \in [L -> Tally]
        /\ m = None \/ m \in [L -> Nat]
        /\ n = None \/ n \in Nat
  BY <1>1
<1>3. PICK f : f = [k \in L |-> ReviewTally(k)]
  OBVIOUS
<1>4. PICK g : g = [k \in L |-> Upheld(k)]
  OBVIOUS
<1>5. f \in [L -> Tally] /\ g \in [L -> Nat] /\ UpheldOnSeller \in Nat
  BY <1>3, <1>4, TallyType, UpheldNat, OnSellerNat
<1>6. CASE ReadReviews(r)
  <2>1. PICK c : c = [at |-> "read", listings |-> L, reviews |-> f,
                      onListing |-> m, onSeller |-> n]
    OBVIOUS
  <2>2. [k \in ratingCalls[r].listings |->
          [votes |-> ReviewWeight(k), count |-> Cardinality(ReviewsOf(k))]] = f
    BY <1>2, <1>3 DEF ReviewTally
  <2>3. ratingCalls' = [ratingCalls EXCEPT ![r] = [ratingCalls[r] EXCEPT !.reviews = f]]
    BY <2>2, <1>6, Zenon DEF ReadReviews
  <2>4. ratingCalls' = [ratingCalls EXCEPT ![r] = c]
    <3>1. [ratingCalls[r] EXCEPT !.reviews = f] = c
      BY <1>2, <2>1
    <3> QED
      BY <2>3, <3>1
  <2>5. RatingCall(c)
    BY <1>2, <1>5, <2>1 DEF RatingCall
  <2> QED
    BY <2>4, <2>5, CallMoves
<1>7. CASE ReadListingReports(r)
  <2>1. PICK c : c = [at |-> "read", listings |-> L, reviews |-> v,
                      onListing |-> g, onSeller |-> n]
    OBVIOUS
  <2>2. [k \in ratingCalls[r].listings |-> Upheld(k)] = g
    BY <1>2, <1>4
  <2>3. ratingCalls' = [ratingCalls EXCEPT ![r] = [ratingCalls[r] EXCEPT !.onListing = g]]
    BY <2>2, <1>7, Zenon DEF ReadListingReports
  <2>4. ratingCalls' = [ratingCalls EXCEPT ![r] = c]
    <3>1. [ratingCalls[r] EXCEPT !.onListing = g] = c
      BY <1>2, <2>1
    <3> QED
      BY <2>3, <3>1
  <2>5. RatingCall(c)
    BY <1>2, <1>5, <2>1 DEF RatingCall
  <2> QED
    BY <2>4, <2>5, CallMoves
<1>8. CASE ReadOwnerReports(r)
  <2>0. PICK u \in Nat : u = UpheldOnSeller
    BY <1>5
  <2>1. PICK c : c = [at |-> "read", listings |-> L, reviews |-> v,
                      onListing |-> m, onSeller |-> u]
    OBVIOUS
  <2>3. ratingCalls' = [ratingCalls EXCEPT ![r] = [ratingCalls[r] EXCEPT !.onSeller = u]]
    BY <2>0, <1>8, Zenon DEF ReadOwnerReports
  <2>4. ratingCalls' = [ratingCalls EXCEPT ![r] = c]
    <3>1. [ratingCalls[r] EXCEPT !.onSeller = u] = c
      BY <1>2, <2>1
    <3> QED
      BY <2>3, <3>1
  <2>5. RatingCall(c)
    BY <1>2, <2>1 DEF RatingCall
  <2> QED
    BY <2>4, <2>5, CallMoves
<1> QED
  BY <1>6, <1>7, <1>8

(* What is stored is among the stars, and counts people.                   *)
LEMMA StoreTypes ==
    ASSUME RatingInv, NEW r \in Requests, StoreRatings(r)
    PROVE  /\ rating' \in [Adverts -> [avg : 10 .. 50, count : 0 .. Cardinality(Users)]]
           /\ DOMAIN ratingCalls' = Requests
           /\ ratingCalls' = [q \in Requests |-> ratingCalls'[q]]
           /\ \A q \in Requests : RatingCall(ratingCalls[q])'
<1>1. PICK L \in SUBSET Adverts : \E v, m, n :
        /\ ratingCalls[r] = [at |-> "read", listings |-> L, reviews |-> v,
                             onListing |-> m, onSeller |-> n]
        /\ v = None \/ v \in [L -> Tally]
        /\ m = None \/ m \in [L -> Nat]
        /\ n = None \/ n \in Nat
  BY DEF RatingInv, RatingCall, StoreRatings
<1>2. PICK v, m, n :
        /\ ratingCalls[r] = [at |-> "read", listings |-> L, reviews |-> v,
                             onListing |-> m, onSeller |-> n]
        /\ v = None \/ v \in [L -> Tally]
        /\ m = None \/ m \in [L -> Nat]
        /\ n = None \/ n \in Nat
  BY <1>1
<1>3. v \in [L -> Tally] /\ m \in [L -> Nat] /\ n \in Nat
  BY <1>2 DEF StoreRatings
<1>4. ASSUME NEW l \in Adverts
      PROVE  (IF l \in L THEN [avg |-> Rated(v[l].votes, m[l], n), count |-> v[l].count]
                         ELSE rating[l])
               \in [avg : 10 .. 50, count : 0 .. Cardinality(Users)]
  <2>1. CASE l \in L
    <3>1. v[l].votes \in {x \in [weight : Nat, weighted : Nat] : IsVote(x)}
             /\ v[l].count \in 0 .. Cardinality(Users) /\ m[l] \in Nat
      BY <1>3, <2>1 DEF Tally
    <3>2. Rated(v[l].votes, m[l], n) \in 10 .. 50
      BY <1>3, <3>1, RatedInRange
    <3> QED
      BY <2>1, <3>1, <3>2
  <2>2. CASE l \notin L
    BY <2>2 DEF RatingInv, RatingTypeOK
  <2> QED
    BY <2>1, <2>2
<1>5. rating' = [l \in Adverts |->
        IF l \in L THEN [avg |-> Rated(v[l].votes, m[l], n), count |-> v[l].count]
                   ELSE rating[l]]
  BY <1>2 DEF StoreRatings
<1>6. rating' \in [Adverts -> [avg : 10 .. 50, count : 0 .. Cardinality(Users)]]
  BY <1>4, <1>5
<1>7. RatingCall(Idle) /\ ratingCalls' = [ratingCalls EXCEPT ![r] = Idle]
  BY DEF RatingCall, StoreRatings
<1> QED
  BY <1>6, <1>7, CallMoves

-----------------------------------------------------------------------------
(* The invariant holds at first, with nothing written and five stars.      *)

Records ==
    /\ reviews \in [Adverts \X Buyers -> Stars \cup {None}]
    /\ reports \in [Adverts \X Buyers -> Statuses \cup {None}]
    /\ chatReports \in [Talks \X Users -> Statuses \cup {None}]

LEMMA NobodySpoke ==
    ASSUME RatingInit, NEW l \in Adverts
    PROVE  Deserved(l) = [avg |-> 50, count |-> 0]
<1>1. ReviewsOf(l) = {}
  BY DEF RatingInit, ReviewsOf
<1>2. ASSUME NEW s \in 1 .. 5 PROVE NewVote * ReviewedAt(l, s) = 0
  <2>1. {b \in Buyers : reviews[<<l, b>>] = s} = {}
    BY RatingAssumption DEF RatingInit
  <2>2. ReviewedAt(l, s) = 0
    BY <2>1, FS_EmptySet DEF ReviewedAt
  <2> QED
    BY <2>2 DEF NewVote
<1>3. /\ NewVote * ReviewedAt(l, 1) = 0 /\ NewVote * ReviewedAt(l, 2) = 0
      /\ NewVote * ReviewedAt(l, 3) = 0 /\ NewVote * ReviewedAt(l, 4) = 0
      /\ NewVote * ReviewedAt(l, 5) = 0
  BY <1>2
<1>4. ReviewWeight(l) = [weight |-> 0, weighted |-> 0]
  BY <1>3 DEF ReviewWeight
<1>5. {b \in Buyers : reports[<<l, b>>] = "RESOLVED"} = {}
  BY RatingAssumption DEF RatingInit
<1>6. Upheld(l) = 0
  <2>1. Cardinality({b \in Buyers : reports[<<l, b>>] = "RESOLVED"}) = 0
    BY <1>5, FS_EmptySet
  <2> QED
    BY <2>1 DEF Upheld, NewVote
<1>7. {x \in Adverts \X Buyers : reports[x] = "RESOLVED"} = {}
  BY RatingAssumption DEF RatingInit
<1>8. {g \in Talks : chatReports[<<g, g>>] = "RESOLVED"} = {}
  <2> SUFFICES ASSUME NEW g \in Talks, chatReports[<<g, g>>] = "RESOLVED" PROVE FALSE
    OBVIOUS
  <2>1. <<g, g>> \in Talks \X Users
    BY RatingAssumption
  <2> QED
    BY <2>1, RatingAssumption DEF RatingInit
<1>9. UpheldOnSeller = 0
  <2>1. /\ Cardinality({x \in Adverts \X Buyers : reports[x] = "RESOLVED"}) = 0
        /\ Cardinality({g \in Talks : chatReports[<<g, g>>] = "RESOLVED"}) = 0
    BY <1>7, <1>8, FS_EmptySet
  <2> QED
    BY <2>1 DEF UpheldOnSeller, NewVote
<1>10. PICK none : none = [weight |-> 0, weighted |-> 0]
  OBVIOUS
<1>11. Rated(none, 0, 0) = 50
  BY <1>10 DEF Rated, Score, PlusVote, Vote, Monus, REPORT_STARS, PRIOR,
     PRIOR_WEIGHT, NewVote, REPORT_OWNER_CAP, REPORT_OWNER_WEIGHT,
     REPORT_LISTING_WEIGHT
<1> QED
  BY <1>1, <1>4, <1>6, <1>9, <1>10, <1>11, FS_EmptySet DEF Deserved

LEMMA RatingStarts == RatingInit => RatingInv
<1> SUFFICES ASSUME RatingInit PROVE RatingInv
  OBVIOUS
<1>1. Records
  BY DEF RatingInit, Records
<1>2. rating \in [Adverts -> [avg : 10 .. 50, count : 0 .. Cardinality(Users)]]
  BY BuyersFinite DEF RatingInit, PRIOR
<1>3. /\ ratingAlone \in [Adverts -> BOOLEAN]
      /\ DOMAIN ratingCalls = Requests
      /\ ratingCalls = [r \in Requests |-> ratingCalls[r]]
      /\ \A r \in Requests : ratingCalls[r] = Idle
  BY DEF RatingInit
<1>4. ASSUME NEW l \in Adverts PROVE RightOf(l)
  <2>1. rating[l] = Deserved(l)
    BY NobodySpoke DEF RatingInit, PRIOR
  <2> QED
    BY <1>3, <2>1 DEF RightOf, UpToDate
<1> QED
  BY <1>1, <1>2, <1>3, <1>4 DEF RatingInv, RatingTypeOK, RatingCall, Records

-----------------------------------------------------------------------------
(* Each step keeps it: one that starts a recount, one that writes a row    *)
(* nobody counts yet, and those of the recount.                            *)

LEMMA StartKeeps ==
    ASSUME RatingInv, Records', NEW r \in Requests, NEW L \in SUBSET Adverts,
           Recomputes(r, L),
           \A l \in Adverts \ L : Deserved(l)' = Deserved(l)
    PROVE  RatingInv'
<1>1. /\ rating' = rating
      /\ ratingAlone' \in [Adverts -> BOOLEAN]
      /\ DOMAIN ratingCalls' = Requests
      /\ ratingCalls' = [q \in Requests |-> ratingCalls'[q]]
      /\ \A q \in Requests : RatingCall(ratingCalls[q])'
  BY RecomputesTypes
<1>2. ASSUME NEW l \in Adverts PROVE RightOf(l)'
  BY StartsRecount
<1>3. RatingTypeOK'
  BY <1>1 DEF Records, RatingInv, RatingTypeOK
<1> QED
  BY <1>1, <1>2, <1>3 DEF RatingInv

LEMMA WriteKeeps ==
    ASSUME RatingInv, Records', UNCHANGED <<rating, ratingCalls, ratingAlone>>,
           \A l \in Adverts : /\ ReviewTally(l)' = ReviewTally(l)
                              /\ Upheld(l)' = Upheld(l),
           UpheldOnSeller' = UpheldOnSeller
    PROVE  RatingInv'
<1>1. ASSUME NEW l \in Adverts PROVE RightOf(l)'
  BY NothingOfItChanges DEF RatingInv
<1>2. ASSUME NEW q \in Requests PROVE RatingCall(ratingCalls[q])'
  BY DEF RatingInv, RatingCall, Tally, Idle, IsVote
<1>3. RatingTypeOK'
  BY DEF Records, RatingInv, RatingTypeOK
<1>4. /\ ratingAlone' \in [Adverts -> BOOLEAN]
      /\ DOMAIN ratingCalls' = Requests
      /\ ratingCalls' = [q \in Requests |-> ratingCalls'[q]]
  BY DEF RatingInv
<1> QED
  BY <1>1, <1>2, <1>3, <1>4 DEF RatingInv

LEMMA ReviewKeeps ==
    ASSUME RatingInv, NEW r \in Requests, NEW l \in Adverts, NEW b \in Buyers,
           (\E s \in Stars : Review(r, l, b, s)) \/ RemoveReview(r, l, b)
    PROVE  RatingInv'
<1>1. PICK s \in Stars \cup {None} :
        /\ reviews' = [reviews EXCEPT ![<<l, b>>] = s]
        /\ Recomputes(r, {l}) /\ UNCHANGED <<reports, chatReports>>
  BY DEF Review, RemoveReview
<1>2. Records'
  BY <1>1 DEF RatingInv, RatingTypeOK, Records
<1>3. ASSUME NEW k \in Adverts \ {l} PROVE Deserved(k)' = Deserved(k)
  <2>1. \A c \in Buyers : reviews'[<<k, c>>] = reviews[<<k, c>>]
    BY <1>1 DEF RatingInv, RatingTypeOK
  <2>2. ReviewTally(k)' = ReviewTally(k)
    BY <2>1, SameReviews
  <2>3. Upheld(k)' = Upheld(k) /\ UpheldOnSeller' = UpheldOnSeller
    BY <1>1, SameReports, SameSeller
  <2> QED
    BY <2>2, <2>3, SameDeserts
<1> QED
  BY <1>1, <1>2, <1>3, StartKeeps

LEMMA JudgeKeeps ==
    ASSUME RatingInv, NEW r \in Requests, NEW l \in Adverts, NEW b \in Buyers,
           NEW status \in Statuses, Judge(r, l, b, status)
    PROVE  RatingInv'
<1>1. Records' /\ Recomputes(r, Adverts)
  BY DEF Judge, RatingInv, RatingTypeOK, Records
<1> QED
  BY <1>1, StartKeeps

LEMMA ReportKeeps ==
    ASSUME RatingInv, NEW l \in Adverts, NEW b \in Buyers, Report(l, b)
    PROVE  RatingInv'
<1>1. /\ reports[<<l, b>>] # "RESOLVED"
      /\ reports' = [reports EXCEPT ![<<l, b>>] = "OPEN"]
      /\ UNCHANGED <<reviews, chatReports, rating, ratingCalls, ratingAlone>>
  BY RatingAssumption DEF Report
<1>2. Records'
  BY <1>1 DEF RatingInv, RatingTypeOK, Records, Statuses
<1>3. \A x \in Adverts \X Buyers : reports'[x] = "RESOLVED" <=> reports[x] = "RESOLVED"
  BY <1>1 DEF RatingInv, RatingTypeOK
<1>4. UpheldOnSeller' = UpheldOnSeller
  BY <1>1, <1>3, SameSeller
<1>5. ASSUME NEW k \in Adverts
      PROVE  ReviewTally(k)' = ReviewTally(k) /\ Upheld(k)' = Upheld(k)
  <2>1. \A c \in Buyers : reports'[<<k, c>>] = "RESOLVED" <=> reports[<<k, c>>] = "RESOLVED"
    BY <1>3
  <2> QED
    BY <1>1, <2>1, SameReviews, SameReports
<1> QED
  BY <1>1, <1>2, <1>4, <1>5, WriteKeeps

(* A report of the seller's own, or one nobody upheld yet, weighs nothing. *)
LEMMA ChatReportKeeps ==
    ASSUME RatingInv, NEW g \in Talks, NEW u \in Users,
           NEW status \in Statuses,
           status = "RESOLVED" => u # g,
           u = g => chatReports[<<g, u>>] # "RESOLVED",
           chatReports' = [chatReports EXCEPT ![<<g, u>>] = status],
           UNCHANGED <<reviews, reports, rating, ratingCalls, ratingAlone>>
    PROVE  RatingInv'
<1>1. Records'
  BY DEF RatingInv, RatingTypeOK, Records
<1>2. ASSUME NEW h \in Talks
      PROVE  chatReports'[<<h, h>>] = "RESOLVED" <=> chatReports[<<h, h>>] = "RESOLVED"
  <2>1. <<h, h>> \in Talks \X Users
    BY RatingAssumption
  <2>2. CASE <<h, h>> = <<g, u>>
    BY <2>1, <2>2 DEF RatingInv, RatingTypeOK
  <2>3. CASE <<h, h>> # <<g, u>>
    BY <2>1, <2>3 DEF RatingInv, RatingTypeOK
  <2> QED
    BY <2>2, <2>3
<1>3. UpheldOnSeller' = UpheldOnSeller
  BY <1>2, SameSeller
<1>4. ASSUME NEW k \in Adverts
      PROVE  ReviewTally(k)' = ReviewTally(k) /\ Upheld(k)' = Upheld(k)
  BY SameReviews, SameReports
<1> QED
  BY <1>1, <1>3, <1>4, WriteKeeps

LEMMA JudgeChatKeeps ==
    ASSUME RatingInv, NEW r \in Requests, NEW g \in Talks, NEW u \in Users,
           NEW status \in Statuses, JudgeChat(r, g, u, status)
    PROVE  RatingInv'
<1>1. CASE u = g
  <2>1. Records' /\ Recomputes(r, Adverts)
    BY <1>1 DEF JudgeChat, RatingInv, RatingTypeOK, Records
  <2> QED
    BY <2>1, StartKeeps
<1>2. CASE u # g
  BY <1>2, ChatReportKeeps DEF JudgeChat
<1> QED
  BY <1>1, <1>2

LEMMA ReadKeeps ==
    ASSUME RatingInv, NEW r \in Requests,
           ReadReviews(r) \/ ReadListingReports(r) \/ ReadOwnerReports(r)
    PROVE  RatingInv'
<1>1. UNCHANGED <<reviews, reports, chatReports, rating, ratingAlone>>
  BY DEF ReadReviews, ReadListingReports, ReadOwnerReports, Reading, record
<1>2. ASSUME NEW l \in Adverts PROVE RightOf(l)'
  BY ReadReviewsRight, ReadListingReportsRight, ReadOwnerReportsRight
<1>3. RatingTypeOK' /\ ratingAlone' \in [Adverts -> BOOLEAN]
  BY <1>1 DEF RatingInv, RatingTypeOK
<1> QED
  BY <1>2, <1>3, ReadTypes DEF RatingInv

LEMMA StoreKeeps ==
    ASSUME RatingInv, NEW r \in Requests, StoreRatings(r)
    PROVE  RatingInv'
<1>1. UNCHANGED <<reviews, reports, chatReports, ratingAlone>>
  BY DEF StoreRatings, record
<1>2. ASSUME NEW l \in Adverts PROVE RightOf(l)'
  BY StoreRight
<1>3. RatingTypeOK' /\ ratingAlone' \in [Adverts -> BOOLEAN]
  BY <1>1, StoreTypes DEF RatingInv, RatingTypeOK
<1> QED
  BY <1>2, <1>3, StoreTypes DEF RatingInv

LEMMA RatingStays == RatingInv /\ [RatingNext]_ratingVars => RatingInv'
<1> SUFFICES ASSUME RatingInv, [RatingNext]_ratingVars PROVE RatingInv'
  OBVIOUS
<1>1. ASSUME NEW r \in Requests, NEW l \in Adverts, NEW b \in Buyers,
             NEW s \in Stars, Review(r, l, b, s)
      PROVE  RatingInv'
  BY <1>1, ReviewKeeps
<1>2. ASSUME NEW r \in Requests, NEW l \in Adverts, NEW b \in Buyers,
             RemoveReview(r, l, b)
      PROVE  RatingInv'
  BY <1>2, ReviewKeeps
<1>3. ASSUME NEW r \in Requests, NEW l \in Adverts, NEW b \in Buyers,
             NEW status \in Statuses, Judge(r, l, b, status)
      PROVE  RatingInv'
  BY <1>3, JudgeKeeps
<1>4. ASSUME NEW r \in Requests, NEW g \in Talks, NEW u \in Users,
             NEW status \in Statuses, JudgeChat(r, g, u, status)
      PROVE  RatingInv'
  BY <1>4, JudgeChatKeeps
<1>5. ASSUME NEW r \in Requests,
             ReadReviews(r) \/ ReadListingReports(r) \/ ReadOwnerReports(r)
      PROVE  RatingInv'
  BY <1>5, ReadKeeps
<1>6. ASSUME NEW r \in Requests, StoreRatings(r) PROVE RatingInv'
  BY <1>6, StoreKeeps
<1>7. ASSUME NEW l \in Adverts, NEW b \in Buyers, Report(l, b) PROVE RatingInv'
  BY <1>7, ReportKeeps
<1>8. ASSUME NEW g \in Talks, NEW u \in Users, ReportChat(g, u) PROVE RatingInv'
  <2>1. "OPEN" \in Statuses /\ chatReports[<<g, u>>] # "RESOLVED"
    BY <1>8, RatingAssumption DEF ReportChat, Statuses
  <2> QED
    BY <1>8, <2>1, ChatReportKeeps DEF ReportChat
<1>9. CASE UNCHANGED ratingVars
  <2>1. UNCHANGED <<reviews, reports, chatReports, rating, ratingCalls, ratingAlone>>
    BY <1>9 DEF ratingVars
  <2>2. Records'
    BY <2>1 DEF RatingInv, RatingTypeOK, Records
  <2>3. UpheldOnSeller' = UpheldOnSeller
    BY <2>1, SameSeller
  <2>4. ASSUME NEW k \in Adverts
        PROVE  ReviewTally(k)' = ReviewTally(k) /\ Upheld(k)' = Upheld(k)
    BY <2>1, SameReviews, SameReports
  <2> QED
    BY <2>1, <2>2, <2>3, <2>4, WriteKeeps
<1> QED
  BY <1>1, <1>2, <1>3, <1>4, <1>5, <1>6, <1>7, <1>8, <1>9 DEF RatingNext

(* The stars on a card are what the record says of the listing and of its  *)
(* seller once nothing is in flight, for any shelf, people and ratings, if *)
(* the last recomputation of that listing overlapped no other request, and *)
(* they are always among the stars, for one person's voice at most each.   *)
THEOREM StarsTellTheRecord == RatingSpec => [](StarsFollowTheRecord /\ RatingTypeOK)
<1>1. RatingInv => StarsFollowTheRecord /\ RatingTypeOK
  BY DEF RatingInv, RightOf, StarsFollowTheRecord, Quiet
<1> QED
  BY <1>1, RatingStarts, RatingStays, PTL DEF RatingSpec

(***************************************************************************)
(* Follows (Follows)                                                       *)
(***************************************************************************)
(* What the deletion under way has already taken from others' numbers, and *)
(* not yet from the rows.                                                  *)
FanGone(u) ==
    IF erasure # None /\ erasure.at # "followees" /\ <<erasure.user, u>> \in follows
    THEN 1 ELSE 0
FolloweeGone(u) ==
    IF erasure # None /\ erasure.at = "rows" /\ <<u, erasure.user>> \in follows
    THEN 1 ELSE 0

Exact ==
    ~erasureRaced =>
        \A u \in Users : /\ followers[u] + FanGone(u) = Cardinality(FollowersOf(u))
                         /\ following[u] + FolloweeGone(u) = Cardinality(FollowedBy(u))

(* A request that is being served is of two people. *)
CallsTyped ==
    followCalls \in [Requests ->
        {Idle} \cup [at : {"blocks", "write"}, from : Users, to : Users, next : BOOLEAN]]

FollowsInv == FollowsTypeOK /\ IsFiniteSet(follows) /\ CallsTyped /\ Exact

-----------------------------------------------------------------------------
(* The rows of a person are as many as the table allows.                   *)
LEMMA RowsCount ==
    ASSUME IsFiniteSet(follows), NEW u
    PROVE  /\ IsFiniteSet(FollowersOf(u)) /\ IsFiniteSet(FollowedBy(u))
           /\ Cardinality(FollowersOf(u)) \in Nat
           /\ Cardinality(FollowedBy(u)) \in Nat
<1>1. FollowersOf(u) \in SUBSET follows /\ FollowedBy(u) \in SUBSET follows
  BY DEF FollowersOf, FollowedBy
<1> QED
  BY <1>1, FS_Subset, FS_CardinalityType

(* One who has a row counts for one at least.                              *)
LEMMA HasOne ==
    ASSUME NEW S, IsFiniteSet(S), NEW x \in S
    PROVE  Cardinality(S) >= 1
BY FS_CardinalityType, FS_EmptySet

(* A row more or less is one for each of its two people and none for       *)
(* anybody else.                                                           *)
RowsTo(rows, u) == {f \in rows : f[2] = u}
RowsFrom(rows, u) == {f \in rows : f[1] = u}

(* One set of rows, with or without a row of its own. *)
LEMMA OneMore ==
    ASSUME NEW S, IsFiniteSet(S), NEW row, NEW next \in BOOLEAN, NEW n \in {0, 1},
           n = 1 <=> (next <=> row \notin S),
           NEW T, T = IF next THEN S \cup {row} ELSE S \ {row}
    PROVE  Cardinality(T) =
               IF next THEN Cardinality(S) + n ELSE Monus(Cardinality(S), n)
<1>1. Cardinality(S) \in Nat
  BY FS_CardinalityType
<1>2. CASE next
  <2>1. Cardinality(S \cup {row}) = IF row \in S THEN Cardinality(S) ELSE Cardinality(S) + 1
    BY FS_AddElement
  <2>2. n = IF row \in S THEN 0 ELSE 1
    BY <1>2
  <2> QED
    BY <1>1, <1>2, <2>1, <2>2
<1>3. CASE ~next
  <2>1. Cardinality(S \ {row}) = IF row \in S THEN Cardinality(S) - 1 ELSE Cardinality(S)
    BY FS_RemoveElement
  <2>2. n = IF row \in S THEN 1 ELSE 0
    BY <1>3
  <2>3. row \in S => Cardinality(S) >= 1
    BY HasOne
  <2> QED
    BY <1>1, <1>3, <2>1, <2>2, <2>3 DEF Monus
<1> QED
  BY <1>2, <1>3

LEMMA RowMoves ==
    ASSUME NEW S, IsFiniteSet(S), NEW a, NEW b, NEW next \in BOOLEAN, NEW u,
           NEW n \in {0, 1}, n = 1 <=> (next <=> <<a, b>> \notin S),
           NEW T, T = IF next THEN S \cup {<<a, b>>} ELSE S \ {<<a, b>>}
    PROVE  /\ Cardinality(RowsTo(T, u)) =
                 IF u # b THEN Cardinality(RowsTo(S, u))
                 ELSE IF next THEN Cardinality(RowsTo(S, u)) + n
                              ELSE Monus(Cardinality(RowsTo(S, u)), n)
           /\ Cardinality(RowsFrom(T, u)) =
                 IF u # a THEN Cardinality(RowsFrom(S, u))
                 ELSE IF next THEN Cardinality(RowsFrom(S, u)) + n
                              ELSE Monus(Cardinality(RowsFrom(S, u)), n)
<1>1. RowsTo(S, u) \in SUBSET S /\ RowsFrom(S, u) \in SUBSET S
  BY DEF RowsTo, RowsFrom
<1>2. IsFiniteSet(RowsTo(S, u)) /\ IsFiniteSet(RowsFrom(S, u))
  BY <1>1, FS_Subset
<1>3. /\ u # b => RowsTo(T, u) = RowsTo(S, u)
      /\ u # a => RowsFrom(T, u) = RowsFrom(S, u)
  BY DEF RowsTo, RowsFrom
<1>4. u = b => Cardinality(RowsTo(T, u)) =
            IF next THEN Cardinality(RowsTo(S, u)) + n ELSE Monus(Cardinality(RowsTo(S, u)), n)
  <2> SUFFICES ASSUME u = b
               PROVE  Cardinality(RowsTo(T, u)) = IF next THEN Cardinality(RowsTo(S, u)) + n
                                                ELSE Monus(Cardinality(RowsTo(S, u)), n)
    OBVIOUS
  <2>1. RowsTo(T, u) = IF next THEN RowsTo(S, u) \cup {<<a, b>>} ELSE RowsTo(S, u) \ {<<a, b>>}
    BY DEF RowsTo
  <2>2. n = 1 <=> (next <=> <<a, b>> \notin RowsTo(S, u))
    BY DEF RowsTo
  <2> QED
    BY <1>2, <2>1, <2>2, OneMore
<1>5. u = a => Cardinality(RowsFrom(T, u)) =
            IF next THEN Cardinality(RowsFrom(S, u)) + n ELSE Monus(Cardinality(RowsFrom(S, u)), n)
  <2> SUFFICES ASSUME u = a
               PROVE  Cardinality(RowsFrom(T, u)) = IF next THEN Cardinality(RowsFrom(S, u)) + n
                                                ELSE Monus(Cardinality(RowsFrom(S, u)), n)
    OBVIOUS
  <2>1. RowsFrom(T, u) = IF next THEN RowsFrom(S, u) \cup {<<a, b>>}
                                 ELSE RowsFrom(S, u) \ {<<a, b>>}
    BY DEF RowsFrom
  <2>2. n = 1 <=> (next <=> <<a, b>> \notin RowsFrom(S, u))
    BY DEF RowsFrom
  <2> QED
    BY <1>2, <2>1, <2>2, OneMore
<1> QED
  BY <1>3, <1>4, <1>5

(* A request that goes on is of the same two people.                       *)
LEMMA CallGoes ==
    ASSUME CallsTyped, NEW r \in Requests, NEW call, FollowGoes(r, call),
           call \in {Idle} \cup [at : {"blocks", "write"}, from : Users,
                                  to : Users, next : BOOLEAN]
    PROVE  CallsTyped'
BY DEF CallsTyped, FollowGoes

(* What leaves rows, numbers and deletions alone keeps them exact.         *)
LEMMA Undisturbed ==
    ASSUME FollowsInv, CallsTyped', followsMade' \in 0 .. MaxFollows,
           UNCHANGED <<follows, followers, following, erasure, erasureRaced>>
    PROVE  FollowsInv'
BY DEF FollowsInv, FollowsTypeOK, Exact, FanGone, FolloweeGone, FollowersOf, FollowedBy

-----------------------------------------------------------------------------
(* The steps                                                               *)

LEMMA AskInv ==
    ASSUME FollowsInv, NEW r \in Requests, NEW a \in Users, NEW b \in Users,
           NEW next \in BOOLEAN, AskFollow(r, a, b, next)
    PROVE  FollowsInv'
<1>1. CallsTyped'
  BY CallGoes DEF FollowsInv, AskFollow
<1>2. followsMade' \in 0 .. MaxFollows
  BY FollowsAssumption DEF FollowsInv, FollowsTypeOK, AskFollow
<1> QED
  BY <1>1, <1>2, Undisturbed DEF AskFollow, StillAccounts

LEMMA CheckInv ==
    ASSUME FollowsInv, NEW r \in Requests, CheckFollow(r)
    PROVE  FollowsInv'
<1>1. followCalls[r] \in [at : {"blocks", "write"}, from : Users, to : Users, next : BOOLEAN]
  BY DEF FollowsInv, CallsTyped, CheckFollow, Idle
<1>2. CallsTyped'
  BY <1>1, CallGoes DEF FollowsInv, CheckFollow
<1> QED
  BY <1>2, Undisturbed DEF FollowsInv, FollowsTypeOK, CheckFollow, StillAccounts

(* The row and the two numbers move together.  A deletion that has begun   *)
(* took its share from people it does not concern nothing.                 *)
LEMMA WriteInv ==
    ASSUME FollowsInv, NEW r \in Requests, WriteFollow(r)
    PROVE  FollowsInv'
<1>1. followCalls[r] \in [at : {"blocks", "write"}, from : Users, to : Users, next : BOOLEAN]
  BY DEF FollowsInv, CallsTyped, WriteFollow, Idle
<1>2. PICK a \in Users, b \in Users, next \in BOOLEAN :
        /\ a = followCalls[r].from /\ b = followCalls[r].to /\ next = followCalls[r].next
  BY <1>1
<1>3. PICK n \in {0, 1} : n = Moved(<<a, b>>, next)
  BY DEF Moved
<1>4. /\ follows' = IF next THEN follows \cup {<<a, b>>} ELSE follows \ {<<a, b>>}
      /\ followers' = [followers EXCEPT ![b] = IF next THEN followers[b] + n
                                                       ELSE Monus(followers[b], n)]
      /\ following' = [following EXCEPT ![a] = IF next THEN following[a] + n
                                                       ELSE Monus(following[a], n)]
      /\ erasureRaced' = (erasureRaced \/ (erasure # None /\ n > 0 /\
                                            erasure.user \in {a, b}))
      /\ FollowGoes(r, Idle)
      /\ UNCHANGED <<followsMade, erasure, erased>>
  BY <1>2, <1>3 DEF WriteFollow
<1>5. CallsTyped'
  BY <1>4, CallGoes DEF FollowsInv
<1>6. follows' \subseteq Users \X Users
  BY <1>4 DEF FollowsInv, FollowsTypeOK
<1>7. followers' \in [Users -> Nat] /\ following' \in [Users -> Nat]
  <2>1. followers \in [Users -> Nat] /\ following \in [Users -> Nat]
    BY DEF FollowsInv, FollowsTypeOK
  <2>2. \A k \in Nat : k + n \in Nat /\ Monus(k, n) \in Nat
    BY DEF Monus
  <2>3. (IF next THEN followers[b] + n ELSE Monus(followers[b], n)) \in Nat
    BY <2>1, <2>2
  <2>4. (IF next THEN following[a] + n ELSE Monus(following[a], n)) \in Nat
    BY <2>1, <2>2
  <2> QED
    BY <1>4, <2>1, <2>3, <2>4
<1>8. FollowsTypeOK'
  BY <1>4, <1>6, <1>7 DEF FollowsInv, FollowsTypeOK
<1>9. IsFiniteSet(follows')
  BY <1>4, FS_AddElement, FS_RemoveElement DEF FollowsInv
<1>10. ASSUME ~erasureRaced', NEW u \in Users
       PROVE  /\ followers'[u] + FanGone(u)' = Cardinality(FollowersOf(u)')
              /\ following'[u] + FolloweeGone(u)' = Cardinality(FollowedBy(u)')
  <2>1. ~erasureRaced /\ (erasure # None /\ n > 0 => erasure.user \notin {a, b})
    BY <1>4, <1>10
  <2>2. /\ followers[u] + FanGone(u) = Cardinality(FollowersOf(u))
        /\ following[u] + FolloweeGone(u) = Cardinality(FollowedBy(u))
    BY <2>1 DEF FollowsInv, Exact
  <2>3. CASE n = 0
    <3>1. follows' = follows
      BY <1>3, <1>4, <2>3 DEF Moved
    <3>2. followers'[u] = followers[u] /\ following'[u] = following[u]
      BY <1>4, <2>3 DEF FollowsInv, FollowsTypeOK, Monus
    <3> QED
      BY <1>4, <2>2, <3>1, <3>2 DEF FanGone, FolloweeGone, FollowersOf, FollowedBy
  <2>4. CASE n = 1
    <3>1. erasure = None \/ erasure.user \notin {a, b}
      BY <2>1, <2>4
    <3>2. FanGone(u)' = FanGone(u) /\ FolloweeGone(u)' = FolloweeGone(u)
      BY <1>4, <3>1 DEF FanGone, FolloweeGone
    <3>3. /\ IsFiniteSet(FollowersOf(u)') /\ IsFiniteSet(FollowedBy(u)')
          /\ FollowersOf(u)' \in SUBSET follows' /\ FollowedBy(u)' \in SUBSET follows'
      BY <1>9, FS_Subset DEF FollowersOf, FollowedBy
    <3>4. /\ Cardinality(FollowersOf(u)') \in Nat /\ Cardinality(FollowedBy(u)') \in Nat
          /\ Cardinality(FollowersOf(u)) \in Nat /\ Cardinality(FollowedBy(u)) \in Nat
      BY <3>3, RowsCount, FS_CardinalityType DEF FollowsInv
    <3>5. FanGone(u)' <= Cardinality(FollowersOf(u)')
      <4>1. CASE FanGone(u)' = 1
        <5>1. <<erasure'.user, u>> \in FollowersOf(u)'
          BY <4>1 DEF FanGone, FollowersOf
        <5> QED
          BY <3>3, <4>1, <5>1, HasOne
      <4>2. CASE FanGone(u)' # 1
        BY <3>4, <4>2 DEF FanGone
      <4> QED
        BY <4>1, <4>2
    <3>6. FolloweeGone(u)' <= Cardinality(FollowedBy(u)')
      <4>1. CASE FolloweeGone(u)' = 1
        <5>1. <<u, erasure'.user>> \in FollowedBy(u)'
          BY <4>1 DEF FolloweeGone, FollowedBy
        <5> QED
          BY <3>3, <4>1, <5>1, HasOne
      <4>2. CASE FolloweeGone(u)' # 1
        BY <3>4, <4>2 DEF FolloweeGone
      <4> QED
        BY <4>1, <4>2
    <3>7. /\ Cardinality(FollowersOf(u)') =
                IF u # b THEN Cardinality(FollowersOf(u))
                ELSE IF next THEN Cardinality(FollowersOf(u)) + 1
                             ELSE Monus(Cardinality(FollowersOf(u)), 1)
          /\ Cardinality(FollowedBy(u)') =
                IF u # a THEN Cardinality(FollowedBy(u))
                ELSE IF next THEN Cardinality(FollowedBy(u)) + 1
                             ELSE Monus(Cardinality(FollowedBy(u)), 1)
      <4>1. /\ FollowersOf(u) = RowsTo(follows, u) /\ FollowedBy(u) = RowsFrom(follows, u)
            /\ FollowersOf(u)' = RowsTo(follows', u) /\ FollowedBy(u)' = RowsFrom(follows', u)
        BY DEF FollowersOf, FollowedBy, RowsTo, RowsFrom
      <4>2. n = 1 <=> (next <=> <<a, b>> \notin follows)
        BY <1>3, <2>4 DEF Moved
      <4>3. /\ Cardinality(RowsTo(follows', u)) =
                 IF u # b THEN Cardinality(RowsTo(follows, u))
                 ELSE IF next THEN Cardinality(RowsTo(follows, u)) + n
                              ELSE Monus(Cardinality(RowsTo(follows, u)), n)
            /\ Cardinality(RowsFrom(follows', u)) =
                 IF u # a THEN Cardinality(RowsFrom(follows, u))
                 ELSE IF next THEN Cardinality(RowsFrom(follows, u)) + n
                              ELSE Monus(Cardinality(RowsFrom(follows, u)), n)
        BY <1>4, <4>2, RowMoves DEF FollowsInv
      <4> QED
        BY <2>4, <4>1, <4>3
    <3>8. /\ followers[u] \in Nat /\ following[u] \in Nat
          /\ FanGone(u) \in {0, 1} /\ FolloweeGone(u) \in {0, 1}
      BY DEF FollowsInv, FollowsTypeOK, FanGone, FolloweeGone
    <3>9. followers'[u] = IF u # b THEN followers[u]
                          ELSE IF next THEN followers[u] + 1 ELSE Monus(followers[u], 1)
      BY <1>4, <2>4 DEF FollowsInv, FollowsTypeOK
    <3>10. following'[u] = IF u # a THEN following[u]
                           ELSE IF next THEN following[u] + 1 ELSE Monus(following[u], 1)
      BY <1>4, <2>4 DEF FollowsInv, FollowsTypeOK
    <3>11. ~next /\ u = b => Cardinality(FollowersOf(u)) >= 1
      <4> SUFFICES ASSUME ~next, u = b PROVE Cardinality(FollowersOf(u)) >= 1
        OBVIOUS
      <4>1. <<a, b>> \in FollowersOf(u)
        BY <1>3, <2>4 DEF Moved, FollowersOf
      <4> QED
        BY <4>1, RowsCount, HasOne DEF FollowsInv
    <3>12. ~next /\ u = a => Cardinality(FollowedBy(u)) >= 1
      <4> SUFFICES ASSUME ~next, u = a PROVE Cardinality(FollowedBy(u)) >= 1
        OBVIOUS
      <4>1. <<a, b>> \in FollowedBy(u)
        BY <1>3, <2>4 DEF Moved, FollowedBy
      <4> QED
        BY <4>1, RowsCount, HasOne DEF FollowsInv
    <3>13. followers'[u] + FanGone(u)' = Cardinality(FollowersOf(u)')
      BY <2>2, <3>2, <3>4, <3>5, <3>7, <3>8, <3>9, <3>11 DEF Monus
    <3>14. following'[u] + FolloweeGone(u)' = Cardinality(FollowedBy(u)')
      BY <2>2, <3>2, <3>4, <3>6, <3>7, <3>8, <3>10, <3>12 DEF Monus
    <3> QED
      BY <3>13, <3>14
  <2> QED
    BY <2>3, <2>4
<1> QED
  BY <1>5, <1>8, <1>9, <1>10 DEF FollowsInv, Exact

(* A deletion that begins has taken nothing yet.                           *)
LEMMA BeginInv ==
    ASSUME FollowsInv, NEW u \in Users, BeginErasure(u)
    PROVE  FollowsInv'
<1>1. erasure' \in Erasures /\ erasure'.at = "followees" /\ erasure = None
  BY DEF BeginErasure, Erasures
<1>2. FollowsTypeOK' /\ CallsTyped' /\ IsFiniteSet(follows')
  BY <1>1 DEF FollowsInv, FollowsTypeOK, CallsTyped, BeginErasure
<1>3. Exact'
  <2>1. UNCHANGED <<follows, followers, following, erasureRaced>>
    BY DEF BeginErasure
  <2> QED
    BY <1>1, <2>1 DEF FollowsInv, Exact, FanGone, FolloweeGone, FollowersOf, FollowedBy
<1> QED
  BY <1>2, <1>3 DEF FollowsInv

(* A deletion under way, as the next lemmas take it. *)
LEMMA UnderWay ==
    ASSUME FollowsInv, erasure # None
    PROVE  /\ erasure \in Erasures /\ erasure.user \in Users
           /\ erasure.locked \subseteq Users
BY DEF FollowsInv, FollowsTypeOK, Erasures

LEMMA LeaveFolloweesInv ==
    ASSUME FollowsInv, LeaveFollowees
    PROVE  FollowsInv'
<1>1. PICK w \in Users : w = erasure.user
  BY UnderWay DEF LeaveFollowees
<1>2. PICK left \in SUBSET Users :
        left = Followees(w) /\ \A u \in Users : u \in left <=> <<w, u>> \in follows
  <2>1. follows \subseteq Users \X Users
    BY DEF FollowsInv, FollowsTypeOK
  <2>2. \A u : u \in Followees(w) <=> <<w, u>> \in follows
    BY <2>1 DEF Followees, FollowedBy
  <2>3. Followees(w) \in SUBSET Users
    <3>1. ASSUME NEW u, <<w, u>> \in follows PROVE u \in Users
      <4>1. <<w, u>> \in Users \X Users
        BY <2>1, <3>1
      <4> QED
        BY <4>1
    <3> QED
      BY <2>2, <3>1, Zenon
  <2>4. \A u \in Users : u \in Followees(w) <=> <<w, u>> \in follows
    BY <2>2
  <2> QED
    BY <2>3, <2>4, Zenon
<1>3. /\ followers' = [u \in Users |-> IF u \in left THEN Monus(followers[u], 1)
                                                    ELSE followers[u]]
      /\ erasure' = [[erasure EXCEPT !.at = "fans"] EXCEPT !.locked = left]
      /\ erasure # None /\ erasure.at = "followees"
      /\ UNCHANGED <<follows, following, followCalls, followsMade, erased, erasureRaced>>
  BY <1>1, <1>2 DEF LeaveFollowees
<1>4. /\ erasure' \in Erasures /\ erasure'.at = "fans" /\ erasure'.user = w
      /\ erasure' # None
  BY <1>1, <1>3, UnderWay, FollowsAssumption DEF Erasures
<1>5. \A k \in Nat : Monus(k, 1) \in Nat
  BY DEF Monus
<1>6. FollowsTypeOK' /\ CallsTyped' /\ IsFiniteSet(follows')
  BY <1>3, <1>4, <1>5 DEF FollowsInv, FollowsTypeOK, CallsTyped
<1>7. ASSUME ~erasureRaced, NEW u \in Users
      PROVE  /\ followers'[u] + FanGone(u)' = Cardinality(FollowersOf(u)')
             /\ following'[u] + FolloweeGone(u)' = Cardinality(FollowedBy(u)')
  <2>1. /\ followers[u] + FanGone(u) = Cardinality(FollowersOf(u))
        /\ following[u] + FolloweeGone(u) = Cardinality(FollowedBy(u))
    BY <1>7 DEF FollowsInv, Exact
  <2>2. FanGone(u) = 0 /\ FolloweeGone(u) = 0 /\ FolloweeGone(u)' = 0
    BY <1>3, <1>4 DEF FanGone, FolloweeGone
  <2>3. FanGone(u)' = IF u \in left THEN 1 ELSE 0
    BY <1>2, <1>3, <1>4 DEF FanGone
  <2>4. FollowersOf(u)' = FollowersOf(u) /\ FollowedBy(u)' = FollowedBy(u)
    BY <1>3 DEF FollowersOf, FollowedBy
  <2>5. u \in left => Cardinality(FollowersOf(u)) >= 1
    <3>1. u \in left => <<w, u>> \in FollowersOf(u)
      BY <1>2 DEF FollowersOf
    <3> QED
      BY <3>1, RowsCount, HasOne DEF FollowsInv
  <2>6. followers[u] \in Nat /\ following'[u] = following[u] /\ following[u] \in Nat
    BY <1>3 DEF FollowsInv, FollowsTypeOK
  <2>7. followers'[u] = IF u \in left THEN Monus(followers[u], 1) ELSE followers[u]
    BY <1>3
  <2> QED
    BY <2>1, <2>2, <2>3, <2>4, <2>5, <2>6, <2>7 DEF Monus
<1> QED
  BY <1>3, <1>6, <1>7 DEF FollowsInv, Exact

LEMMA LeaveFansInv ==
    ASSUME FollowsInv, LeaveFans
    PROVE  FollowsInv'
<1>1. PICK w \in Users : w = erasure.user
  BY UnderWay DEF LeaveFans
<1>2. PICK left \in SUBSET Users :
        left = Fans(w) /\ \A u \in Users : u \in left <=> <<u, w>> \in follows
  <2>1. follows \subseteq Users \X Users
    BY DEF FollowsInv, FollowsTypeOK
  <2>2. \A u : u \in Fans(w) <=> <<u, w>> \in follows
    BY <2>1 DEF Fans, FollowersOf
  <2>3. Fans(w) \in SUBSET Users
    <3>1. ASSUME NEW u, <<u, w>> \in follows PROVE u \in Users
      <4>1. <<u, w>> \in Users \X Users
        BY <2>1, <3>1
      <4> QED
        BY <4>1
    <3> QED
      BY <2>2, <3>1, Zenon
  <2>4. \A u \in Users : u \in Fans(w) <=> <<u, w>> \in follows
    BY <2>2
  <2> QED
    BY <2>3, <2>4, Zenon
<1>3. /\ following' = [u \in Users |-> IF u \in left THEN Monus(following[u], 1)
                                                    ELSE following[u]]
      /\ erasure' = [[erasure EXCEPT !.at = "rows"]
                        EXCEPT !.locked = erasure.locked \cup left]
      /\ erasure # None /\ erasure.at = "fans"
      /\ UNCHANGED <<follows, followers, followCalls, followsMade, erased, erasureRaced>>
  BY <1>1, <1>2 DEF LeaveFans
<1>4. /\ erasure' \in Erasures /\ erasure'.at = "rows" /\ erasure'.user = w
      /\ erasure' # None
  BY <1>1, <1>3, UnderWay, FollowsAssumption DEF Erasures
<1>5. \A k \in Nat : Monus(k, 1) \in Nat
  BY DEF Monus
<1>6. FollowsTypeOK' /\ CallsTyped' /\ IsFiniteSet(follows')
  BY <1>3, <1>4, <1>5 DEF FollowsInv, FollowsTypeOK, CallsTyped
<1>7. ASSUME ~erasureRaced, NEW u \in Users
      PROVE  /\ followers'[u] + FanGone(u)' = Cardinality(FollowersOf(u)')
             /\ following'[u] + FolloweeGone(u)' = Cardinality(FollowedBy(u)')
  <2>1. /\ followers[u] + FanGone(u) = Cardinality(FollowersOf(u))
        /\ following[u] + FolloweeGone(u) = Cardinality(FollowedBy(u))
    BY <1>7 DEF FollowsInv, Exact
  <2>2. FolloweeGone(u) = 0 /\ FanGone(u)' = FanGone(u)
    BY <1>1, <1>3, <1>4 DEF FanGone, FolloweeGone
  <2>3. FolloweeGone(u)' = IF u \in left THEN 1 ELSE 0
    BY <1>2, <1>3, <1>4 DEF FolloweeGone
  <2>4. FollowersOf(u)' = FollowersOf(u) /\ FollowedBy(u)' = FollowedBy(u)
    BY <1>3 DEF FollowersOf, FollowedBy
  <2>5. u \in left => Cardinality(FollowedBy(u)) >= 1
    <3>1. u \in left => <<u, w>> \in FollowedBy(u)
      BY <1>2 DEF FollowedBy
    <3> QED
      BY <3>1, RowsCount, HasOne DEF FollowsInv
  <2>6. followers'[u] = followers[u] /\ following[u] \in Nat
        /\ following'[u] = IF u \in left THEN Monus(following[u], 1) ELSE following[u]
    BY <1>3 DEF FollowsInv, FollowsTypeOK
  <2> QED
    BY <2>1, <2>2, <2>3, <2>4, <2>5, <2>6 DEF Monus
<1> QED
  BY <1>3, <1>6, <1>7 DEF FollowsInv, Exact

(* The rows follow the numbers.                                            *)
LEMMA EraseInv ==
    ASSUME FollowsInv, EraseFollows
    PROVE  FollowsInv'
<1>1. PICK w \in Users : w = erasure.user
  BY UnderWay DEF EraseFollows
<1>2. /\ follows' = follows \ (FollowersOf(w) \cup FollowedBy(w))
      /\ followers' = [followers EXCEPT ![w] = 0]
      /\ following' = [following EXCEPT ![w] = 0]
      /\ erasure # None /\ erasure.at = "rows" /\ erasure' = None
      /\ UNCHANGED <<followCalls, followsMade, erasureRaced>>
  BY <1>1 DEF EraseFollows
<1>3. follows' \in SUBSET follows /\ IsFiniteSet(follows')
  BY <1>2, FS_Subset DEF FollowsInv
<1>4. FollowsTypeOK' /\ CallsTyped'
  BY <1>2, <1>3 DEF FollowsInv, FollowsTypeOK, CallsTyped
<1>5. \A f \in follows : f \in Users \X Users
  BY DEF FollowsInv, FollowsTypeOK
<1>6. ASSUME ~erasureRaced, NEW u \in Users
      PROVE  /\ followers'[u] + FanGone(u)' = Cardinality(FollowersOf(u)')
             /\ following'[u] + FolloweeGone(u)' = Cardinality(FollowedBy(u)')
  <2>1. /\ followers[u] + FanGone(u) = Cardinality(FollowersOf(u))
        /\ following[u] + FolloweeGone(u) = Cardinality(FollowedBy(u))
    BY <1>6 DEF FollowsInv, Exact
  <2>2. FanGone(u)' = 0 /\ FolloweeGone(u)' = 0
    BY <1>2 DEF FanGone, FolloweeGone
  <2>3. CASE u = w
    <3>1. FollowersOf(u)' = {} /\ FollowedBy(u)' = {}
      BY <1>2, <2>3 DEF FollowersOf, FollowedBy
    <3>2. followers'[u] = 0 /\ following'[u] = 0
      BY <1>2, <2>3 DEF FollowsInv, FollowsTypeOK
    <3> QED
      BY <2>2, <3>1, <3>2, FS_EmptySet
  <2>4. CASE u # w
    <3>1. FollowersOf(u)' = FollowersOf(u) \ {<<w, u>>}
      BY <1>2, <1>5, <2>4 DEF FollowersOf, FollowedBy
    <3>2. FollowedBy(u)' = FollowedBy(u) \ {<<u, w>>}
      BY <1>2, <1>5, <2>4 DEF FollowersOf, FollowedBy
    <3>3. /\ Cardinality(FollowersOf(u) \ {<<w, u>>}) =
                 IF <<w, u>> \in FollowersOf(u) THEN Cardinality(FollowersOf(u)) - 1
                                               ELSE Cardinality(FollowersOf(u))
          /\ Cardinality(FollowedBy(u) \ {<<u, w>>}) =
                 IF <<u, w>> \in FollowedBy(u) THEN Cardinality(FollowedBy(u)) - 1
                                              ELSE Cardinality(FollowedBy(u))
      BY RowsCount, FS_RemoveElement DEF FollowsInv
    <3>4. /\ FanGone(u) = IF <<w, u>> \in FollowersOf(u) THEN 1 ELSE 0
          /\ FolloweeGone(u) = IF <<u, w>> \in FollowedBy(u) THEN 1 ELSE 0
      BY <1>1, <1>2 DEF FanGone, FolloweeGone, FollowersOf, FollowedBy
    <3>5. /\ followers'[u] = followers[u] /\ following'[u] = following[u]
          /\ followers[u] \in Nat /\ following[u] \in Nat
      BY <1>2, <2>4 DEF FollowsInv, FollowsTypeOK
    <3> QED
      BY <2>1, <2>2, <3>1, <3>2, <3>3, <3>4, <3>5
  <2> QED
    BY <2>3, <2>4
<1> QED
  BY <1>2, <1>3, <1>4, <1>6 DEF FollowsInv, Exact

LEMMA FollowsInitInv == FollowsInit => FollowsInv
<1> SUFFICES ASSUME FollowsInit PROVE FollowsInv
  OBVIOUS
<1>1. FollowsTypeOK /\ CallsTyped
  BY FollowsAssumption DEF FollowsInit, FollowsTypeOK, CallsTyped
<1>2. IsFiniteSet(follows) /\ \A u : FollowersOf(u) = {} /\ FollowedBy(u) = {}
  BY FS_EmptySet DEF FollowsInit, FollowersOf, FollowedBy
<1>3. Exact
  BY <1>2, FS_EmptySet DEF FollowsInit, Exact, FanGone, FolloweeGone
<1> QED
  BY <1>1, <1>2, <1>3 DEF FollowsInv

LEMMA FollowsNextInv == FollowsInv /\ [FollowsNext]_followVars => FollowsInv'
<1> SUFFICES ASSUME FollowsInv, [FollowsNext]_followVars PROVE FollowsInv'
  OBVIOUS
<1>1. ASSUME NEW r \in Requests, NEW a \in Users, NEW b \in Users,
             NEW next \in BOOLEAN, AskFollow(r, a, b, next)
      PROVE  FollowsInv'
  BY <1>1, AskInv
<1>2. ASSUME NEW r \in Requests, CheckFollow(r) \/ WriteFollow(r)
      PROVE  FollowsInv'
  BY <1>2, CheckInv, WriteInv
<1>3. ASSUME NEW u \in Users, BeginErasure(u)
      PROVE  FollowsInv'
  BY <1>3, BeginInv
<1>4. CASE LeaveFollowees \/ LeaveFans \/ EraseFollows
  BY <1>4, LeaveFolloweesInv, LeaveFansInv, EraseInv
<1>5. CASE UNCHANGED followVars
  <2>1. CallsTyped' /\ followsMade' \in 0 .. MaxFollows
    BY <1>5 DEF followVars, FollowsInv, CallsTyped, FollowsTypeOK
  <2> QED
    BY <1>5, <2>1, Undisturbed DEF followVars
<1> QED
  BY <1>1, <1>2, <1>3, <1>4, <1>5 DEF FollowsNext

-----------------------------------------------------------------------------
(* The numbers under a name are the rows, however many taps repeat and     *)
(* overlap, among any people, and through deletions nobody raced           *)
(* (follows.service.ts:61-69, users.service.ts:506-531).                   *)
THEOREM NumbersAreRows == FollowsSpec => [](FollowCountsAreRows /\ FollowsTypeOK)
<1>1. FollowsInv => FollowCountsAreRows
  <2> SUFFICES ASSUME FollowsInv, erasure = None, ~erasureRaced, NEW u \in Users
               PROVE  /\ followers[u] = Cardinality(FollowersOf(u))
                      /\ following[u] = Cardinality(FollowedBy(u))
    BY DEF FollowCountsAreRows
  <2>1. FanGone(u) = 0 /\ FolloweeGone(u) = 0
    BY DEF FanGone, FolloweeGone
  <2>2. followers[u] \in Nat /\ following[u] \in Nat
    BY DEF FollowsInv, FollowsTypeOK
  <2> QED
    BY <2>1, <2>2 DEF FollowsInv, Exact
<1>2. FollowsInv => FollowsTypeOK
  BY DEF FollowsInv
<1> QED
  BY FollowsInitInv, FollowsNextInv, <1>1, <1>2, PTL DEF FollowsSpec

(***************************************************************************)
(* Complaints about reels (Flags)                                          *)
(***************************************************************************)
(* A decision goes through these, in this order. *)
Deciding == {"decide", "takeDown", "others"}

FlagCallType ==
    {Idle}
    \cup [at : {"insert"}, target : Targets, by : Users]
    \cup [at : Deciding, id : Nat, target : Targets, decision : Decisions,
          remove : BOOLEAN]

(* A decision is about the target of its complaint, for as long as there   *)
(* is one, and upholds it before it goes on to the others.                 *)
DecisionSound(c, made, rows, up) ==
    c.at \in Deciding =>
      /\ c.id <= made
      /\ c.id \in DOMAIN rows => rows[c.id].target = c.target
      /\ c.at = "others" => c.decision = "RESOLVED"
      /\ c.at # "decide" /\ c.decision = "RESOLVED" => c.target \in up

(* What was to go and what was to be closed is, unless a request is still  *)
(* about to see to it.                                                     *)
StillToFall(t) ==
    \E r \in Requests : flagCalls[r].at = "takeDown" /\ flagCalls[r].target = t
StillToClose(t) ==
    \E r \in Requests : /\ flagCalls[r].at \in {"takeDown", "others"}
                        /\ flagCalls[r].target = t
                        /\ flagCalls[r].decision = "RESOLVED"

(* A complaint about t is open that there was when one was upheld.         *)
Unclosed(t) ==
    \E k \in DOMAIN flags :
       flags[k].target = t /\ flags[k].status = "OPEN" /\ k <= closed[t]

FlagsInv ==
    /\ FlagsTypeOK
    /\ flagsMade \in Nat /\ outages \in Nat
    /\ closed \in [Targets -> Nat]
    /\ \A t \in Targets : closed[t] <= flagsMade
    /\ upheld \subseteq Targets
    /\ flagCalls \in [Requests -> FlagCallType]
    /\ \A r \in Requests : DecisionSound(flagCalls[r], flagsMade, flags, upheld)
    /\ \A k \in DOMAIN flags :
          flags[k].status = "RESOLVED" => flags[k].target \in upheld
    /\ outages = 0 =>
          /\ \A t \in condemned \cap standing : StillToFall(t)
          /\ \A t \in upheld : Unclosed(t) => StillToClose(t)

-----------------------------------------------------------------------------
LEMMA FlagCallFields ==
    ASSUME NEW c \in FlagCallType
    PROVE  /\ c.at \in Deciding =>
                /\ c.id \in Nat /\ c.target \in Targets
                /\ c.decision \in Decisions /\ c.remove \in BOOLEAN
                /\ c = [at |-> c.at, id |-> c.id, target |-> c.target,
                        decision |-> c.decision, remove |-> c.remove]
           /\ c.at = "insert" => c.target \in Targets /\ c.by \in Users
BY DEF FlagCallType, Idle, Deciding

LEMMA FlagIdle ==
    /\ Idle \in FlagCallType /\ Idle.at = "idle"
    /\ \A made, rows, up : DecisionSound(Idle, made, rows, up)
BY DEF FlagCallType, Idle, DecisionSound, Deciding

(* What comes after a statement is about the same target.                  *)
LEMMA AfterwardsSame ==
    ASSUME NEW c \in FlagCallType, c.at \in {"decide", "takeDown"},
           NEW n, n = Afterwards(c)
    PROVE  /\ n \in FlagCallType
           /\ n = Idle \/ /\ n.at \in {"takeDown", "others"}
                          /\ n.id = c.id /\ n.target = c.target
                          /\ n.decision = c.decision
                          /\ n.at = "others" => c.decision = "RESOLVED"
           /\ c.at = "decide" /\ c.remove => n.at = "takeDown"
           /\ c.decision = "RESOLVED" => n # Idle
<1>1. PICK at \in Deciding, id \in Nat, t \in Targets, d \in Decisions, rm \in BOOLEAN :
        c = [at |-> at, id |-> id, target |-> t, decision |-> d, remove |-> rm]
  BY FlagCallFields DEF Deciding
<1>2. CASE c.at = "decide" /\ c.remove
  <2>1. n = [at |-> "takeDown", id |-> id, target |-> t, decision |-> d, remove |-> rm]
    BY <1>1, <1>2 DEF Afterwards
  <2>2. n \in FlagCallType /\ n.at = "takeDown" /\ n.id = c.id /\ n.target = c.target
        /\ n.decision = c.decision /\ n # Idle
    BY <1>1, <2>1 DEF FlagCallType, Deciding, Idle
  <2> QED
    BY <1>2, <2>2
<1>3. CASE ~(c.at = "decide" /\ c.remove) /\ c.decision = "RESOLVED"
  <2>1. n = [at |-> "others", id |-> id, target |-> t, decision |-> d, remove |-> rm]
    BY <1>1, <1>3 DEF Afterwards
  <2>2. n \in FlagCallType /\ n.at = "others" /\ n.id = c.id /\ n.target = c.target
        /\ n.decision = c.decision /\ n # Idle
    BY <1>1, <2>1 DEF FlagCallType, Deciding, Idle
  <2> QED
    BY <1>3, <2>2
<1>4. CASE ~(c.at = "decide" /\ c.remove) /\ c.decision # "RESOLVED"
  BY <1>4, FlagIdle DEF Afterwards
<1> QED
  BY <1>2, <1>3, <1>4

(* Rows that keep their target, and requests that went on with theirs.     *)
LEMMA SoundStays ==
    ASSUME NEW c, NEW made \in Nat, NEW made1 \in Nat, NEW rows, NEW rows1, NEW up, NEW up1,
           c \in FlagCallType, DecisionSound(c, made, rows, up), made <= made1, up \subseteq up1,
           \A k \in DOMAIN rows1 :
             \/ k \in DOMAIN rows /\ rows1[k].target = rows[k].target
             \/ k > made
    PROVE  DecisionSound(c, made1, rows1, up1)
BY FlagCallFields DEF DecisionSound

(* A step that gives r its next call, when everything else is in order.    *)
LEMMA FlagsKeep ==
    ASSUME FlagsInv, NEW r \in Requests, NEW call \in FlagCallType,
           flagCalls' = [flagCalls EXCEPT ![r] = call],
           FlagsTypeOK', flagsMade' \in Nat, flagsMade <= flagsMade',
           outages' = outages, upheld \subseteq upheld',
           \A k \in DOMAIN flags' :
             \/ k \in DOMAIN flags /\ flags'[k].target = flags[k].target
             \/ k > flagsMade,
           DecisionSound(call, flagsMade', flags', upheld')
    PROVE  /\ flagCalls' \in [Requests -> FlagCallType]
           /\ outages' \in Nat
           /\ \A s \in Requests : DecisionSound(flagCalls'[s], flagsMade', flags', upheld')
           /\ flagCalls'[r] = call
           /\ \A s \in Requests : s # r => flagCalls'[s] = flagCalls[s]
<1>1. flagCalls \in [Requests -> FlagCallType] /\ flagsMade \in Nat /\ outages \in Nat
  BY DEF FlagsInv
<1>2. ASSUME NEW s \in Requests
      PROVE  DecisionSound(flagCalls[s], flagsMade', flags', upheld')
  <2>1. DecisionSound(flagCalls[s], flagsMade, flags, upheld)
    BY DEF FlagsInv
  <2> QED
    BY <1>1, <2>1, SoundStays
<1>3. /\ flagCalls' \in [Requests -> FlagCallType] /\ flagCalls'[r] = call
      /\ \A s \in Requests : s # r => flagCalls'[s] = flagCalls[s]
  BY <1>1
<1> QED
  BY <1>1, <1>2, <1>3

(* Steps of others leave what a decision is about to do to it.             *)
LEMMA StillKept ==
    ASSUME NEW r \in Requests, flagCalls[r].at \notin Deciding, NEW t,
           \A s \in Requests : s # r => flagCalls'[s] = flagCalls[s]
    PROVE  (StillToFall(t) => StillToFall(t)') /\ (StillToClose(t) => StillToClose(t)')
BY DEF StillToFall, StillToClose, Deciding

LEMMA FlagsInitInv == FlagsInit => FlagsInv
BY FlagIdle DEF FlagsInit, FlagsInv, FlagsTypeOK

(* Steps that touch neither targets, complaints nor decisions.             *)
LEMMA AskingInv ==
    ASSUME FlagsInv, NEW r \in Requests, NEW call \in FlagCallType,
           flagCalls[r].at \notin Deciding, FlagGoes(r, call),
           DecisionSound(call, flagsMade, flags, upheld),
           UNCHANGED <<standing, flags, flagsMade, flagGhosts>>
    PROVE  FlagsInv'
<1>1. FlagsTypeOK' /\ flagsMade \in Nat
  BY DEF FlagsInv, FlagsTypeOK
<1>2. /\ flagCalls' \in [Requests -> FlagCallType]
      /\ \A s \in Requests : DecisionSound(flagCalls'[s], flagsMade', flags', upheld')
      /\ \A s \in Requests : s # r => flagCalls'[s] = flagCalls[s]
  <2>1. /\ \A k \in DOMAIN flags' : k \in DOMAIN flags /\ flags'[k].target = flags[k].target
        /\ flagsMade' \in Nat /\ flagsMade <= flagsMade' /\ outages' = outages
        /\ upheld \subseteq upheld'
        /\ DecisionSound(call, flagsMade', flags', upheld')
    BY <1>1 DEF flagGhosts
  <2> QED
    BY <1>1, <2>1, FlagsKeep DEF FlagGoes
<1>3. ASSUME NEW t \in Targets
      PROVE  (StillToFall(t) => StillToFall(t)') /\ (StillToClose(t) => StillToClose(t)')
  BY <1>2, StillKept
<1>4. /\ UNCHANGED <<standing, flags, flagsMade, outages, closed, upheld, condemned>>
      /\ standing \subseteq Targets /\ upheld \subseteq Targets
  BY DEF FlagsInv, FlagsTypeOK, flagGhosts
<1>5. ASSUME outages' = 0, NEW x \in condemned' \cap standing' PROVE StillToFall(x)'
  BY <1>3, <1>4, <1>5 DEF FlagsInv
<1>6. ASSUME outages' = 0, NEW x \in upheld', Unclosed(x)' PROVE StillToClose(x)'
  <2>1. Unclosed(x)
    BY <1>4, <1>6 DEF Unclosed
  <2> QED
    BY <1>3, <1>4, <1>6, <2>1 DEF FlagsInv
<1> QED
  BY <1>1, <1>2, <1>4, <1>5, <1>6 DEF FlagsInv

LEMMA AskFlagInv ==
    ASSUME FlagsInv, NEW r \in Requests, NEW t \in Targets, NEW u \in Users, AskFlag(r, t, u)
    PROVE  FlagsInv'
<1> DEFINE call == [at |-> "insert", target |-> t, by |-> u]
<1>1. call \in FlagCallType /\ DecisionSound(call, flagsMade, flags, upheld)
  BY DEF FlagCallType, DecisionSound, Deciding
<1>2. flagCalls[r].at \notin Deciding
  BY FlagIdle DEF AskFlag, Deciding
<1> HIDE DEF call
<1> QED
  BY <1>1, <1>2, AskingInv DEF AskFlag, call

LEMMA AskDecisionInv ==
    ASSUME FlagsInv, NEW r \in Requests, NEW k \in DOMAIN flags, NEW d \in Decisions,
           NEW remove \in BOOLEAN, AskDecision(r, k, d, remove)
    PROVE  FlagsInv'
<1> DEFINE call == [at |-> "decide", id |-> k, target |-> flags[k].target,
                    decision |-> d, remove |-> remove]
<1>1. k \in 1 .. flagsMade /\ flagsMade \in Nat /\ flags[k].target \in Targets
  BY DEF FlagsInv, FlagsTypeOK
<1>2. call \in FlagCallType
  BY <1>1 DEF FlagCallType, Deciding
<1>3. DecisionSound(call, flagsMade, flags, upheld)
  BY <1>1 DEF DecisionSound, Deciding
<1>4. flagCalls[r].at \notin Deciding
  BY FlagIdle DEF AskDecision, Deciding
<1> HIDE DEF call
<1> QED
  BY <1>2, <1>3, <1>4, AskingInv DEF AskDecision, call

LEMMA InsertFlagInv ==
    ASSUME FlagsInv, NEW r \in Requests, InsertFlag(r)
    PROVE  FlagsInv'
<1>1. flagCalls[r].at = "insert" /\ flagCalls[r].at \notin Deciding
  BY DEF InsertFlag, Deciding
<1>2. CASE Refused(flagCalls[r])
  BY <1>1, <1>2, FlagIdle, AskingInv DEF InsertFlag
<1>3. CASE ~Refused(flagCalls[r])
  <2>1. PICK t \in Targets, u \in Users : flagCalls[r].target = t /\ flagCalls[r].by = u
    BY <1>1, FlagCallFields DEF FlagsInv
  <2>2. flagsMade \in Nat /\ DOMAIN flags \subseteq 1 .. flagsMade
    BY DEF FlagsInv, FlagsTypeOK
  <2>3. PICK made : made = flagsMade + 1
    OBVIOUS
  <2>4. PICK row : row = [target |-> t, by |-> u, status |-> "OPEN"]
    OBVIOUS
  <2>5. /\ flagsMade' = made /\ flags' = With(flags, made, row)
        /\ UNCHANGED <<standing, flagGhosts>> /\ FlagGoes(r, Idle)
    BY <1>3, <2>1, <2>3, <2>4 DEF InsertFlag
  <2>6. /\ DOMAIN flags' = DOMAIN flags \cup {made} /\ flags'[made] = row
        /\ \A k \in DOMAIN flags : flags'[k] = flags[k]
    BY <2>2, <2>3, <2>5 DEF With
  <2>7. FlagsTypeOK'
    <3>1. row \in [target : Targets, by : Users, status : Decisions \cup {"OPEN"}]
      BY <2>4
    <3>2. DOMAIN flags' \subseteq 1 .. flagsMade'
      BY <2>2, <2>3, <2>5, <2>6
    <3> QED
      BY <2>5, <2>6, <3>1, <3>2 DEF FlagsInv, FlagsTypeOK
  <2>8. /\ flagCalls' \in [Requests -> FlagCallType]
        /\ outages' \in Nat /\ flagsMade' \in Nat
        /\ \A s \in Requests : DecisionSound(flagCalls'[s], flagsMade', flags', upheld')
        /\ \A s \in Requests : s # r => flagCalls'[s] = flagCalls[s]
    <3>1. flagsMade' \in Nat /\ flagsMade <= flagsMade' /\ made > flagsMade
      BY <2>2, <2>3, <2>5
    <3>2. \A k \in DOMAIN flags' :
            \/ k \in DOMAIN flags /\ flags'[k].target = flags[k].target
            \/ k > flagsMade
      BY <2>6, <3>1
    <3>3. upheld \subseteq upheld' /\ outages' = outages
      BY <2>5 DEF flagGhosts
    <3> QED
      BY <2>5, <2>7, <3>1, <3>2, <3>3, FlagIdle, FlagsKeep DEF FlagGoes
  <2>10. /\ closed' \in [Targets -> Nat]
         /\ \A x \in Targets : closed'[x] <= flagsMade' /\ closed'[x] < made
    BY <2>2, <2>3, <2>5 DEF FlagsInv, flagGhosts
  <2>11. row.status = "OPEN" /\ row.target = t
    BY <2>4
  <2>12. \A k \in DOMAIN flags' :
           flags'[k].status = "RESOLVED" => flags'[k].target \in upheld'
    BY <2>5, <2>6, <2>11 DEF FlagsInv, flagGhosts
  <2>13. outages' = 0 => \A x \in condemned' \cap standing' : StillToFall(x)'
    <3>1. condemned' = condemned /\ standing' = standing /\ outages' = outages
      BY <2>5 DEF flagGhosts
    <3>2. standing \subseteq Targets
      BY DEF FlagsInv, FlagsTypeOK
    <3>3. outages = 0 => \A x \in condemned \cap standing : StillToFall(x)
      BY DEF FlagsInv
    <3>4. ASSUME NEW x \in Targets, StillToFall(x) PROVE StillToFall(x)'
      BY <1>1, <2>8, <3>4, StillKept
    <3>5. SUFFICES ASSUME outages' = 0, NEW x \in condemned' \cap standing'
                   PROVE  StillToFall(x)'
      OBVIOUS
    <3> QED
      BY <3>1, <3>2, <3>3, <3>4, <3>5
  <2>14. outages' = 0 => \A x \in upheld' : Unclosed(x)' => StillToClose(x)'
    <3> SUFFICES ASSUME outages' = 0, NEW x \in upheld', Unclosed(x)'
                 PROVE  StillToClose(x)'
      OBVIOUS
    <3>1. PICK k \in DOMAIN flags' : /\ flags'[k].target = x /\ flags'[k].status = "OPEN"
                                     /\ k <= closed'[x]
      BY DEF Unclosed
    <3>2. x \in upheld /\ x \in Targets /\ outages = 0 /\ closed' = closed
      BY <2>5 DEF FlagsInv, flagGhosts
    <3>3. k # made
      BY <2>2, <2>3, <2>10, <3>1, <3>2
    <3>4. k \in DOMAIN flags /\ flags'[k] = flags[k]
      BY <2>6, <3>3
    <3>5. Unclosed(x)
      BY <3>1, <3>2, <3>4 DEF Unclosed
    <3>6. StillToClose(x)
      BY <3>2, <3>5 DEF FlagsInv
    <3> QED
      BY <1>1, <2>8, <3>6, StillKept
  <2>15. upheld' \subseteq Targets
    BY <2>5 DEF FlagsInv, flagGhosts
  <2> QED
    BY <2>7, <2>8, <2>10, <2>12, <2>13, <2>14, <2>15 DEF FlagsInv
<1> QED
  BY <1>2, <1>3

(* A target that falls, and the rows that fall with it.                    *)
LEMMA FallsKeeps ==
    ASSUME FlagsInv, NEW t \in Targets, Falls(t)
    PROVE  /\ standing' \subseteq Targets
           /\ standing' = standing \ {t}
           /\ \A k \in DOMAIN flags' : k \in DOMAIN flags /\ flags'[k] = flags[k]
           /\ \A k \in DOMAIN flags' : flags'[k] \in
                 [target : Targets, by : Users, status : Decisions \cup {"OPEN"}]
<1>1. \A k \in DOMAIN flags' : k \in DOMAIN flags /\ flags'[k] = flags[k]
  BY DEF Falls, Without
<1> QED
  BY <1>1 DEF FlagsInv, FlagsTypeOK, Falls

LEMMA FlagTakeDownInv ==
    ASSUME FlagsInv, NEW r \in Requests, FlagTakeDown(r)
    PROVE  FlagsInv'
<1>1. PICK c : c = flagCalls[r]
  OBVIOUS
<1>2. c \in FlagCallType /\ c.at = "takeDown" /\ DecisionSound(c, flagsMade, flags, upheld)
  BY <1>1 DEF FlagsInv, FlagTakeDown
<1>3. PICK t \in Targets : t = c.target
  BY <1>2, FlagCallFields DEF Deciding
<1>4. PICK n : n = Afterwards(c)
  OBVIOUS
<1>5. /\ n \in FlagCallType
      /\ n = Idle \/ /\ n.at \in {"takeDown", "others"}
                     /\ n.id = c.id /\ n.target = t /\ n.decision = c.decision
                     /\ n.at = "others" => c.decision = "RESOLVED"
      /\ c.decision = "RESOLVED" => n # Idle
  BY <1>2, <1>3, <1>4, AfterwardsSame
<1>6. /\ Falls(t) /\ FlagGoes(r, n)
      /\ UNCHANGED <<flagsMade, outages, closed, upheld, condemned>>
  BY <1>1, <1>3, <1>4 DEF FlagTakeDown, flagGhosts
<1>7. FlagsTypeOK' /\ flagsMade \in Nat
  BY <1>6, FallsKeeps DEF FlagsInv, FlagsTypeOK
<1>8. DecisionSound(n, flagsMade', flags', upheld')
  <2>1. CASE n = Idle
    BY <2>1, FlagIdle
  <2>2. CASE n # Idle
    BY <1>2, <1>3, <1>5, <1>6, <2>2, FallsKeeps DEF DecisionSound, Deciding
  <2> QED
    BY <2>1, <2>2
<1>9. /\ flagCalls' \in [Requests -> FlagCallType]
      /\ \A s \in Requests : DecisionSound(flagCalls'[s], flagsMade', flags', upheld')
      /\ flagCalls'[r] = n
      /\ \A s \in Requests : s # r => flagCalls'[s] = flagCalls[s]
  <2>1. /\ \A k \in DOMAIN flags' : k \in DOMAIN flags /\ flags'[k].target = flags[k].target
        /\ flagsMade' \in Nat /\ flagsMade <= flagsMade' /\ outages' = outages
        /\ upheld \subseteq upheld'
    BY <1>6, <1>7, FallsKeeps
  <2> QED
    BY <1>5, <1>6, <1>7, <1>8, <2>1, FlagsKeep DEF FlagGoes
<1>10. ASSUME outages' = 0, NEW x \in condemned' \cap standing' PROVE StillToFall(x)'
  <2>1. x # t /\ x \in condemned \cap standing /\ outages = 0
    BY <1>6, <1>10, FallsKeeps
  <2>2. PICK s \in Requests : flagCalls[s].at = "takeDown" /\ flagCalls[s].target = x
    BY <2>1 DEF FlagsInv, StillToFall
  <2>3. s # r
    BY <1>1, <1>3, <2>1, <2>2
  <2> QED
    BY <1>9, <2>2, <2>3 DEF StillToFall
<1>11. ASSUME outages' = 0, NEW x \in upheld', Unclosed(x)' PROVE StillToClose(x)'
  <2>1. Unclosed(x)
    BY <1>6, <1>11, FallsKeeps DEF Unclosed
  <2>2. PICK s \in Requests : /\ flagCalls[s].at \in {"takeDown", "others"}
                              /\ flagCalls[s].target = x
                              /\ flagCalls[s].decision = "RESOLVED"
    BY <1>6, <1>11, <2>1 DEF FlagsInv, StillToClose
  <2>3. CASE s = r
    BY <1>1, <1>3, <1>5, <1>9, <2>2, <2>3 DEF StillToClose
  <2>4. CASE s # r
    BY <1>9, <2>2, <2>4 DEF StillToClose
  <2> QED
    BY <2>3, <2>4
<1>12. \A k \in DOMAIN flags' :
         flags'[k].status = "RESOLVED" => flags'[k].target \in upheld'
  BY <1>6, FallsKeeps DEF FlagsInv
<1> QED
  BY <1>6, <1>7, <1>9, <1>10, <1>11, <1>12 DEF FlagsInv

LEMMA WithdrawInv ==
    ASSUME FlagsInv, NEW t \in Targets, Withdraw(t)
    PROVE  FlagsInv'
<1>1. Falls(t) /\ UNCHANGED <<flagsMade, flagCalls, outages, closed, upheld, condemned>>
  BY DEF Withdraw, flagGhosts
<1>2. FlagsTypeOK' /\ flagsMade \in Nat
  BY <1>1, FallsKeeps DEF FlagsInv, FlagsTypeOK
<1>3. ASSUME NEW s \in Requests
      PROVE  DecisionSound(flagCalls'[s], flagsMade', flags', upheld')
  <2>1. DecisionSound(flagCalls[s], flagsMade, flags, upheld)
    BY DEF FlagsInv
  <2> QED
    BY <1>1, <2>1, FallsKeeps DEF DecisionSound
<1>4. ASSUME NEW x \in condemned' \cap standing', outages' = 0 PROVE StillToFall(x)'
  BY <1>1, <1>4, FallsKeeps DEF FlagsInv, StillToFall
<1>5. ASSUME NEW x \in upheld', Unclosed(x)', outages' = 0 PROVE StillToClose(x)'
  <2>1. Unclosed(x)
    BY <1>1, <1>5, FallsKeeps DEF Unclosed
  <2> QED
    BY <1>1, <1>5, <2>1 DEF FlagsInv, StillToClose
<1>6. \A k \in DOMAIN flags' :
         flags'[k].status = "RESOLVED" => flags'[k].target \in upheld'
  BY <1>1, FallsKeeps DEF FlagsInv
<1> QED
  BY <1>1, <1>2, <1>3, <1>4, <1>5, <1>6 DEF FlagsInv

(* Complaints that are decided keep everything else.                       *)
LEMMA Decided ==
    ASSUME FlagsInv, NEW S, NEW d \in Decisions, NEW rows,
           rows = [k \in DOMAIN flags |-> IF k \in S THEN [flags[k] EXCEPT !.status = d]
                                         ELSE flags[k]]
    PROVE  /\ DOMAIN rows = DOMAIN flags
           /\ \A k \in DOMAIN flags :
                /\ rows[k] \in [target : Targets, by : Users, status : Decisions \cup {"OPEN"}]
                /\ rows[k].target = flags[k].target
                /\ rows[k].status = IF k \in S THEN d ELSE flags[k].status
<1>1. ASSUME NEW k \in DOMAIN flags
      PROVE  /\ rows[k] \in [target : Targets, by : Users, status : Decisions \cup {"OPEN"}]
             /\ rows[k].target = flags[k].target
             /\ rows[k].status = IF k \in S THEN d ELSE flags[k].status
  <2>1. PICK t \in Targets, u \in Users, st \in Decisions \cup {"OPEN"} :
          flags[k] = [target |-> t, by |-> u, status |-> st]
    BY DEF FlagsInv, FlagsTypeOK
  <2>2. rows[k] = [target |-> t, by |-> u, status |-> IF k \in S THEN d ELSE st]
    BY <2>1
  <2> QED
    BY <2>1, <2>2
<1> QED
  BY <1>1

LEMMA CloseOthersInv ==
    ASSUME FlagsInv, NEW r \in Requests, CloseOthers(r)
    PROVE  FlagsInv'
<1>1. PICK c : c = flagCalls[r]
  OBVIOUS
<1>2. c \in FlagCallType /\ c.at = "others" /\ DecisionSound(c, flagsMade, flags, upheld)
  BY <1>1 DEF FlagsInv, CloseOthers
<1>3. PICK t \in Targets : t = c.target
  BY <1>2, FlagCallFields DEF Deciding
<1>4. /\ FlagGoes(r, Idle)
      /\ UNCHANGED <<standing, flagsMade, outages, closed, upheld, condemned>>
      /\ t \in upheld
  BY <1>1, <1>2, <1>3 DEF CloseOthers, flagGhosts, DecisionSound, Deciding
<1>5. PICK S : S = {k \in DOMAIN flags : flags[k].target = t /\ flags[k].status = "OPEN"}
  OBVIOUS
<1>6. flags' = [k \in DOMAIN flags |-> IF k \in S THEN [flags[k] EXCEPT !.status = "RESOLVED"]
                                       ELSE flags[k]]
  BY <1>1, <1>3, <1>5 DEF CloseOthers, Others, About
<1>7. /\ DOMAIN flags' = DOMAIN flags
      /\ \A k \in DOMAIN flags :
           /\ flags'[k] \in [target : Targets, by : Users, status : Decisions \cup {"OPEN"}]
           /\ flags'[k].target = flags[k].target
           /\ flags'[k].status = IF k \in S THEN "RESOLVED" ELSE flags[k].status
  BY <1>6, Decided DEF Decisions
<1>8. FlagsTypeOK' /\ flagsMade \in Nat
  BY <1>4, <1>7 DEF FlagsInv, FlagsTypeOK
<1>9. /\ flagCalls' \in [Requests -> FlagCallType]
      /\ \A s \in Requests : DecisionSound(flagCalls'[s], flagsMade', flags', upheld')
      /\ \A s \in Requests : s # r => flagCalls'[s] = flagCalls[s]
  <2>1. /\ \A k \in DOMAIN flags' : k \in DOMAIN flags /\ flags'[k].target = flags[k].target
        /\ flagsMade' \in Nat /\ flagsMade <= flagsMade' /\ outages' = outages
        /\ upheld \subseteq upheld'
    BY <1>4, <1>7, <1>8
  <2> QED
    BY <1>4, <1>8, <2>1, FlagIdle, FlagsKeep DEF FlagGoes
<1>10. ASSUME outages' = 0, NEW x \in condemned' \cap standing' PROVE StillToFall(x)'
  <2>1. PICK s \in Requests : flagCalls[s].at = "takeDown" /\ flagCalls[s].target = x
    BY <1>4, <1>10 DEF FlagsInv, StillToFall
  <2> QED
    BY <1>1, <1>2, <1>9, <2>1 DEF StillToFall
<1>11. ASSUME outages' = 0, NEW x \in upheld', Unclosed(x)' PROVE StillToClose(x)'
  <2>1. PICK k \in DOMAIN flags : /\ flags[k].target = x /\ flags'[k].status = "OPEN"
                                  /\ k <= closed[x]
    BY <1>4, <1>7, <1>11 DEF Unclosed
  <2>2. k \notin S /\ flags[k].status = "OPEN"
    BY <1>7, <2>1
  <2>3. x # t
    BY <1>5, <2>1, <2>2
  <2>4. Unclosed(x)
    BY <2>1, <2>2 DEF Unclosed
  <2>5. StillToClose(x)
    BY <1>4, <1>11, <2>4 DEF FlagsInv
  <2> QED
    BY <1>1, <1>3, <1>9, <2>3, <2>5 DEF StillToClose
<1>12. \A k \in DOMAIN flags' :
         flags'[k].status = "RESOLVED" => flags'[k].target \in upheld'
  BY <1>4, <1>5, <1>7 DEF FlagsInv
<1> QED
  BY <1>4, <1>8, <1>9, <1>10, <1>11, <1>12 DEF FlagsInv

LEMMA DecideInv ==
    ASSUME FlagsInv, NEW r \in Requests, Decide(r)
    PROVE  FlagsInv'
<1>1. PICK c : c = flagCalls[r]
  OBVIOUS
<1>2. c \in FlagCallType /\ c.at = "decide" /\ DecisionSound(c, flagsMade, flags, upheld)
  BY <1>1 DEF FlagsInv, Decide
<1>3. PICK t \in Targets, d \in Decisions : t = c.target /\ d = c.decision
  BY <1>2, FlagCallFields DEF Deciding
<1>4. PICK n : n = Afterwards(c)
  OBVIOUS
<1>5. /\ n \in FlagCallType
      /\ n = Idle \/ /\ n.at \in {"takeDown", "others"}
                     /\ n.id = c.id /\ n.target = t /\ n.decision = d
                     /\ n.at = "others" => d = "RESOLVED"
      /\ c.remove => n.at = "takeDown"
      /\ d = "RESOLVED" => n # Idle
  BY <1>2, <1>3, <1>4, AfterwardsSame
<1>6. /\ FlagGoes(r, n) /\ UNCHANGED <<standing, flagsMade, outages>>
      /\ upheld' = IF d = "RESOLVED" THEN upheld \cup {t} ELSE upheld
      /\ closed' = IF d = "RESOLVED" THEN [closed EXCEPT ![t] = flagsMade] ELSE closed
      /\ condemned' = IF c.remove THEN condemned \cup {t} ELSE condemned
  BY <1>1, <1>3, <1>4 DEF Decide
<1>7. PICK S : S = {c.id}
  OBVIOUS
<1>8. flags' = [k \in DOMAIN flags |-> IF k \in S THEN [flags[k] EXCEPT !.status = d]
                                       ELSE flags[k]]
  BY <1>1, <1>3, <1>7 DEF Decide
<1>9. /\ DOMAIN flags' = DOMAIN flags
      /\ \A k \in DOMAIN flags :
           /\ flags'[k] \in [target : Targets, by : Users, status : Decisions \cup {"OPEN"}]
           /\ flags'[k].target = flags[k].target
           /\ flags'[k].status = IF k \in S THEN d ELSE flags[k].status
  BY <1>8, Decided
<1>10. FlagsTypeOK' /\ flagsMade \in Nat /\ upheld \subseteq upheld' /\ upheld' \subseteq Targets
  BY <1>6, <1>9 DEF FlagsInv, FlagsTypeOK
<1>11. DecisionSound(n, flagsMade', flags', upheld')
  <2>1. CASE n = Idle
    BY <2>1, FlagIdle
  <2>2. CASE n # Idle
    BY <1>2, <1>3, <1>5, <1>6, <1>9, <2>2 DEF DecisionSound, Deciding
  <2> QED
    BY <2>1, <2>2
<1>12. /\ flagCalls' \in [Requests -> FlagCallType]
       /\ \A s \in Requests : DecisionSound(flagCalls'[s], flagsMade', flags', upheld')
       /\ flagCalls'[r] = n
       /\ \A s \in Requests : s # r => flagCalls'[s] = flagCalls[s]
  <2>1. /\ \A k \in DOMAIN flags' : k \in DOMAIN flags /\ flags'[k].target = flags[k].target
        /\ flagsMade' \in Nat /\ flagsMade <= flagsMade' /\ outages' = outages
    BY <1>6, <1>9, <1>10
  <2> QED
    BY <1>5, <1>6, <1>10, <1>11, <2>1, FlagsKeep DEF FlagGoes
<1>13. /\ closed' \in [Targets -> Nat]
       /\ \A x \in Targets : closed'[x] <= flagsMade'
       /\ \A x \in Targets : x # t \/ d # "RESOLVED" => closed'[x] = closed[x]
  BY <1>6, <1>10 DEF FlagsInv
<1>14. ASSUME outages' = 0, NEW x \in condemned' \cap standing' PROVE StillToFall(x)'
  <2>1. CASE x = t /\ c.remove
    BY <1>5, <1>12, <2>1, FlagIdle DEF StillToFall
  <2>2. CASE x # t \/ ~c.remove
    <3>1. x \in condemned \cap standing /\ outages = 0
      BY <1>6, <1>14, <2>2
    <3>2. PICK s \in Requests : flagCalls[s].at = "takeDown" /\ flagCalls[s].target = x
      BY <3>1 DEF FlagsInv, StillToFall
    <3> QED
      BY <1>1, <1>2, <1>12, <3>2 DEF StillToFall
  <2> QED
    BY <2>1, <2>2
<1>15. ASSUME outages' = 0, NEW x \in upheld', Unclosed(x)' PROVE StillToClose(x)'
  <2>1. CASE x = t /\ d = "RESOLVED"
    BY <1>5, <1>12, <2>1 DEF StillToClose
  <2>2. CASE x # t \/ d # "RESOLVED"
    <3>0. x \in Targets /\ x \in upheld
      BY <1>6, <1>10, <1>15, <2>2
    <3>1. PICK k \in DOMAIN flags : /\ flags[k].target = x /\ flags'[k].status = "OPEN"
                                    /\ k <= closed'[x]
      BY <1>9, <1>15 DEF Unclosed
    <3>2. flags[k].status = "OPEN"
      BY <1>9, <3>1 DEF Decisions
    <3>3. Unclosed(x)
      BY <1>13, <2>2, <3>0, <3>1, <3>2 DEF Unclosed
    <3>4. PICK s \in Requests : /\ flagCalls[s].at \in {"takeDown", "others"}
                                /\ flagCalls[s].target = x
                                /\ flagCalls[s].decision = "RESOLVED"
      BY <1>6, <1>15, <3>0, <3>3 DEF FlagsInv, StillToClose
    <3> QED
      BY <1>1, <1>2, <1>12, <3>4 DEF StillToClose
  <2> QED
    BY <2>1, <2>2
<1>16. \A k \in DOMAIN flags' :
         flags'[k].status = "RESOLVED" => flags'[k].target \in upheld'
  <2> SUFFICES ASSUME NEW k \in DOMAIN flags, flags'[k].status = "RESOLVED"
               PROVE  flags[k].target \in upheld'
    BY <1>9
  <2>1. CASE k = c.id
    BY <1>2, <1>3, <1>6, <1>7, <1>9, <2>1 DEF DecisionSound, Deciding
  <2>2. CASE k # c.id
    BY <1>7, <1>9, <1>10, <2>2 DEF FlagsInv
  <2> QED
    BY <2>1, <2>2
<1> QED
  BY <1>6, <1>10, <1>12, <1>13, <1>14, <1>15, <1>16 DEF FlagsInv

LEMMA FlagsRestartInv ==
    ASSUME FlagsInv, FlagsRestart
    PROVE  FlagsInv'
<1>1. /\ outages' \in Nat /\ outages' # 0
      /\ flagCalls' = [r \in Requests |-> Idle]
      /\ UNCHANGED <<standing, flags, flagsMade, closed, upheld, condemned>>
  BY DEF FlagsRestart, FlagsInv
<1> QED
  BY <1>1, FlagIdle DEF FlagsInv, FlagsTypeOK

LEMMA FlagsNextInv == FlagsInv /\ [FlagsNext]_flagVars => FlagsInv'
<1> SUFFICES ASSUME FlagsInv, [FlagsNext]_flagVars PROVE FlagsInv'
  OBVIOUS
<1>1. ASSUME NEW r \in Requests, NEW t \in Targets, NEW u \in Users, AskFlag(r, t, u)
      PROVE  FlagsInv'
  BY <1>1, AskFlagInv
<1>2. ASSUME NEW r \in Requests, NEW k \in DOMAIN flags, NEW d \in Decisions,
             NEW remove \in BOOLEAN, AskDecision(r, k, d, remove)
      PROVE  FlagsInv'
  BY <1>2, AskDecisionInv
<1>3. ASSUME NEW r \in Requests,
             InsertFlag(r) \/ Decide(r) \/ FlagTakeDown(r) \/ CloseOthers(r)
      PROVE  FlagsInv'
  BY <1>3, InsertFlagInv, DecideInv, FlagTakeDownInv, CloseOthersInv
<1>4. ASSUME NEW t \in Targets, Withdraw(t) PROVE FlagsInv'
  BY <1>4, WithdrawInv
<1>5. CASE UNCHANGED flagVars
  <2>1. /\ UNCHANGED <<standing, flags, flagsMade, flagCalls>>
        /\ UNCHANGED <<outages, closed, upheld, condemned>>
    BY <1>5 DEF flagVars, flagGhosts
  <2> QED
    BY <2>1 DEF FlagsInv, FlagsTypeOK, StillToFall, StillToClose, Unclosed
<1> QED
  BY <1>1, <1>2, <1>3, <1>4, <1>5, FlagsRestartInv DEF FlagsNext

(* A moderator's decision reaches its own target, and wholly: whatever     *)
(* complaints and decisions overlap, once they are through and none was    *)
(* cut off, what was to go is gone and the queue does not ask again about  *)
(* what was upheld, for any reels, comments and people                     *)
(* (video-reports.service.ts:256-308).                                     *)
THEOREM VerdictsReachTheirTarget == FlagsSpec => [](VerdictsStayOnTarget /\ FlagsTypeOK)
<1>1. FlagsInv => VerdictsStayOnTarget
  <2> SUFFICES ASSUME FlagsInv PROVE VerdictsStayOnTarget
    OBVIOUS
  <2>1. ASSUME Quiet(flagCalls), NEW t
        PROVE  ~StillToFall(t) /\ ~StillToClose(t)
    BY <2>1, FlagIdle DEF Quiet, StillToFall, StillToClose
  <2>2. ASSUME Quiet(flagCalls), outages = 0 PROVE condemned \cap standing = {}
    BY <2>1, <2>2 DEF FlagsInv
  <2>3. ASSUME Quiet(flagCalls), outages = 0, NEW t \in upheld, NEW k \in About(t),
               flags[k].status = "OPEN"
        PROVE  k > closed[t]
    <3>1. ~Unclosed(t)
      BY <2>1, <2>3 DEF FlagsInv
    <3>2. k \in DOMAIN flags /\ flags[k].target = t /\ k \in Nat /\ closed[t] \in Nat
      BY <2>3 DEF About, FlagsInv, FlagsTypeOK
    <3> QED
      BY <2>3, <3>1, <3>2 DEF Unclosed
  <2> QED
    BY <2>2, <2>3 DEF VerdictsStayOnTarget, FlagsInv
<1>2. FlagsInv => FlagsTypeOK
  BY DEF FlagsInv
<1> QED
  BY FlagsInitInv, FlagsNextInv, <1>1, <1>2, PTL DEF FlagsSpec

(***************************************************************************)
(* What people are told (Inbox)                                            *)
(***************************************************************************)
(* A notification as the callers give it.                                  *)
Inputs == [to : Users, by : Users \cup {None}]

InboxRows ==
    [to : Users, by : Users \cup {None}, kind : Rung \cup Quietly, read : BOOLEAN,
     looked : Nat]

LetterType == [phone : Handsets, to : Users, id : Nat, hand : Nat]

TellCallType ==
    {Idle}
    \cup [at : {"like"}, like : [to : Users, by : Users], looked : Nat]
    \cup [at : {"devices"}, items : Seq([to : Users, id : Nat])]
    \cup [at : {"post"}, letters : SUBSET LetterType]
    \cup [at : {"forget"}, dead : SUBSET Handsets]

(* A row there is, and it is this person's.                                *)
RowOf(rows, id, u) == id \in DOMAIN rows /\ rows[id].to = u

(* What a request has in hand: ids of its reader's rows; a phone that was  *)
(* its reader's then, and is unless it has been made over since; a like    *)
(* with no like of the kind that is as old as the look.                    *)
TellSound(c, rows, made, dot, over) ==
    /\ c.at = "devices" => \A i \in DOMAIN c.items : RowOf(rows, c.items[i].id, c.items[i].to)
    /\ c.at = "post" =>
         \A m \in c.letters : /\ RowOf(rows, m.id, m.to)
                              /\ m.hand <= over[m.phone]
                              /\ over[m.phone] = m.hand => dot[m.phone] = m.to
    /\ c.at = "like" =>
         /\ c.looked <= made
         /\ \A k \in DOMAIN rows : Alike(rows[k], c.like) => c.looked < k

LikesApart ==
    \A k, l \in DOMAIN inbox :
       k < l /\ Alike(inbox[k], inbox[l]) /\ Alike(inbox[l], inbox[k]) => inbox[l].looked < k

PhonesTyped ==
    /\ pointed \in [Handsets -> Users \cup {None}] /\ hands \in [Handsets -> Nat]
    /\ \A row \in tokens : row[2] = pointed[row[1]]

ShownRight ==
    \A s \in shown : RowOf(inbox, s.id, s.to) /\ (s.stray => s.moved)

InboxInv ==
    /\ InboxTypeOK
    /\ \A k \in DOMAIN inbox : inbox[k] \in InboxRows
    /\ tellCalls \in [Requests -> TellCallType]
    /\ \A r \in Requests : TellSound(tellCalls[r], inbox, toldMade, pointed, hands)
    /\ PhonesTyped /\ ShownRight /\ LikesApart

-----------------------------------------------------------------------------
LEMMA TellFields ==
    ASSUME NEW c \in TellCallType
    PROVE  /\ c.at = "like" => /\ c.like \in [to : Users, by : Users] /\ c.looked \in Nat
           /\ c.at = "devices" => c.items \in Seq([to : Users, id : Nat])
           /\ c.at = "post" => c.letters \in SUBSET LetterType
           /\ c.at = "forget" => c.dead \in SUBSET Handsets
BY DEF TellCallType, Idle

LEMMA TellIdle ==
    /\ Idle \in TellCallType
    /\ \A rows, made, dot, over : TellSound(Idle, rows, made, dot, over)
BY DEF TellCallType, TellSound, Idle

LEMMA InboxInitInv == InboxInit => InboxInv
<1> SUFFICES ASSUME InboxInit PROVE InboxInv
  OBVIOUS
<1>1. InboxTypeOK
  BY InboxAssumption DEF InboxInit, InboxTypeOK
<1>2. tellCalls \in [Requests -> TellCallType]
      /\ \A r \in Requests : TellSound(tellCalls[r], inbox, toldMade, pointed, hands)
  BY TellIdle DEF InboxInit
<1>3. PhonesTyped /\ ShownRight /\ LikesApart /\ \A k \in DOMAIN inbox : inbox[k] \in InboxRows
  BY DEF InboxInit, PhonesTyped, ShownRight, LikesApart
<1> QED
  BY <1>1, <1>2, <1>3 DEF InboxInv

(* The rows only grow, and one that was there keeps whose it is.           *)
SameReaders(old, new) ==
    \A k \in DOMAIN old : k \in DOMAIN new /\ new[k].to = old[k].to

LEMMA ShownStays ==
    ASSUME InboxInv, SameReaders(inbox, inbox'), shown' = shown
    PROVE  ShownRight'
BY DEF InboxInv, ShownRight, SameReaders, RowOf

(* What a request has in hand stays right: other rows may come, but no     *)
(* like that is older than its look, and phones move on only by hand.      *)
LEMMA TellSoundStays ==
    ASSUME NEW c \in TellCallType, NEW rows, NEW rows1, NEW made \in Nat, NEW made1 \in Nat,
           NEW dot, NEW dot1, NEW over \in [Handsets -> Nat], NEW over1 \in [Handsets -> Nat],
           TellSound(c, rows, made, dot, over), SameReaders(rows, rows1), made <= made1,
           \A k \in DOMAIN rows1 :
             \/ k \in Nat /\ k > made
             \/ k \in DOMAIN rows /\ \A like : Alike(rows1[k], like) => Alike(rows[k], like),
           \A h \in Handsets :
             \/ over1[h] = over[h] /\ dot1[h] = dot[h]
             \/ over1[h] > over[h]
    PROVE  TellSound(c, rows1, made1, dot1, over1)
<1>1. CASE c.at = "devices"
  BY <1>1 DEF TellSound, SameReaders, RowOf
<1>2. CASE c.at = "post"
  <2>1. c.letters \in SUBSET LetterType
    BY <1>2, TellFields
  <2>2. ASSUME NEW m \in c.letters
        PROVE  /\ RowOf(rows1, m.id, m.to)
               /\ m.hand <= over1[m.phone]
               /\ over1[m.phone] = m.hand => dot1[m.phone] = m.to
    <3>1. m.phone \in Handsets /\ m.hand \in Nat
      BY <2>1 DEF LetterType
    <3>2. /\ RowOf(rows, m.id, m.to) /\ m.hand <= over[m.phone]
          /\ over[m.phone] = m.hand => dot[m.phone] = m.to
      BY <1>2 DEF TellSound
    <3>3. RowOf(rows1, m.id, m.to)
      BY <3>2 DEF RowOf, SameReaders
    <3>4. over[m.phone] \in Nat /\ over1[m.phone] \in Nat
      BY <3>1
    <3> QED
      BY <3>1, <3>2, <3>3, <3>4
  <2> QED
    BY <1>2, <2>2 DEF TellSound
<1>3. CASE c.at = "like"
  <2>1. c.looked \in Nat /\ c.looked <= made
    BY <1>3, TellFields DEF TellSound
  <2>2. ASSUME NEW k \in DOMAIN rows1, Alike(rows1[k], c.like) PROVE c.looked < k
    BY <1>3, <2>1, <2>2 DEF TellSound
  <2> QED
    BY <1>3, <2>1, <2>2 DEF TellSound
<1>4. CASE c.at \notin {"devices", "post", "like"}
  BY <1>4 DEF TellSound
<1> QED
  BY <1>1, <1>2, <1>3, <1>4

(* A step of one request, or of none, that leaves phones alone.            *)
LEMMA TellKeeps ==
    ASSUME InboxInv, NEW r \in Requests, NEW call \in TellCallType,
           tellCalls' = [tellCalls EXCEPT ![r] = call],
           SameReaders(inbox, inbox'), toldMade' \in Nat, toldMade <= toldMade',
           \A k \in DOMAIN inbox' :
             \/ k \in Nat /\ k > toldMade
             \/ k \in DOMAIN inbox /\ inbox'[k] = inbox[k],
           UNCHANGED <<pointed, hands>>,
           TellSound(call, inbox', toldMade', pointed', hands')
    PROVE  /\ tellCalls' \in [Requests -> TellCallType]
           /\ \A s \in Requests : TellSound(tellCalls'[s], inbox', toldMade', pointed', hands')
<1>1. toldMade \in Nat /\ hands \in [Handsets -> Nat] /\ tellCalls \in [Requests -> TellCallType]
  BY DEF InboxInv, InboxTypeOK, PhonesTyped
<1>2. ASSUME NEW s \in Requests
      PROVE  TellSound(tellCalls[s], inbox', toldMade', pointed', hands')
  <2>1. TellSound(tellCalls[s], inbox, toldMade, pointed, hands)
    BY DEF InboxInv
  <2>2. tellCalls[s] \in TellCallType
    BY <1>1
  <2>3. pointed' = pointed /\ hands' = hands
    OBVIOUS
  <2> QED
    BY <1>1, <2>1, <2>2, <2>3, TellSoundStays
<1> QED
  BY <1>1, <1>2

-----------------------------------------------------------------------------
(* notify, notifyEach, notifyMany                                          *)

LEMMA AddressedType ==
    ASSUME InboxInv, NEW rows \in Seq(Inputs)
    PROVE  Addressed(rows) \in Seq([to : Users, id : Nat])
<1>1. toldMade \in Nat /\ DOMAIN rows = 1 .. Len(rows) /\ Len(rows) \in Nat
  BY DEF InboxInv, InboxTypeOK
<1>2. \A i \in 1 .. Len(rows) : rows[i].to \in Users /\ toldMade + i \in Nat
  <2>1. \A i \in 1 .. Len(rows) : rows[i] \in Inputs
    BY ElementOfSeq
  <2> QED
    BY <1>1, <2>1 DEF Inputs
<1> QED
  BY <1>1, <1>2 DEF Addressed

LEMMA WriteRowsInv ==
    ASSUME InboxInv, NEW r \in Requests, NEW kind \in Rung \cup Quietly,
           NEW rows \in Seq(Inputs), NEW looked \in Nat, looked <= toldMade,
           WriteRows(r, kind, rows, looked),
           kind = "like" =>
             \A k \in DOMAIN inbox : \A i \in DOMAIN rows :
                Alike(inbox[k], rows[i]) => looked < k
    PROVE  InboxInv'
<1>1. /\ toldMade \in Nat /\ \A k \in DOMAIN inbox : k \in 1 .. toldMade
      /\ DOMAIN rows = 1 .. Len(rows) /\ Len(rows) \in Nat
      /\ \A i \in 1 .. Len(rows) : rows[i] \in Inputs
  BY ElementOfSeq DEF InboxInv, InboxTypeOK
<1>2. /\ toldMade' = toldMade + Len(rows) /\ toldMade' \in 0 .. MaxTold
      /\ UNCHANGED shown /\ UNCHANGED <<tokens, holder, leaving, muted, turns, pointed, hands>>
  BY <1>1, InboxAssumption DEF WriteRows, phoneVars
<1>3. PICK D : D = {toldMade + i : i \in DOMAIN rows}
  OBVIOUS
<1>4. ASSUME NEW k \in D
      PROVE  /\ k \in Nat /\ k > toldMade /\ k \in 1 .. toldMade' /\ k \notin DOMAIN inbox
             /\ k - toldMade \in DOMAIN rows
  <2>1. PICK i \in DOMAIN rows : k = toldMade + i
    BY <1>3
  <2> QED
    BY <1>1, <1>2, <2>1
<1>5. /\ DOMAIN inbox' = DOMAIN inbox \cup D
      /\ \A k \in DOMAIN inbox : inbox'[k] = inbox[k]
      /\ \A k \in D : inbox'[k] = [to |-> rows[k - toldMade].to, by |-> rows[k - toldMade].by,
                                  kind |-> kind, read |-> FALSE, looked |-> looked]
  <2>1. inbox' = [k \in DOMAIN inbox \cup D |->
                   IF k \in DOMAIN inbox THEN inbox[k]
                   ELSE [to |-> rows[k - toldMade].to, by |-> rows[k - toldMade].by,
                         kind |-> kind, read |-> FALSE, looked |-> looked]]
    BY <1>3 DEF WriteRows
  <2> QED
    BY <1>4, <2>1
<1>6. ASSUME NEW k \in D
      PROVE  inbox'[k] \in InboxRows
  <2>1. PICK i \in DOMAIN rows, u \in Users, v \in Users \cup {None} :
          i = k - toldMade /\ rows[i].to = u /\ rows[i].by = v
    BY <1>1, <1>4 DEF Inputs
  <2>2. inbox'[k] = [to |-> u, by |-> v, kind |-> kind, read |-> FALSE, looked |-> looked]
    BY <1>5, <2>1
  <2> QED
    BY <2>2 DEF InboxRows
<1>7. \A k \in DOMAIN inbox' : inbox'[k] \in InboxRows /\ k \in 1 .. toldMade'
  BY <1>1, <1>2, <1>4, <1>5, <1>6 DEF InboxInv
<1>8. SameReaders(inbox, inbox')
  BY <1>5 DEF SameReaders
<1>9. InboxTypeOK'
  BY <1>2, <1>7 DEF InboxInv, InboxTypeOK, InboxRows
<1>10. PICK call : call = IF rows = << >> \/ kind \in Quietly THEN Idle
                         ELSE [at |-> "devices", items |-> Addressed(rows)]
  OBVIOUS
<1>11. call \in TellCallType
  BY <1>10, AddressedType, TellIdle DEF TellCallType
<1>12. TellSound(call, inbox', toldMade', pointed', hands')
  <2>1. CASE call = Idle
    BY <2>1, TellIdle
  <2>2. CASE call # Idle
    <3>1. call.at = "devices" /\ call.items = Addressed(rows)
      BY <1>10, <2>2
    <3>2. ASSUME NEW i \in DOMAIN Addressed(rows)
          PROVE  RowOf(inbox', Addressed(rows)[i].id, Addressed(rows)[i].to)
      <4>1. /\ i \in DOMAIN rows /\ Addressed(rows)[i].id = toldMade + i
            /\ Addressed(rows)[i].to = rows[i].to
        BY DEF Addressed
      <4>2. toldMade + i \in D /\ (toldMade + i) - toldMade = i
        BY <1>1, <1>3, <4>1
      <4>3. inbox'[toldMade + i].to = rows[i].to
        BY <1>5, <4>2
      <4> QED
        BY <1>5, <4>1, <4>2, <4>3 DEF RowOf
    <3> QED
      BY <3>1, <3>2 DEF TellSound
  <2> QED
    BY <2>1, <2>2
<1>13. /\ tellCalls' \in [Requests -> TellCallType]
       /\ \A s \in Requests : TellSound(tellCalls'[s], inbox', toldMade', pointed', hands')
  <2>1. tellCalls' = [tellCalls EXCEPT ![r] = call]
    BY <1>10 DEF WriteRows, TellGoes
  <2>2. /\ toldMade' \in Nat /\ toldMade <= toldMade' /\ UNCHANGED <<pointed, hands>>
    BY <1>1, <1>2
  <2>3. \A k \in DOMAIN inbox' :
          \/ k \in Nat /\ k > toldMade
          \/ k \in DOMAIN inbox /\ inbox'[k] = inbox[k]
    BY <1>4, <1>5
  <2> QED
    BY <1>8, <1>11, <1>12, <2>1, <2>2, <2>3, TellKeeps
<1>14. LikesApart'
  <2> SUFFICES ASSUME NEW k \in DOMAIN inbox', NEW l \in DOMAIN inbox', k < l,
                      Alike(inbox'[k], inbox'[l]), Alike(inbox'[l], inbox'[k])
               PROVE  inbox'[l].looked < k
    BY DEF LikesApart, Alike
  <2>1. CASE l \in DOMAIN inbox
    <3>1. k \in DOMAIN inbox
      BY <1>1, <1>4, <1>5, <2>1
    <3> QED
      BY <1>5, <2>1, <3>1 DEF InboxInv, LikesApart
  <2>2. CASE l \in D
    <3>1. /\ inbox'[l].looked = looked /\ inbox'[l].kind = kind
          /\ inbox'[l].to = rows[l - toldMade].to /\ inbox'[l].by = rows[l - toldMade].by
      BY <1>5, <2>2
    <3>2. CASE k \in D
      BY <1>1, <1>4, <3>1, <3>2
    <3>3. CASE k \in DOMAIN inbox
      <4>1. kind = "like" /\ Alike(inbox[k], rows[l - toldMade])
        BY <1>5, <3>1, <3>3 DEF Alike
      <4> QED
        BY <1>4, <2>2, <3>1, <3>3, <4>1
    <3> QED
      BY <1>5, <3>2, <3>3
  <2> QED
    BY <1>5, <2>1, <2>2
<1>15. PhonesTyped' /\ ShownRight'
  BY <1>2, <1>8, ShownStays DEF InboxInv, PhonesTyped
<1> QED
  BY <1>7, <1>9, <1>13, <1>14, <1>15 DEF InboxInv

LEMMA NotifyInv ==
    ASSUME InboxInv, NEW r \in Requests, NEW to \in Users, NEW by \in Users,
           Notify(r, "bid", to, by)
    PROVE  InboxInv'
<1>1. <<[to |-> to, by |-> by]>> \in Seq(Inputs)
  BY DEF Inputs
<1>2. toldMade \in Nat /\ toldMade <= toldMade
  BY DEF InboxInv, InboxTypeOK
<1> QED
  BY <1>1, <1>2, WriteRowsInv DEF Notify, Rung

LEMMA NotifyEachInv ==
    ASSUME InboxInv, NEW r \in Requests, NEW kind \in {"bid", "lapsed", "reel"},
           NEW rows \in Seq(Inputs), NotifyEach(r, kind, rows)
    PROVE  InboxInv'
<1>1. toldMade \in Nat /\ toldMade <= toldMade
  BY DEF InboxInv, InboxTypeOK
<1> QED
  BY <1>1, WriteRowsInv DEF NotifyEach, Rung, Quietly

LEMMA FansAreInputs ==
    ASSUME NEW people \in SUBSET Users, NEW by \in Users, NEW rows \in FanOut(people, by)
    PROVE  rows \in Seq(Inputs)
<1>1. PICK n \in Nat : n = Cardinality(people \ {by})
  BY InboxAssumption, FS_Subset, FS_CardinalityType
<1>2. PICK f \in [1 .. n -> people \ {by}] : rows = [i \in DOMAIN f |-> [to |-> f[i], by |-> by]]
  BY <1>1 DEF FanOut
<1>3. rows \in [1 .. n -> Inputs]
  BY <1>2 DEF Inputs
<1> QED
  BY <1>3

LEMMA WriteLikeInv ==
    ASSUME InboxInv, NEW r \in Requests, WriteLike(r)
    PROVE  InboxInv'
<1>1. PICK c : c = tellCalls[r]
  OBVIOUS
<1>2. /\ c \in TellCallType /\ c.at = "like"
      /\ TellSound(c, inbox, toldMade, pointed, hands)
      /\ WriteRows(r, "like", <<c.like>>, c.looked)
  BY <1>1 DEF InboxInv, WriteLike
<1>3. /\ c.like \in [to : Users, by : Users] /\ c.looked \in Nat /\ c.looked <= toldMade
      /\ \A k \in DOMAIN inbox : Alike(inbox[k], c.like) => c.looked < k
  BY <1>2, TellFields DEF TellSound
<1>4. PICK rows : rows = <<c.like>>
  OBVIOUS
<1>5. /\ rows \in Seq(Inputs)
      /\ \A i \in DOMAIN rows : rows[i] = c.like
  BY <1>3, <1>4 DEF Inputs
<1> QED
  BY <1>2, <1>3, <1>4, <1>5, WriteRowsInv DEF Quietly

(* Steps that give r another call and write nothing.                       *)
LEMMA TellGoesInv ==
    ASSUME InboxInv, NEW r \in Requests, NEW call \in TellCallType, TellGoes(r, call),
           UNCHANGED <<inbox, toldMade, shown, phoneVars>>,
           TellSound(call, inbox, toldMade, pointed, hands)
    PROVE  InboxInv'
<1>1. UNCHANGED <<inbox, toldMade, shown, tokens, holder, leaving, muted, turns, pointed, hands>>
  BY DEF phoneVars
<1>2. SameReaders(inbox, inbox') /\ toldMade' \in Nat /\ toldMade <= toldMade'
  BY <1>1 DEF SameReaders, InboxInv, InboxTypeOK
<1>3. /\ tellCalls' \in [Requests -> TellCallType]
      /\ \A s \in Requests : TellSound(tellCalls'[s], inbox', toldMade', pointed', hands')
  <2>1. TellSound(call, inbox', toldMade', pointed', hands')
    BY <1>1
  <2>2. \A k \in DOMAIN inbox' : k \in DOMAIN inbox /\ inbox'[k] = inbox[k]
    BY <1>1
  <2> QED
    BY <1>1, <1>2, <2>1, <2>2, TellKeeps DEF TellGoes
<1>4. PhonesTyped' /\ ShownRight' /\ LikesApart' /\ InboxTypeOK'
  BY <1>1 DEF InboxInv, PhonesTyped, ShownRight, LikesApart, InboxTypeOK
<1> QED
  BY <1>1, <1>3, <1>4 DEF InboxInv

LEMMA FindLikeInv ==
    ASSUME InboxInv, NEW r \in Requests, NEW to \in Users, NEW by \in Users,
           FindLike(r, to, by)
    PROVE  InboxInv'
<1>1. PICK like : like = [to |-> to, by |-> by]
  OBVIOUS
<1>2. PICK call : call = [at |-> "like", like |-> like, looked |-> toldMade]
  OBVIOUS
<1>3. /\ \A k \in DOMAIN inbox : ~Alike(inbox[k], like)
      /\ TellGoes(r, call) /\ UNCHANGED <<inbox, toldMade, shown, phoneVars>>
  BY <1>1, <1>2 DEF FindLike
<1>4. toldMade \in Nat
  BY DEF InboxInv, InboxTypeOK
<1>5. call \in TellCallType
  BY <1>1, <1>2, <1>4 DEF TellCallType
<1>6. TellSound(call, inbox, toldMade, pointed, hands)
  BY <1>2, <1>3, <1>4 DEF TellSound
<1> QED
  BY <1>3, <1>5, <1>6, TellGoesInv

LEMMA PostFailsInv ==
    ASSUME InboxInv, NEW r \in Requests, PostFails(r)
    PROVE  InboxInv'
BY TellIdle, TellGoesInv DEF PostFails

(* A letter is addressed as the phone was registered when it was read.     *)
LEMMA LettersSound ==
    ASSUME InboxInv, NEW items \in Seq([to : Users, id : Nat]),
           \A i \in DOMAIN items : RowOf(inbox, items[i].id, items[i].to)
    PROVE  \A m \in Letters(items) :
              /\ m \in LetterType /\ RowOf(inbox, m.id, m.to)
              /\ m.hand = hands[m.phone] /\ pointed[m.phone] = m.to
<1> SUFFICES ASSUME NEW m \in Letters(items)
             PROVE  /\ m \in LetterType /\ RowOf(inbox, m.id, m.to)
                    /\ m.hand = hands[m.phone] /\ pointed[m.phone] = m.to
  OBVIOUS
<1>1. PICK i \in DOMAIN items :
        m \in {[phone |-> row[1], to |-> items[i].to, id |-> items[i].id,
               hand |-> hands[row[1]]] : row \in TokensOf(items[i].to)}
  BY DEF Letters
<1>2. PICK row \in TokensOf(items[i].to) :
        m = [phone |-> row[1], to |-> items[i].to, id |-> items[i].id, hand |-> hands[row[1]]]
  BY <1>1
<1>3. items[i] \in [to : Users, id : Nat]
  <2>1. DOMAIN items = 1 .. Len(items)
    OBVIOUS
  <2> QED
    BY <2>1, ElementOfSeq
<1>4. row \in Handsets \X Users /\ row[2] = items[i].to /\ pointed[row[1]] = row[2]
      /\ hands[row[1]] \in Nat
  BY DEF TokensOf, InboxInv, InboxTypeOK, PhonesTyped
<1> QED
  BY <1>2, <1>3, <1>4 DEF LetterType

LEMMA ReadDevicesInv ==
    ASSUME InboxInv, NEW r \in Requests, ReadDevices(r)
    PROVE  InboxInv'
<1>1. PICK c : c = tellCalls[r]
  OBVIOUS
<1>2. /\ c \in TellCallType /\ c.at = "devices"
      /\ TellSound(c, inbox, toldMade, pointed, hands)
      /\ UNCHANGED <<inbox, toldMade, shown, phoneVars>>
  BY <1>1 DEF InboxInv, ReadDevices
<1>3. PICK ls : ls = Letters(c.items)
  OBVIOUS
<1>4. PICK call : call = IF ls = {} THEN Idle ELSE [at |-> "post", letters |-> ls]
  OBVIOUS
<1>5. TellGoes(r, call)
  BY <1>1, <1>3, <1>4 DEF ReadDevices
<1>6. \A m \in ls : /\ m \in LetterType /\ RowOf(inbox, m.id, m.to)
                    /\ m.hand = hands[m.phone] /\ pointed[m.phone] = m.to
  BY <1>2, <1>3, TellFields, LettersSound DEF TellSound
<1>7. CASE ls = {}
  BY <1>2, <1>4, <1>5, <1>7, TellIdle, TellGoesInv
<1>8. CASE ls # {}
  <2>1. call \in TellCallType
    BY <1>4, <1>6, <1>8 DEF TellCallType
  <2>2. TellSound(call, inbox, toldMade, pointed, hands)
    BY <1>4, <1>6, <1>8 DEF TellSound, LetterType
  <2> QED
    BY <1>2, <1>5, <2>1, <2>2, TellGoesInv
<1> QED
  BY <1>7, <1>8

LEMMA PostInv ==
    ASSUME InboxInv, NEW r \in Requests, Post(r)
    PROVE  InboxInv'
<1>1. PICK c : c = tellCalls[r]
  OBVIOUS
<1>2. /\ c \in TellCallType /\ c.at = "post"
      /\ TellSound(c, inbox, toldMade, pointed, hands)
      /\ UNCHANGED <<inbox, toldMade, tokens, holder, leaving, muted, turns, pointed, hands>>
  BY <1>1 DEF InboxInv, Post, phoneVars
<1>3. PICK dead : dead = {m.phone : m \in c.letters} \cap muted
  OBVIOUS
<1>4. PICK call : call = IF dead = {} THEN Idle ELSE [at |-> "forget", dead |-> dead]
  OBVIOUS
<1>5. TellGoes(r, call)
  BY <1>1, <1>3, <1>4 DEF Post
<1>6. /\ c.letters \in SUBSET LetterType
      /\ \A m \in c.letters : /\ RowOf(inbox, m.id, m.to) /\ m.hand <= hands[m.phone]
                              /\ hands[m.phone] = m.hand => pointed[m.phone] = m.to
  BY <1>2, TellFields DEF TellSound
<1>7. call \in TellCallType /\ TellSound(call, inbox, toldMade, pointed, hands)
  <2>1. dead \subseteq Handsets
    BY <1>3, <1>6 DEF LetterType
  <2>2. CASE dead = {}
    BY <1>4, <2>2, TellIdle
  <2>3. CASE dead # {}
    BY <1>4, <2>1, <2>3 DEF TellCallType, TellSound
  <2> QED
    BY <2>2, <2>3
<1>8. /\ tellCalls' \in [Requests -> TellCallType]
      /\ \A s \in Requests : TellSound(tellCalls'[s], inbox', toldMade', pointed', hands')
  <2>1. SameReaders(inbox, inbox') /\ toldMade' \in Nat /\ toldMade <= toldMade'
    BY <1>2 DEF SameReaders, InboxInv, InboxTypeOK
  <2>2. TellSound(call, inbox', toldMade', pointed', hands')
    BY <1>2, <1>7
  <2>3. \A k \in DOMAIN inbox' : k \in DOMAIN inbox /\ inbox'[k] = inbox[k]
    BY <1>2
  <2> QED
    BY <1>2, <1>5, <1>7, <2>1, <2>2, <2>3, TellKeeps DEF TellGoes
<1>9. ShownRight'
  <2>1. shown' = shown \cup
             {[to |-> m.to, id |-> m.id, stray |-> pointed[m.phone] # m.to,
               moved |-> hands[m.phone] > m.hand]
                : m \in {n \in c.letters : n.phone \notin muted}}
    BY <1>1 DEF Post
  <2> SUFFICES ASSUME NEW s \in shown', s \notin shown
               PROVE  RowOf(inbox, s.id, s.to) /\ (s.stray => s.moved)
    BY <1>2 DEF InboxInv, ShownRight
  <2>2. PICK m \in c.letters :
          s = [to |-> m.to, id |-> m.id, stray |-> pointed[m.phone] # m.to,
               moved |-> hands[m.phone] > m.hand]
    BY <2>1
  <2>3. s.to = m.to /\ s.id = m.id
    BY <2>2
  <2>4. s.stray <=> pointed[m.phone] # m.to
    BY <2>2, Zenon
  <2>5. s.moved <=> hands[m.phone] > m.hand
    BY <2>2, Zenon
  <2>6. pointed[m.phone] # m.to => hands[m.phone] > m.hand
    <3>1. m.phone \in Handsets /\ m.hand \in Nat /\ hands[m.phone] \in Nat
      BY <1>6 DEF LetterType, InboxInv, PhonesTyped
    <3> QED
      BY <1>6, <3>1
  <2> QED
    BY <1>6, <2>3, <2>4, <2>5, <2>6
<1>10. PhonesTyped' /\ LikesApart' /\ InboxTypeOK'
  BY <1>2 DEF InboxInv, PhonesTyped, LikesApart, InboxTypeOK
<1> QED
  BY <1>2, <1>8, <1>9, <1>10 DEF InboxInv

(* A row that is marked stays its reader's.                                *)
LEMMA MarkedRow ==
    ASSUME NEW row \in InboxRows, NEW b \in BOOLEAN, NEW n, n = [row EXCEPT !.read = b]
    PROVE  /\ n \in InboxRows /\ n.to = row.to /\ n.by = row.by /\ n.kind = row.kind
           /\ n.looked = row.looked /\ (n.read <=> b)
<1>1. PICK w \in Users, v \in Users \cup {None}, kind \in Rung \cup Quietly,
           o \in BOOLEAN, l \in Nat :
        row = [to |-> w, by |-> v, kind |-> kind, read |-> o, looked |-> l]
  BY DEF InboxRows
<1>2. n = [to |-> w, by |-> v, kind |-> kind, read |-> b, looked |-> l]
  BY <1>1
<1>3. n.read <=> b
  BY <1>2, Zenon
<1> QED
  BY <1>1, <1>2, <1>3 DEF InboxRows

LEMMA MarkReadInv ==
    ASSUME InboxInv, NEW u, NEW ids, MarkRead(u, ids)
    PROVE  InboxInv'
<1>1. PICK S : S = {k \in DOMAIN inbox : inbox[k].to = u /\ ~inbox[k].read /\ k \in ids}
  OBVIOUS
<1>2. /\ UNCHANGED <<toldMade, tellCalls, shown>>
      /\ UNCHANGED <<tokens, holder, leaving, muted, turns, pointed, hands>>
      /\ inbox' = [k \in DOMAIN inbox |->
                     IF k \in S THEN [inbox[k] EXCEPT !.read = TRUE] ELSE inbox[k]]
  BY <1>1 DEF MarkRead, phoneVars
<1>4. DOMAIN inbox' = DOMAIN inbox
  BY <1>2
<1>5. ASSUME NEW k \in DOMAIN inbox
      PROVE  /\ inbox'[k] \in InboxRows /\ inbox'[k].to = inbox[k].to
             /\ inbox'[k].looked = inbox[k].looked
             /\ inbox'[k].kind = inbox[k].kind /\ inbox'[k].by = inbox[k].by
             /\ inbox[k].read => inbox'[k].read
  <2>1. inbox[k] \in InboxRows
    BY DEF InboxInv
  <2>2. CASE k \in S
    <3>1. inbox'[k] = [inbox[k] EXCEPT !.read = TRUE]
      BY <1>2, <2>2
    <3>2. /\ inbox'[k] \in InboxRows /\ inbox'[k].to = inbox[k].to
          /\ inbox'[k].by = inbox[k].by /\ inbox'[k].kind = inbox[k].kind
          /\ inbox'[k].looked = inbox[k].looked /\ (inbox'[k].read <=> TRUE)
      BY <2>1, <3>1, MarkedRow
    <3> QED
      BY <3>2, Zenon
  <2>3. CASE k \notin S
    <3>1. inbox'[k] = inbox[k]
      BY <1>2, <2>3
    <3> QED
      BY <2>1, <3>1, Zenon
  <2> QED
    BY <2>2, <2>3
<1>6. SameReaders(inbox, inbox')
  BY <1>4, <1>5 DEF SameReaders
<1>7. ASSUME NEW k \in DOMAIN inbox, NEW like, Alike(inbox'[k], like) PROVE Alike(inbox[k], like)
  BY <1>5, <1>7 DEF Alike
<1>8. ASSUME NEW s \in Requests
      PROVE  TellSound(tellCalls'[s], inbox', toldMade', pointed', hands')
  <2>1. TellSound(tellCalls[s], inbox, toldMade, pointed, hands) /\ tellCalls[s] \in TellCallType
        /\ toldMade \in Nat /\ hands \in [Handsets -> Nat] /\ toldMade <= toldMade
    BY DEF InboxInv, InboxTypeOK, PhonesTyped
  <2>2. \A k \in DOMAIN inbox' :
          k \in DOMAIN inbox /\ \A like : Alike(inbox'[k], like) => Alike(inbox[k], like)
    BY <1>4, <1>7
  <2>3. TellSound(tellCalls[s], inbox', toldMade, pointed, hands)
    BY <1>6, <2>1, <2>2, TellSoundStays
  <2> QED
    BY <1>2, <2>3
<1>9. LikesApart'
  <2> SUFFICES ASSUME NEW k \in DOMAIN inbox', NEW l \in DOMAIN inbox', k < l,
                      Alike(inbox'[k], inbox'[l]), Alike(inbox'[l], inbox'[k])
               PROVE  inbox'[l].looked < k
    BY DEF LikesApart
  <2>1. Alike(inbox[k], inbox[l]) /\ Alike(inbox[l], inbox[k])
    BY <1>4, <1>5 DEF Alike
  <2> QED
    BY <1>4, <1>5, <2>1 DEF InboxInv, LikesApart
<1>10. InboxTypeOK'
  BY <1>2, <1>4, <1>5 DEF InboxInv, InboxTypeOK
<1>11. PhonesTyped' /\ ShownRight'
  BY <1>2, <1>6, ShownStays DEF InboxInv, PhonesTyped
<1>12. \A k \in DOMAIN inbox' : inbox'[k] \in InboxRows
  BY <1>4, <1>5
<1>13. tellCalls' \in [Requests -> TellCallType]
  BY <1>2 DEF InboxInv
<1> QED
  BY <1>8, <1>9, <1>10, <1>11, <1>12, <1>13 DEF InboxInv

-----------------------------------------------------------------------------
(* The phones.                                                             *)

LEMMA ForgetDeadInv ==
    ASSUME InboxInv, NEW r \in Requests, ForgetDead(r)
    PROVE  InboxInv'
<1>1. /\ TellGoes(r, Idle) /\ tokens' \subseteq tokens
      /\ UNCHANGED <<inbox, toldMade, shown, holder, leaving, muted, turns, pointed, hands>>
  BY DEF ForgetDead
<1>2. SameReaders(inbox, inbox') /\ toldMade' \in Nat /\ toldMade <= toldMade'
  BY <1>1 DEF SameReaders, InboxInv, InboxTypeOK
<1>3. /\ tellCalls' \in [Requests -> TellCallType]
      /\ \A s \in Requests : TellSound(tellCalls'[s], inbox', toldMade', pointed', hands')
  <2>1. \A k \in DOMAIN inbox' : k \in DOMAIN inbox /\ inbox'[k] = inbox[k]
    BY <1>1
  <2> QED
    BY <1>1, <1>2, <2>1, TellIdle, TellKeeps DEF TellGoes
<1>4. PhonesTyped' /\ ShownRight' /\ LikesApart' /\ InboxTypeOK'
  BY <1>1 DEF InboxInv, PhonesTyped, ShownRight, LikesApart, InboxTypeOK
<1> QED
  BY <1>1, <1>3, <1>4 DEF InboxInv

(* A phone is registered, taken back, or handed on, or nothing happens to  *)
(* who it points to.                                                       *)
LEMMA PhonesInv ==
    ASSUME InboxInv, PhoneOnly, PhonesTyped',
           tokens' \subseteq Handsets \X Users, holder' \in [Handsets -> Users \cup {None}],
           leaving' \subseteq Handsets, muted' \subseteq Handsets,
           \A h \in Handsets :
             \/ hands'[h] = hands[h] /\ pointed'[h] = pointed[h]
             \/ hands'[h] > hands[h]
    PROVE  InboxInv'
<1>1. UNCHANGED <<inbox, toldMade, tellCalls, shown>>
  BY DEF PhoneOnly
<1>2. ASSUME NEW s \in Requests
      PROVE  TellSound(tellCalls'[s], inbox', toldMade', pointed', hands')
  <2>1. /\ TellSound(tellCalls[s], inbox, toldMade, pointed, hands)
        /\ tellCalls[s] \in TellCallType /\ toldMade \in Nat
        /\ hands \in [Handsets -> Nat] /\ hands' \in [Handsets -> Nat]
    BY DEF InboxInv, InboxTypeOK, PhonesTyped
  <2>2. SameReaders(inbox, inbox) /\ toldMade <= toldMade
    BY <2>1 DEF SameReaders
  <2>3. TellSound(tellCalls[s], inbox, toldMade, pointed', hands')
    BY <2>1, <2>2, TellSoundStays
  <2> QED
    BY <1>1, <2>3
<1>3. InboxTypeOK' /\ ShownRight' /\ LikesApart'
  BY <1>1 DEF InboxInv, InboxTypeOK, ShownRight, LikesApart
<1>4. \A k \in DOMAIN inbox' : inbox'[k] \in InboxRows
  BY <1>1 DEF InboxInv
<1>5. tellCalls' \in [Requests -> TellCallType]
  BY <1>1 DEF InboxInv
<1> QED
  BY <1>2, <1>3, <1>4, <1>5 DEF InboxInv

LEMMA RegisterInv ==
    ASSUME InboxInv, NEW h \in Handsets, Register(h)
    PROVE  InboxInv'
<1>1. PICK u \in Users : u = holder[h]
  BY DEF Register, InboxInv, InboxTypeOK
<1>2. /\ PhoneOnly /\ UNCHANGED <<holder, leaving, muted>>
      /\ tokens' = {row \in tokens : row[1] # h} \cup {<<h, u>>}
      /\ pointed' = [pointed EXCEPT ![h] = u]
      /\ hands' = [hands EXCEPT ![h] = IF pointed[h] = u THEN @ ELSE @ + 1]
  BY <1>1 DEF Register, Pointing
<1>3. /\ pointed \in [Handsets -> Users \cup {None}] /\ hands \in [Handsets -> Nat]
      /\ \A row \in tokens : row[2] = pointed[row[1]]
      /\ tokens \subseteq Handsets \X Users /\ holder \in [Handsets -> Users \cup {None}]
      /\ leaving \subseteq Handsets /\ muted \subseteq Handsets
  BY DEF InboxInv, InboxTypeOK, PhonesTyped
<1>4. /\ pointed' \in [Handsets -> Users \cup {None}] /\ hands' \in [Handsets -> Nat]
      /\ pointed'[h] = u /\ \A g \in Handsets : g # h => pointed'[g] = pointed[g]
      /\ \A g \in Handsets : g # h => hands'[g] = hands[g]
      /\ hands'[h] = IF pointed[h] = u THEN hands[h] ELSE hands[h] + 1
  BY <1>2, <1>3
<1>5. \A row \in tokens' : row[2] = pointed'[row[1]]
  <2> SUFFICES ASSUME NEW row \in tokens' PROVE row[2] = pointed'[row[1]]
    OBVIOUS
  <2>1. CASE row = <<h, u>>
    BY <1>4, <2>1
  <2>2. CASE row \in tokens /\ row[1] # h
    BY <1>3, <1>4, <2>2
  <2> QED
    BY <1>2, <2>1, <2>2
<1>6. PhonesTyped'
  BY <1>4, <1>5 DEF PhonesTyped
<1>7. tokens' \subseteq Handsets \X Users
  BY <1>2, <1>3
<1>8. ASSUME NEW g \in Handsets
      PROVE  (hands'[g] = hands[g] /\ pointed'[g] = pointed[g]) \/ hands'[g] > hands[g]
  BY <1>3, <1>4
<1> QED
  BY <1>2, <1>3, <1>6, <1>7, <1>8, PhonesInv

(* Rows may go and phones be handed over: that moves nobody's registration. *)
LEMMA PhoneStaysInv ==
    ASSUME InboxInv, PhoneOnly, UNCHANGED <<pointed, hands>>, tokens' \subseteq tokens,
           holder' \in [Handsets -> Users \cup {None}],
           leaving' \subseteq Handsets, muted' \subseteq Handsets
    PROVE  InboxInv'
<1>1. PhonesTyped' /\ tokens' \subseteq Handsets \X Users
  BY DEF InboxInv, InboxTypeOK, PhonesTyped
<1> QED
  BY <1>1, PhonesInv

LEMMA HandsetInv ==
    ASSUME InboxInv, NEW h \in Handsets,
           \/ Unregister(h) \/ SignOut(h) \/ SwitchPush(h) \/ \E u \in Users : SignIn(h, u)
    PROVE  InboxInv'
<1>1. /\ holder \in [Handsets -> Users \cup {None}]
      /\ leaving \subseteq Handsets /\ muted \subseteq Handsets
  BY DEF InboxInv, InboxTypeOK
<1>2. CASE Unregister(h)
  BY <1>1, <1>2, PhoneStaysInv DEF Unregister
<1>3. CASE SignOut(h)
  BY <1>1, <1>3, PhoneStaysInv DEF SignOut, Turn
<1>4. CASE SwitchPush(h)
  BY <1>1, <1>4, PhoneStaysInv DEF SwitchPush, Turn
<1>5. ASSUME NEW u \in Users, SignIn(h, u) PROVE InboxInv'
  BY <1>1, <1>5, PhoneStaysInv DEF SignIn, Turn
<1> QED
  BY <1>2, <1>3, <1>4, <1>5

LEMMA InboxRestartInv ==
    ASSUME InboxInv, InboxRestart
    PROVE  InboxInv'
<1>1. /\ tellCalls' = [r \in Requests |-> Idle]
      /\ UNCHANGED <<inbox, toldMade, shown, tokens, holder, leaving, muted, turns,
                     pointed, hands>>
  BY DEF InboxRestart, phoneVars
<1>2. tellCalls' \in [Requests -> TellCallType]
  BY <1>1, TellIdle
<1>3. ASSUME NEW r \in Requests
      PROVE  TellSound(tellCalls'[r], inbox', toldMade', pointed', hands')
  BY <1>1, TellIdle
<1>4. PhonesTyped' /\ ShownRight' /\ LikesApart' /\ InboxTypeOK'
  BY <1>1 DEF InboxInv, PhonesTyped, ShownRight, LikesApart, InboxTypeOK
<1> QED
  BY <1>1, <1>2, <1>3, <1>4 DEF InboxInv

LEMMA InboxNextInv == InboxInv /\ [InboxNext]_inboxVars => InboxInv'
<1> SUFFICES ASSUME InboxInv, [InboxNext]_inboxVars PROVE InboxInv'
  OBVIOUS
<1>1. ASSUME NEW r \in Requests, NEW to \in Users, NEW by \in Users,
             Notify(r, "bid", to, by) \/ FindLike(r, to, by)
      PROVE  InboxInv'
  BY <1>1, NotifyInv, FindLikeInv
<1>2. ASSUME NEW r \in Requests, NEW kind \in {"bid", "lapsed"}, NEW rows \in Bidders,
             NotifyEach(r, kind, rows)
      PROVE  InboxInv'
  <2>1. rows \in Seq(Inputs)
    <3>1. PICK t \in Users, u \in Users : rows = <<[to |-> t, by |-> None], [to |-> u, by |-> None]>>
      BY DEF Bidders
    <3>2. [to |-> t, by |-> None] \in Inputs /\ [to |-> u, by |-> None] \in Inputs
      BY DEF Inputs
    <3> QED
      BY <3>1, <3>2
  <2> QED
    BY <1>2, <2>1, NotifyEachInv
<1>3. ASSUME NEW r \in Requests, NEW by \in Users, NEW people \in SUBSET Users,
             NotifyMany(r, "reel", people, by)
      PROVE  InboxInv'
  BY <1>3, FansAreInputs, NotifyEachInv DEF NotifyMany
<1>4. ASSUME NEW r \in Requests,
             WriteLike(r) \/ ReadDevices(r) \/ Post(r) \/ PostFails(r) \/ ForgetDead(r)
      PROVE  InboxInv'
  BY <1>4, WriteLikeInv, ReadDevicesInv, PostInv, PostFailsInv, ForgetDeadInv
<1>5. ASSUME NEW u \in Users,
             MarkRead(u, DOMAIN inbox) \/ \E k \in DOMAIN inbox : MarkRead(u, {k})
      PROVE  InboxInv'
  <2>1. PICK ids : MarkRead(u, ids)
    BY <1>5
  <2> QED
    BY <2>1, MarkReadInv
<1>6. ASSUME NEW h \in Handsets,
             \/ Register(h) \/ Unregister(h) \/ SignOut(h) \/ SwitchPush(h)
             \/ \E u \in Users : SignIn(h, u)
      PROVE  InboxInv'
  BY <1>6, RegisterInv, HandsetInv
<1>7. CASE UNCHANGED inboxVars
  <2>1. UNCHANGED <<inbox, toldMade, tellCalls, shown, tokens, holder, leaving, muted, turns,
                    pointed, hands>>
    BY <1>7 DEF inboxVars, phoneVars
  <2> QED
    BY <2>1 DEF InboxInv, PhonesTyped, ShownRight, LikesApart, InboxTypeOK
<1> QED
  BY <1>1, <1>2, <1>3, <1>4, <1>5, <1>6, <1>7, InboxRestartInv DEF InboxNext

(* A push opens its reader's own row and strays to somebody else's screen  *)
(* only when the phone was made over on the way, and a like stands twice   *)
(* only when both were looked up before, for any people, phones and        *)
(* requests (user-notifications.service.ts:95-341,                         *)
(* expo-push.service.ts:57-210).                                           *)
THEOREM PushesReachTheirReader == InboxSpec => [](PushesFindTheirReader /\ InboxTypeOK)
<1>1. InboxInv => PushesFindTheirReader /\ InboxTypeOK
  BY DEF InboxInv, PushesFindTheirReader, ShownRight, LikesApart, PhonesTyped, RowOf
<1> QED
  BY InboxInitInv, InboxNextInv, <1>1, PTL DEF InboxSpec

(***************************************************************************)
(* The parts together                                                      *)
(***************************************************************************)

(* However the parts interleave, each of them behaves by its own           *)
(* specification: none writes what another reads.                          *)
LEMMA PartsApart ==
    CommunitySpec => /\ CommentsSpec /\ ViewsSpec /\ RatingSpec
                     /\ FollowsSpec /\ FlagsSpec /\ InboxSpec
<1>1. CommunityInit => /\ CommentsInit /\ ViewsInit /\ RatingInit
                       /\ FollowsInit /\ FlagsInit /\ InboxInit
  BY DEF CommunityInit
<1>2. [CommunityNext]_communityVars =>
        /\ [CommentsNext]_commentsVars /\ [ViewsNext]_viewVars
        /\ [RatingNext]_ratingVars /\ [FollowsNext]_followVars
        /\ [FlagsNext]_flagVars /\ [InboxNext]_inboxVars
  BY DEF CommunityNext, communityVars
<1> QED
  BY <1>1, <1>2, PTL DEF CommunitySpec, CommentsSpec, ViewsSpec, RatingSpec,
     FollowsSpec, FlagsSpec, InboxSpec

(* The numbers beside the names and on the cards stand for rows, and every *)
(* variable of the six parts keeps its type, in any interleaving of them.  *)
THEOREM CountsStandForRows == CommunitySpec => []CountsAreRows
BY PartsApart, CardsMatchThreads, ViewersAreCounted, StarsTellTheRecord,
   NumbersAreRows, VerdictsReachTheirTarget, PushesReachTheirReader, PTL
   DEF CountsAreRows, TypeOK
=============================================================================
