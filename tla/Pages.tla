-------------------------------- MODULE Pages --------------------------------
(***************************************************************************)
(* Reading a long list page by page while others write it.  The reels and  *)
(* the messages of a chat are paged from the last row the reader holds     *)
(* (keyset); every other list by counting the rows already read (offset).  *)
(* A page is one request: nothing is kept between two but what the reader  *)
(* sends back, so rows come, go and move in between.                       *)
(*                                                                         *)
(* A row is a number, which stands for its id; `place` is the column the   *)
(* list is ordered by.  The reader adds the page size to its offset, and   *)
(* stops at a page that comes short.                                       *)
(***************************************************************************)
EXTENDS Integers, SequencesExt

CONSTANTS Entries,   \* the rows there may be, by id
          PageSize,  \* `limit`
          Top,       \* bound: the highest place
          MaxStirs   \* bound: changes others make while the list is read

(* The rows are numbered from one; the last of them is yet to come.        *)
ASSUME PagesBounds ==
    /\ IsFiniteSet(Entries) /\ Entries = 1 .. Cardinality(Entries)
    /\ PageSize \in Nat \ {0} /\ Top \in Nat /\ MaxStirs \in Nat

VARIABLES list,      \* the list that is read, see Lists
          place,     \* row -> its place in the order, 0 for a row not in it
          watched,   \* reels: the rows this viewer has watched (video_views)
          cursor,    \* what the reader sends for the next page
          pages,     \* the pages it was given
          ended,     \* it was told, or can tell, there are no more
          stirs,     \* changes so far
          stood,     \* ghost: rows in their place since the first page
          left,      \* ghost: rows that left their place
          came,      \* ghost: rows that took one
          alike,     \* ghost: rows that at some time shared theirs
          rewatched  \* ghost: rows watched since the first page

pageGhosts == <<stood, left, came, alike, rewatched>>
pageVars == <<list, place, watched, cursor, pages, ended, stirs, pageGhosts>>

PageRows == {r \in Entries : place[r] > 0}

(***************************************************************************)
(* The lists: how each is paged, whether new rows come in at the end, in   *)
(* time order or anywhere, whether the order ends in the id, whether rows  *)
(* can leave it or move in it.                                             *)
(***************************************************************************)
ByTime(moves, leaves) ==
    [how |-> "offset", oldest |-> FALSE, byId |-> FALSE, anywhere |-> FALSE,
     moves |-> moves, leaves |-> leaves, mineFirst |-> FALSE]
ByValue(leaves) == [ByTime(TRUE, leaves) EXCEPT !.anywhere = TRUE]
\* Rows that keep their time enter and leave with the status asked for.
ByStatus == [ByTime(FALSE, TRUE) EXCEPT !.anywhere = TRUE]
OldestFirst(page) == [page EXCEPT !.oldest = TRUE]

ReelFeed == [ByTime(FALSE, TRUE) EXCEPT !.how = "keyset", !.byId = TRUE]
ChatThread == [ByTime(FALSE, FALSE) EXCEPT !.how = "moment"]

\* The feed by price or with the promoted ones first, a seller's page, the
\* directory of sellers with the busiest first, the desk's queue, the wallets.
ListingFeed == ByValue(TRUE)
OwnerPage == ByValue(TRUE)
SellerSearch == [ByValue(TRUE) EXCEPT !.byId = TRUE]
DeskQueue == ByValue(TRUE)
WalletsPage == ByValue(FALSE)

\* Added on top, and taken away.
SavedPage == ByTime(FALSE, TRUE)
FollowPage == ByTime(FALSE, TRUE)
ReelComments == ByTime(FALSE, TRUE)
AuthorPage == ByTime(FALSE, TRUE)
ReelShelf == ByTime(FALSE, TRUE)
MyReviews == ByTime(FALSE, TRUE)
GrantsPage == ByTime(FALSE, TRUE)
\* Only added to.
MyAdverts == ByTime(FALSE, FALSE)
LedgerPage == ByTime(FALSE, FALSE)
AdjustmentsPage == ByTime(FALSE, FALSE)
\* A thread's row in the inbox moves to the top with its next message.
InboxPage == ByTime(TRUE, TRUE)
\* The reader's own review leads the first page, wherever it stands.
ReviewPage == [ByTime(FALSE, TRUE) EXCEPT !.mineFirst = TRUE]
RepliesPage == OldestFirst(ByTime(FALSE, TRUE))

BidPage == ByStatus
MembersPage == ByStatus
AdvertsPage == ByStatus
PaymentsPage == ByStatus
ReelQueue == ByStatus
ReviewQueue == ByStatus
FlagQueue == ByStatus
ReportQueue == ByStatus
ChatReportQueue == ByStatus
\* The applications that wait; one that is reopened takes its place again.
VerificationQueue == OldestFirst(ByStatus)

Lists == {ReelFeed, ChatThread, ListingFeed, OwnerPage, SellerSearch, DeskQueue,
          WalletsPage, SavedPage, FollowPage, ReelComments, AuthorPage, ReelShelf,
          MyReviews, GrantsPage, MyAdverts, LedgerPage, AdjustmentsPage, InboxPage,
          ReviewPage, RepliesPage, BidPage, MembersPage, AdvertsPage, PaymentsPage,
          ReelQueue, ReviewQueue, FlagQueue, ReportQueue, ChatReportQueue,
          VerificationQueue}

(***************************************************************************)
(* The order, and what a query takes of it                                 *)
(***************************************************************************)
Ahead(a, b) ==
    \/ IF list.oldest THEN place[a] < place[b] ELSE place[a] > place[b]
    \/ list.byId /\ place[a] = place[b] /\ a > b

(* ORDER BY leaves rows of one place in any order, another one each time.  *)
Orders(S) ==
    {s \in SetToSeqs(S) : \A i, j \in DOMAIN s : i < j => ~Ahead(s[j], s[i])}

(* Rows the order does not tell from another. *)
Tied == {r \in PageRows : ~list.byId /\ \E q \in Entries \ {r} : place[q] = place[r]}

First(s, n) == SubSeq(s, 1, IF Len(s) < n THEN Len(s) ELSE n)

NoRow == [row |-> 0, place |-> 0]
Holding(r) == [row |-> r, place |-> place[r]]

Start == [phase |-> "a", from |-> NoRow, skip |-> 0]

(* One row is yet to come; the others are numbered in the order of their   *)
(* places, which is as good as another numbering.                          *)
Placings ==
    {p \in [Entries -> 0 .. Top - 1] :
        \A r \in Entries : IF r = Cardinality(Entries) THEN p[r] = 0
                          ELSE \A q \in 1 .. r : p[q] <= p[r]}

PagesInit ==
    /\ list \in Lists
    /\ place \in Placings
    /\ watched \in IF list.how = "keyset" THEN SUBSET (Entries \ {Cardinality(Entries)})
                  ELSE {{}}
    \* 'u' for a viewer the server can tell, 'a' for others and for a search
    /\ \E phase \in IF list.how = "keyset" THEN {"u", "a"} ELSE {"a"} :
          cursor = [Start EXCEPT !.phase = phase]
    /\ pages = << >> /\ ended = FALSE /\ stirs = 0
    /\ stood = PageRows
    /\ left = 0 /\ came = 0 /\ alike = Tied /\ rewatched = {}

Hand(page, next, end) ==
    /\ ~ended
    /\ pages' = Append(pages, page)
    /\ cursor' = next
    /\ ended' = end
    /\ UNCHANGED <<list, place, watched, stirs, pageGhosts>>

(***************************************************************************)
(* VideosService.feed: the unwatched reels first, then the watched ones    *)
(***************************************************************************)
InPhase(phase) ==
    {r \in PageRows : /\ phase = "u" => r \notin watched
                      /\ phase = "s" => r \in watched}

\* Mutant: the cursor compares the rank alone.
FaultyBeyond(r, from) == from = NoRow \/ from.place > place[r]

(* (rank_at, id) < (:cursorRank, :cursorId) *)
Beyond(r, from) == from = NoRow \/ from.place > place[r]
                     \/ (from.place = place[r] /\ from.row > r)

FeedRows(phase, from, n) ==
    LET pool == {r \in InPhase(phase) : Beyond(r, from)}
    IN  First(CHOOSE s \in Orders(pool) : TRUE, n)

ReadReels ==
    LET rows == FeedRows(cursor.phase, cursor.from, PageSize)
        seen == FeedRows("s", NoRow, PageSize - Len(rows))
        After(phase, page) == [cursor EXCEPT !.phase = phase,
                                             !.from = Holding(page[Len(page)])]
    IN  /\ list.how = "keyset"
        /\ IF cursor.phase = "u" /\ Len(rows) < PageSize
           THEN IF seen = << >> THEN Hand(rows, cursor, TRUE)
                ELSE Hand(rows \o seen, After("s", seen), FALSE)
           ELSE IF Len(rows) = PageSize
                THEN Hand(rows, After(cursor.phase, rows), FALSE)
                ELSE Hand(rows, cursor, TRUE)

(***************************************************************************)
(* Messages, from the createdAt of the oldest one held: a time in          *)
(* microseconds that reaches the app in milliseconds, here two places to   *)
(* one                                                                     *)
(***************************************************************************)
Moment(p) == p \div 2

ReadMessages ==
    /\ list.how = "moment"
    /\ LET older == {r \in PageRows :
                        cursor.from = NoRow \/ place[r] < 2 * Moment(cursor.from.place)}
       IN  \E s \in Orders(older) :
             LET page == First(s, PageSize) IN
             IF Len(page) = PageSize
             THEN Hand(page, [cursor EXCEPT !.from = Holding(page[PageSize])], FALSE)
             ELSE Hand(page, cursor, TRUE)

(***************************************************************************)
(* LIMIT and OFFSET                                                        *)
(***************************************************************************)
Mine == 1

Led(page) ==
    LET own == {i \in DOMAIN page : page[i] = Mine} IN
    IF list.mineFirst /\ cursor.skip = 0 /\ Mine \in PageRows
    THEN <<Mine>> \o IF own = {} THEN page ELSE RemoveAt(page, CHOOSE i \in own : TRUE)
    ELSE page

ReadOffset ==
    /\ list.how = "offset"
    /\ \E s \in Orders(PageRows) :
          LET page == SubSeq(s, cursor.skip + 1,
                             IF Len(s) < cursor.skip + PageSize THEN Len(s)
                             ELSE cursor.skip + PageSize)
          IN  Hand(Led(page), [cursor EXCEPT !.skip = @ + PageSize],
                   Len(page) < PageSize)

ReadPage == ReadReels \/ ReadMessages \/ ReadOffset

(***************************************************************************)
(* What others do between two pages                                        *)
(***************************************************************************)
Latest == CHOOSE p \in 0 .. Top : /\ \A r \in Entries : place[r] <= p
                                  /\ p = 0 \/ \E r \in Entries : place[r] = p

(* A new row comes last in time: at once with another, or later.  A reel   *)
(* under a listing is ranked as if it were younger, so one without may     *)
(* come in below it.                                                       *)
NewPlaces ==
    (IF list.anywhere THEN 1 .. Top
     ELSE IF list.how = "keyset" THEN {Latest - 1, Latest, Latest + 1}
     ELSE {Latest, Latest + 1}) \cap 1 .. Top

Stir == /\ pages # << >> /\ ~ended /\ stirs < MaxStirs
        /\ stirs' = stirs + 1
        /\ UNCHANGED <<list, cursor, pages, ended>>

EntryComes(r) ==
    /\ Stir
    /\ place[r] = 0
    /\ \E p \in NewPlaces : place' = [place EXCEPT ![r] = p]
    /\ alike' = alike \cup Tied'
    /\ came' = came + 1
    /\ UNCHANGED <<watched, stood, left, rewatched>>

EntryLeaves(r) ==
    /\ Stir
    /\ list.leaves /\ place[r] > 0
    /\ place' = [place EXCEPT ![r] = 0] /\ alike' = alike
    /\ stood' = stood \ {r} /\ left' = left + 1
    /\ UNCHANGED <<watched, came, rewatched>>

EntryMoves(r) ==
    /\ Stir
    /\ list.moves /\ place[r] > 0
    /\ \E p \in NewPlaces \ {place[r]} : place' = [place EXCEPT ![r] = p]
    /\ alike' = alike \cup Tied'
    /\ stood' = stood \ {r} /\ left' = left + 1 /\ came' = came + 1
    /\ UNCHANGED <<watched, rewatched>>

(* recordView of a reel on the screen, here or on another device *)
ReelWatched(r) ==
    /\ Stir
    /\ list.how = "keyset" /\ place[r] > 0 /\ r \notin watched
    /\ watched' = watched \cup {r}
    /\ rewatched' = rewatched \cup {r}
    /\ UNCHANGED <<place, stood, left, came, alike>>

PagesNext ==
    \/ ReadPage
    \/ \E r \in Entries : EntryComes(r) \/ EntryLeaves(r) \/ EntryMoves(r) \/ ReelWatched(r)

PagesSpec == PagesInit /\ [][PagesNext]_pageVars

-----------------------------------------------------------------------------
PagesTypeOK ==
    /\ list \in Lists
    /\ place \in [Entries -> 0 .. Top]
    /\ watched \subseteq Entries /\ stood \subseteq PageRows /\ rewatched \subseteq watched
    /\ pages \in Seq(Seq(Entries))
    /\ cursor.phase \in {"u", "s", "a"}
    /\ ended \in BOOLEAN /\ stirs \in 0 .. MaxStirs

(* Where the reader was given the row: in which page, and where in it.     *)
Readings(r) == UNION {{p} \X {i \in DOMAIN pages[p] : pages[p][i] = r} : p \in DOMAIN pages}
Missed == {r \in stood : Readings(r) = {}}
Repeated == {r \in stood : \E a, b \in Readings(r) : a # b}

(* Rows of the millisecond some page ended in. *)
Clipped(r) == \E i \in DOMAIN pages : /\ pages[i] # << >>
                                      /\ Moment(place[pages[i][Len(pages[i])]])
                                           = Moment(place[r])

(* Who reads a list to its end has read every row that stood in its place  *)
(* all along, and read it once.  By offset a row is passed over only for   *)
(* one that left a place, and read twice only for one that came; rows the  *)
(* order does not tell apart may stand in for one another, and the         *)
(* reader's own review is read first and again in its place.  From the     *)
(* last reel nothing is passed over, and only what was watched meanwhile   *)
(* comes again; from the last message, only its own millisecond can be     *)
(* passed over.  (videos.service.ts:385-563, chat.service.ts:472-508,      *)
(* listing.repository.ts:35-150)                                           *)
ScrollReadsWhatStood == ended =>
    CASE list.how = "keyset" -> Missed = {} /\ Repeated \subseteq rewatched
      [] list.how = "moment" -> Repeated = {} /\ \A r \in Missed : Clipped(r)
      [] list.how = "offset" ->
           /\ Cardinality(Missed \ alike) <= left
           /\ Cardinality(Repeated \ (alike \cup IF list.mineFirst THEN {Mine} ELSE {}))
                <= came
=============================================================================
