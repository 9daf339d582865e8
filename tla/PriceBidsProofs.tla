--------------------------- MODULE PriceBidsProofs ---------------------------
(***************************************************************************)
(* Theorems about PriceBids, for any bidders, requests and bounds: a buyer *)
(* has at most one open bid, and a take-down leaves none open that was     *)
(* made before it.                                                         *)
(***************************************************************************)
EXTENDS PriceBids, FiniteSetTheorems, SequenceTheorems, TLAPS

(* A request that answers a bid answers one that was made. *)
Answering ==
    \A s \in Askers : ask[s] # Idle /\ ask[s].op \in Answers => ask[s].bid \in DOMAIN bids

OnePerBidder ==
    \A i, j \in Open : bids[i].bidder = bids[j].bidder => i = j

(* What a take-down that has been seen to leaves: e is the event. *)
ClosedBefore(e) == \A b \in Open : bids[b].at >= e

(* What the closer holds: an event that was published and, past its read,  *)
(* every bid that is still open and older than it.                         *)
Closing ==
    closer # Idle =>
        /\ closer.event \in 1..takeDowns
        /\ closer.event \notin failed =>
              /\ closer.pc = "write" => \A b \in Open \ closer.list :
                                           bids[b].at >= closer.event
              /\ closer.pc = "save" => ClosedBefore(closer.event)

AllClosed == \A e \in processed \ failed : ClosedBefore(e)

BidsInv == TypeOK /\ Answering /\ OnePerBidder /\ Closing /\ AllClosed

-----------------------------------------------------------------------------
(* Updating rows by id keeps who made them and when, and settles them.     *)
LEMMA MarkKeeps ==
    ASSUME NEW rows \in Seq(BidType), NEW those, NEW status \in Settled
    PROVE  /\ Mark(rows, those, status) \in Seq(BidType)
           /\ DOMAIN Mark(rows, those, status) = DOMAIN rows
           /\ Len(Mark(rows, those, status)) = Len(rows)
           /\ \A b \in DOMAIN rows :
                 /\ Mark(rows, those, status)[b].bidder = rows[b].bidder
                 /\ Mark(rows, those, status)[b].at = rows[b].at
                 /\ Mark(rows, those, status)[b].status =
                       IF b \in those THEN status ELSE rows[b].status
<1> DEFINE new == Mark(rows, those, status)
<1>1. DOMAIN rows = 1..Len(rows) /\ Len(rows) \in Nat
  OBVIOUS
<1>2. \A b \in DOMAIN rows :
         /\ new[b] \in BidType
         /\ new[b].bidder = rows[b].bidder /\ new[b].at = rows[b].at
         /\ new[b].status = IF b \in those THEN status ELSE rows[b].status
  <2> TAKE b \in DOMAIN rows
  <2>1. rows[b] \in BidType
    OBVIOUS
  <2>2. new[b] = IF b \in those THEN [rows[b] EXCEPT !.status = status] ELSE rows[b]
    BY DEF Mark
  <2> QED
    BY <2>1, <2>2 DEF BidType
<1>3. DOMAIN new = 1..Len(rows)
  BY <1>1 DEF Mark
<1>4. new \in [1..Len(rows) -> BidType]
  BY <1>1, <1>2, <1>3 DEF Mark
<1>5. new \in Seq(BidType) /\ Len(new) = Len(rows)
  BY <1>1, <1>4
<1> QED
  BY <1>1, <1>2, <1>3, <1>5

(* No bid is taken back, and none opens again. *)
BidsGoOn ==
    /\ bids' \in Seq(BidType) /\ Len(bids') <= MaxBids
    /\ DOMAIN bids \subseteq DOMAIN bids'
    /\ \A b \in DOMAIN bids :
          /\ bids'[b].bidder = bids[b].bidder /\ bids'[b].at = bids[b].at
          /\ bids'[b].status = "PENDING" => bids[b].status = "PENDING"
    /\ \A b \in DOMAIN bids' \ DOMAIN bids :
          /\ bids'[b].at = takeDowns
          /\ \A j \in DOMAIN bids' : j # b /\ bids'[j].bidder = bids'[b].bidder =>
                                        bids'[j].status # "PENDING"

LEMMA MarkGoesOn ==
    ASSUME TypeOK, NEW those, NEW status \in Settled, bids' = Mark(bids, those, status)
    PROVE  BidsGoOn /\ DOMAIN bids' = DOMAIN bids
<1>1. bids \in Seq(BidType) /\ Len(bids) <= MaxBids
  BY DEF TypeOK
<1>2. /\ bids' \in Seq(BidType) /\ DOMAIN bids' = DOMAIN bids /\ Len(bids') = Len(bids)
      /\ \A b \in DOMAIN bids :
            /\ bids'[b].bidder = bids[b].bidder /\ bids'[b].at = bids[b].at
            /\ bids'[b].status = IF b \in those THEN status ELSE bids[b].status
  BY <1>1, MarkKeeps
<1>3. status # "PENDING"
  BY DEF Settled
<1> QED
  BY <1>1, <1>2, <1>3 DEF BidsGoOn

LEMMA SameGoesOn ==
    ASSUME TypeOK, bids' = bids
    PROVE  BidsGoOn /\ DOMAIN bids' = DOMAIN bids
BY DEF TypeOK, BidsGoOn

(* What goes on keeps a bidder's one open bid, and what is closed.         *)
LEMMA GoOnKeeps ==
    ASSUME OnePerBidder, BidsGoOn
    PROVE  /\ OnePerBidder'
           /\ \A e \in Int : e <= takeDowns /\ ClosedBefore(e) => ClosedBefore(e)'
<1>1. \A b \in DOMAIN bids : b \in Open' => b \in Open
  BY DEF BidsGoOn, Open
<1>2. OnePerBidder'
  BY <1>1 DEF BidsGoOn, OnePerBidder, Open
<1>3. ASSUME NEW e \in Int, e <= takeDowns, ClosedBefore(e), NEW b \in Open'
      PROVE  bids'[b].at >= e
  <2>1. CASE b \in DOMAIN bids
    BY <1>1, <1>3, <2>1 DEF BidsGoOn, ClosedBefore
  <2>2. CASE b \notin DOMAIN bids
    BY <1>3, <2>2 DEF BidsGoOn, Open
  <2> QED
    BY <2>1, <2>2
<1> QED
  BY <1>2, <1>3 DEF ClosedBefore

-----------------------------------------------------------------------------
(* The steps                                                               *)

(* While the closer and the listing stand, bids may go on as they like.    *)
LEMMA Steady ==
    ASSUME BidsInv, BidsGoOn, UNCHANGED <<listingVars, closerVars>>,
           ask' \in [Askers -> AskType], sweep' \subseteq DOMAIN bids',
           faults' \in 0..MaxFaults, Answering'
    PROVE  BidsInv'
<1>1. TypeOK /\ OnePerBidder /\ Closing /\ AllClosed
  BY DEF BidsInv
<1>2. /\ UNCHANGED <<active, takeDowns, processed, failed, closer>>
      /\ takeDowns \in Int
  BY <1>1 DEF listingVars, closerVars, TypeOK
<1>3. closer' \in [pc : {"find", "write", "save"}, event : Events,
                  list : SUBSET DOMAIN bids'] \union {Idle}
  BY <1>1, <1>2 DEF TypeOK, BidsGoOn
<1>4. TypeOK'
  <2>1. bids' \in Seq(BidType) /\ Len(bids') <= MaxBids
    BY DEF BidsGoOn
  <2> QED
    BY <1>1, <1>2, <1>3, <2>1 DEF TypeOK
<1>5. OnePerBidder' /\ \A e \in Int : e <= takeDowns /\ ClosedBefore(e) => ClosedBefore(e)'
  BY <1>1, GoOnKeeps
<1>6. Closing'
  <2> SUFFICES ASSUME closer # Idle
               PROVE  /\ closer.event \in 1..takeDowns
                      /\ closer.event \notin failed =>
                           /\ closer.pc = "write" => \A b \in Open' \ closer.list :
                                                        bids'[b].at >= closer.event
                           /\ closer.pc = "save" => ClosedBefore(closer.event)'
    BY <1>2 DEF Closing
  <2>1. closer.event \in 1..takeDowns
    BY <1>1 DEF Closing
  <2>2. closer.event \notin failed /\ closer.pc = "save" => ClosedBefore(closer.event)'
    BY <1>1, <1>2, <1>5, <2>1 DEF Closing
  <2>3. ASSUME closer.event \notin failed, closer.pc = "write", NEW b \in Open' \ closer.list
        PROVE  bids'[b].at >= closer.event
    <3>1. CASE b \in DOMAIN bids
      BY <1>1, <2>3, <3>1 DEF BidsGoOn, Open, Closing
    <3>2. CASE b \notin DOMAIN bids
      BY <1>2, <2>1, <2>3, <3>2 DEF BidsGoOn, Open
    <3> QED
      BY <3>1, <3>2
  <2> QED
    BY <2>1, <2>2, <2>3
<1>7. AllClosed'
  <2>1. processed \subseteq 1..takeDowns
    BY <1>1 DEF TypeOK
  <2> QED
    BY <1>1, <1>2, <1>5, <2>1 DEF AllClosed
<1> QED
  BY <1>4, <1>5, <1>6, <1>7 DEF BidsInv

LEMMA AskCreateInv ==
    ASSUME BidsInv, NEW s \in Askers, NEW u \in Bidders, AskCreate(s, u)
    PROVE  BidsInv'
<1> DEFINE r == [pc |-> "listing", op |-> "create", bidder |-> u, seen |-> 0]
<1>1. TypeOK /\ Answering
  BY DEF BidsInv
<1>2. BidsGoOn /\ DOMAIN bids' = DOMAIN bids
  BY <1>1, SameGoesOn DEF AskCreate
<1>3. r \in AskType /\ r.op \notin Answers
  BY PriceBidsAssumption DEF AskType, Answers
<1>4. ask' = [ask EXCEPT ![s] = r]
  BY DEF AskCreate
<1> HIDE DEF r
<1>5. ask' \in [Askers -> AskType] /\ Answering'
  BY <1>1, <1>2, <1>3, <1>4 DEF TypeOK, Answering
<1> QED
  BY <1>1, <1>2, <1>5, Steady DEF AskCreate, TypeOK

LEMMA AskAnswerInv ==
    ASSUME BidsInv, NEW s \in Askers, NEW op \in Answers, NEW b \in BidIds,
           AskAnswer(s, op, b)
    PROVE  BidsInv'
<1> DEFINE r == [pc |-> IF op = "withdraw" THEN "write" ELSE "listing",
                 op |-> op, bid |-> b]
<1>1. TypeOK /\ Answering
  BY DEF BidsInv
<1>2. BidsGoOn /\ DOMAIN bids' = DOMAIN bids
  BY <1>1, SameGoesOn DEF AskAnswer
<1>3. r \in AskType /\ r.bid \in DOMAIN bids
  BY DEF AskType, AskAnswer, Open
<1>4. ask' = [ask EXCEPT ![s] = r]
  BY DEF AskAnswer
<1> HIDE DEF r
<1>5. ask' \in [Askers -> AskType] /\ Answering'
  BY <1>1, <1>2, <1>3, <1>4 DEF TypeOK, Answering
<1> QED
  BY <1>1, <1>2, <1>5, Steady DEF AskAnswer, TypeOK

(* A request that ends leaves the others as they are.                      *)
LEMMA AnsweredKeeps ==
    ASSUME TypeOK, Answering, BidsGoOn, NEW s \in Askers, Answered(s)
    PROVE  ask' \in [Askers -> AskType] /\ Answering'
<1>1. Idle \in AskType
  BY DEF AskType
<1>2. ask' = [ask EXCEPT ![s] = Idle]
  BY DEF Answered
<1> QED
  BY <1>1, <1>2 DEF TypeOK, Answering, BidsGoOn

LEMMA CheckListingInv ==
    ASSUME BidsInv, NEW s \in Askers, CheckListing(s)
    PROVE  BidsInv'
<1>1. TypeOK /\ Answering
  BY DEF BidsInv
<1>2. BidsGoOn /\ DOMAIN bids' = DOMAIN bids
  BY <1>1, SameGoesOn DEF CheckListing
<1>3. ask[s] \in AskType /\ ask[s] # Idle /\ Len(bids) \in 0..MaxBids
  BY <1>1 DEF TypeOK, CheckListing, Idle
<1>4. PICK r \in AskType : /\ ask' = [ask EXCEPT ![s] = r]
                           /\ r # Idle => r.op = ask[s].op
                           /\ r # Idle /\ ask[s].op \in Answers => r.bid = ask[s].bid
  <2>1. CASE ~active
    <3>1. Idle \in AskType /\ ask' = [ask EXCEPT ![s] = Idle]
      BY <2>1 DEF AskType, CheckListing
    <3> QED
      BY <3>1
  <2>2. CASE active /\ ask[s].op = "create"
    <3> DEFINE r == [ask[s] EXCEPT !.pc = "write", !.seen = Len(bids)]
    <3>1. ask[s] \in [pc : {"listing", "write"}, op : {"create"}, bidder : Bidders,
                     seen : 0..MaxBids]
      BY <1>3, <2>2 DEF AskType, Answers
    <3>2. ask' = [ask EXCEPT ![s] = r]
      BY <1>1, <2>2 DEF CheckListing, TypeOK
    <3>3. /\ r \in [pc : {"listing", "write"}, op : {"create"}, bidder : Bidders,
                    seen : 0..MaxBids]
          /\ r.op = ask[s].op
      BY <1>3, <3>1
    <3>4. r \in AskType /\ ask[s].op \notin Answers
      BY <2>2, <3>3 DEF AskType, Answers
    <3> QED
      BY <3>2, <3>3, <3>4
  <2>3. CASE active /\ ask[s].op # "create"
    <3> DEFINE r == [pc |-> "write", op |-> ask[s].op, bid |-> ask[s].bid]
    <3>1. ask[s] \in [pc : {"listing", "write"}, op : Answers, bid : BidIds]
      BY <1>3, <2>3 DEF AskType
    <3>2. ask' = [ask EXCEPT ![s] = [ask[s] EXCEPT !.pc = "write"]]
      BY <1>1, <2>3 DEF CheckListing, TypeOK
    <3>3. [ask[s] EXCEPT !.pc = "write"] = r
      BY <3>1
    <3>4. r \in AskType /\ r.op = ask[s].op /\ r.bid = ask[s].bid
      BY <3>1 DEF AskType
    <3> QED
      BY <3>2, <3>3, <3>4
  <2> QED
    BY <2>1, <2>2, <2>3
<1>5. /\ ask \in [Askers -> AskType]
      /\ ask' = [ask EXCEPT ![s] = r]
  BY <1>1, <1>4 DEF TypeOK
<1>6. ask' \in [Askers -> AskType]
  BY <1>5
<1>7. Answering'
  <2> SUFFICES ASSUME NEW t \in Askers, ask'[t] # Idle, ask'[t].op \in Answers
               PROVE  ask'[t].bid \in DOMAIN bids
    BY <1>2 DEF Answering
  <2>1. CASE t = s
    <3>1. ask'[t] = r
      BY <1>5, <2>1
    <3>2. r # Idle /\ ask[s].op \in Answers /\ r.bid = ask[s].bid
      BY <1>4, <3>1
    <3> QED
      BY <1>1, <1>3, <3>1, <3>2 DEF Answering
  <2>2. CASE t # s
    BY <1>1, <1>5, <2>2 DEF Answering
  <2> QED
    BY <2>1, <2>2
<1> QED
  BY <1>1, <1>2, <1>6, <1>7, Steady DEF CheckListing, TypeOK

(* Requests that are refused write nothing.                                *)
LEMMA ConflictInv ==
    ASSUME BidsInv, NEW s \in Askers, CreateConflicts(s) \/ CounterConflicts(s)
    PROVE  BidsInv'
<1>1. TypeOK /\ Answering /\ Answered(s)
      /\ UNCHANGED <<listingVars, closerVars, bids, sweep, faults>>
  BY DEF BidsInv, CreateConflicts, CounterConflicts
<1>2. BidsGoOn /\ DOMAIN bids' = DOMAIN bids
  BY <1>1, SameGoesOn
<1> QED
  BY <1>1, <1>2, AnsweredKeeps, Steady DEF TypeOK

(* Who has a request in hand has a bidder, or a bid that was made.         *)
LEMMA InHand ==
    ASSUME BidsInv, NEW s \in Askers, ask[s].pc = "write"
    PROVE  /\ ask[s].op = "create" => ask[s].bidder \in Bidders
           /\ ask[s].op \in Answers => ask[s].bid \in DOMAIN bids
<1>1. ask[s] \in AskType /\ ask[s] # Idle /\ Answering
  BY DEF BidsInv, TypeOK, Idle
<1> QED
  BY <1>1 DEF AskType, Answers, Answering

(* A row is added at the end: what was there stays as it was.              *)
LEMMA Added ==
    ASSUME NEW rows \in Seq(BidType), NEW row \in BidType
    PROVE  /\ Append(rows, row) \in Seq(BidType)
           /\ Len(Append(rows, row)) = Len(rows) + 1
           /\ DOMAIN Append(rows, row) = DOMAIN rows \union {Len(rows) + 1}
           /\ Len(rows) + 1 \notin DOMAIN rows
           /\ \A b \in DOMAIN rows : Append(rows, row)[b] = rows[b]
           /\ Append(rows, row)[Len(rows) + 1] = row
OBVIOUS

(* The bidder's other bids step aside before the row is there.             *)
LEMMA NewGoesOn ==
    ASSUME TypeOK, Len(bids) < MaxBids, NEW u \in Bidders, NEW dir \in {"BUYER", "SELLER"},
           NEW rows \in Seq(BidType), bids' = Append(rows, NewBid(u, dir)),
           DOMAIN rows = DOMAIN bids, Len(rows) = Len(bids),
           \A b \in DOMAIN bids :
              /\ rows[b].bidder = bids[b].bidder /\ rows[b].at = bids[b].at
              /\ rows[b].status = "PENDING" => bids[b].status = "PENDING"
              /\ rows[b].bidder = u => rows[b].status # "PENDING"
    PROVE  BidsGoOn
<1> DEFINE row == NewBid(u, dir)
           k == Len(rows) + 1
<1>1. row \in BidType /\ row.at = takeDowns /\ row.bidder = u
  BY PriceBidsAssumption DEF NewBid, BidType, TypeOK
<1>2. bids' = Append(rows, row)
  OBVIOUS
<1> HIDE DEF row
<1>3. /\ bids' \in Seq(BidType) /\ Len(bids') = k
      /\ DOMAIN bids' = DOMAIN rows \union {k} /\ k \notin DOMAIN rows
      /\ \A b \in DOMAIN rows : bids'[b] = rows[b]
      /\ bids'[k] = row
  BY <1>1, <1>2, Added
<1>4. Len(bids') <= MaxBids
  BY <1>3, PriceBidsAssumption DEF TypeOK
<1> HIDE DEF k
<1> QED
  BY <1>1, <1>3, <1>4 DEF BidsGoOn

LEMMA CreateBidInv ==
    ASSUME BidsInv, NEW s \in Askers, CreateBid(s)
    PROVE  BidsInv'
<1> DEFINE rows == Mark(bids, OpenOf(ask[s].bidder), "WITHDRAWN")
<1>1. TypeOK /\ Answering /\ bids \in Seq(BidType) /\ Len(bids) < MaxBids
  BY DEF BidsInv, TypeOK, CreateBid
<1>2. ask[s].bidder \in Bidders
  BY InHand DEF CreateBid, Writing
<1>3. /\ rows \in Seq(BidType) /\ DOMAIN rows = DOMAIN bids /\ Len(rows) = Len(bids)
      /\ \A b \in DOMAIN bids :
            /\ rows[b].bidder = bids[b].bidder /\ rows[b].at = bids[b].at
            /\ rows[b].status = IF b \in OpenOf(ask[s].bidder) THEN "WITHDRAWN"
                                ELSE bids[b].status
  BY <1>1, MarkKeeps DEF Settled
<1>4. bids' = Append(rows, NewBid(ask[s].bidder, "BUYER"))
  BY DEF CreateBid
<1> HIDE DEF rows
<1>5. BidsGoOn
  <2>1. \A b \in DOMAIN bids :
           /\ rows[b].bidder = bids[b].bidder /\ rows[b].at = bids[b].at
           /\ rows[b].status = "PENDING" => bids[b].status = "PENDING"
           /\ rows[b].bidder = ask[s].bidder => rows[b].status # "PENDING"
    BY <1>3 DEF OpenOf, Open
  <2>2. rows \in Seq(BidType) /\ DOMAIN rows = DOMAIN bids /\ Len(rows) = Len(bids)
    BY <1>3
  <2> QED
    BY <1>1, <1>2, <1>4, <2>1, <2>2, NewGoesOn
<1>6. ask' \in [Askers -> AskType] /\ Answering'
  BY <1>1, <1>5, AnsweredKeeps DEF CreateBid
<1> QED
  BY <1>1, <1>5, <1>6, Steady DEF CreateBid, TypeOK, BidsGoOn

LEMMA CounterBidInv ==
    ASSUME BidsInv, NEW s \in Askers, CounterBid(s)
    PROVE  BidsInv'
<1>1. TypeOK /\ Answering /\ bids \in Seq(BidType) /\ Len(bids) < MaxBids
  BY DEF BidsInv, TypeOK, CounterBid
<1>2. PICK b \in DOMAIN bids : b = ask[s].bid
  BY InHand DEF CounterBid, Writing, Answers
<1> DEFINE new == Len(bids) + 1
           row == [[bids[b] EXCEPT !.status = "COUNTERED"] EXCEPT !.next = new]
           rows == [bids EXCEPT ![b] = row]
<1>3. PICK dir \in {"BUYER", "SELLER"} :
        /\ OpenOf(bids[b].bidder) = {}
        /\ bids' = Append([bids EXCEPT ![b].status = "COUNTERED", ![b].next = new],
                          NewBid(bids[b].bidder, dir))
  BY <1>2 DEF CounterBid
<1>4. bids[b] \in BidType /\ DOMAIN bids = 1..Len(bids) /\ new \in BidIds /\ Len(bids) \in Nat
  BY <1>1, PriceBidsAssumption DEF BidIds
<1>5. [bids EXCEPT ![b].status = "COUNTERED", ![b].next = new] = rows
  <2>1. [bids EXCEPT ![b].status = "COUNTERED", ![b].next = new]
          = [bids EXCEPT ![b] = [[bids EXCEPT ![b].status = "COUNTERED"][b]
                                   EXCEPT !.next = new]]
    BY <1>1, <1>4
  <2> QED
    BY <1>1, <1>4, <2>1
<1>6. /\ rows \in Seq(BidType) /\ DOMAIN rows = DOMAIN bids /\ Len(rows) = Len(bids)
      /\ \A c \in DOMAIN bids :
            /\ rows[c].bidder = bids[c].bidder /\ rows[c].at = bids[c].at
            /\ rows[c].status = "PENDING" => bids[c].status = "PENDING"
  <2>1. /\ row \in BidType /\ row.bidder = bids[b].bidder /\ row.at = bids[b].at
        /\ row.status = "COUNTERED"
    BY <1>4 DEF BidType, Settled
  <2> HIDE DEF row
  <2>2. rows \in [1..Len(bids) -> BidType]
    BY <1>1, <1>4, <2>1
  <2>3. rows \in Seq(BidType) /\ Len(rows) = Len(bids)
    BY <1>4, <2>2
  <2> QED
    BY <1>4, <2>1, <2>2, <2>3
<1>7. bids' = Append(rows, NewBid(bids[b].bidder, dir))
  BY <1>3, <1>5
<1>8. bids[b].bidder \in Bidders
  BY <1>4 DEF BidType
<1> HIDE DEF rows
<1>9. \A c \in DOMAIN bids : rows[c].bidder = bids[b].bidder => rows[c].status # "PENDING"
  <2>1. \A c \in DOMAIN bids :
           bids[c].bidder = bids[b].bidder => bids[c].status # "PENDING"
    BY <1>3 DEF OpenOf, Open
  <2> QED
    BY <1>6, <2>1
<1>10. BidsGoOn
  BY <1>1, <1>6, <1>7, <1>8, <1>9, NewGoesOn
<1>11. ask' \in [Askers -> AskType] /\ Answering'
  BY <1>1, <1>10, AnsweredKeeps DEF CounterBid
<1> QED
  BY <1>1, <1>10, <1>11, Steady DEF CounterBid, TypeOK, BidsGoOn

LEMMA AnswerBidInv ==
    ASSUME BidsInv, NEW s \in Askers, AnswerBid(s)
    PROVE  BidsInv'
<1>1. TypeOK /\ Answering
  BY DEF BidsInv
<1>2. PICK status \in Settled : bids' = Mark(bids, {ask[s].bid}, status)
  BY DEF AnswerBid, Writing, Settled
<1>3. BidsGoOn /\ DOMAIN bids' = DOMAIN bids
  BY <1>1, <1>2, MarkGoesOn
<1>4. ask' \in [Askers -> AskType] /\ Answering'
  BY <1>1, <1>3, AnsweredKeeps DEF AnswerBid
<1> QED
  BY <1>1, <1>3, <1>4, Steady DEF AnswerBid, TypeOK

(* The sweep's read and its write, by id. *)
LEMMA SweepInv ==
    ASSUME BidsInv, SweepFind \/ SweepWrite
    PROVE  BidsInv'
<1>1. TypeOK /\ Answering /\ ask' = ask /\ faults' = faults
      /\ UNCHANGED <<listingVars, closerVars>>
  BY DEF BidsInv, SweepFind, SweepWrite
<1>2. BidsGoOn /\ DOMAIN bids' = DOMAIN bids
  <2>1. CASE SweepFind
    BY <1>1, <2>1, SameGoesOn DEF SweepFind
  <2>2. CASE SweepWrite
    BY <1>1, <2>2, MarkGoesOn DEF SweepWrite, Settled
  <2> QED
    BY <2>1, <2>2
<1>3. sweep' \subseteq DOMAIN bids'
  BY <1>2 DEF SweepFind, SweepWrite, Open
<1> QED
  BY <1>1, <1>2, <1>3, Steady DEF TypeOK, Answering

(* The listing comes and goes; a new take-down is not processed yet.       *)
LEMMA ListingInv ==
    ASSUME BidsInv, TakeDown \/ Restore
    PROVE  BidsInv'
<1>1. /\ UNCHANGED <<processed, failed, closer, bids, ask, sweep, faults>>
      /\ active' \in BOOLEAN
      /\ takeDowns' \in 0..MaxTakeDowns /\ takeDowns <= takeDowns'
      /\ takeDowns \in Nat
  <2>1. TypeOK /\ UNCHANGED <<processed, failed, closer, bids, ask, sweep, faults>>
    <3>1. CASE TakeDown
      BY <3>1 DEF BidsInv, TakeDown, closerVars
    <3>2. CASE Restore
      BY <3>2 DEF BidsInv, Restore, closerVars
    <3> QED
      BY <3>1, <3>2
  <2>2. active' \in BOOLEAN
    BY Zenon DEF TakeDown, Restore
  <2>3. /\ takeDowns \in 0..MaxTakeDowns
        /\ \/ takeDowns < MaxTakeDowns /\ takeDowns' = takeDowns + 1
           \/ takeDowns' = takeDowns
    BY <2>1 DEF TypeOK, TakeDown, Restore
  <2> QED
    BY <2>1, <2>2, <2>3, PriceBidsAssumption
<1>2. TypeOK'
  BY <1>1 DEF BidsInv, TypeOK
<1>3. Open' = Open /\ \A e : ClosedBefore(e)' = ClosedBefore(e)
  BY <1>1 DEF ClosedBefore, Open
<1>4. Answering' /\ OnePerBidder' /\ AllClosed'
  BY <1>1, <1>3 DEF BidsInv, Answering, OnePerBidder, AllClosed
<1>5. Closing'
  <2>1. closer # Idle => closer.event \in 1..takeDowns'
    BY <1>1 DEF BidsInv, Closing
  <2> QED
    BY <1>1, <1>3, <2>1 DEF BidsInv, Closing
<1> QED
  BY <1>2, <1>4, <1>5 DEF BidsInv

(* What the steps of the closer leave alone.                               *)
LEMMA CloserOnly ==
    ASSUME BidsInv, UNCHANGED <<listingVars, ask, sweep>>, BidsGoOn,
           DOMAIN bids' = DOMAIN bids, faults' \in 0..MaxFaults,
           processed' \subseteq 1..takeDowns, failed' \subseteq 1..takeDowns,
           closer' \in [pc : {"find", "write", "save"}, event : Events,
                        list : SUBSET DOMAIN bids] \union {Idle},
           Closing', AllClosed'
    PROVE  BidsInv'
<1>1. TypeOK /\ Answering /\ OnePerBidder
  BY DEF BidsInv
<1>2. OnePerBidder'
  BY <1>1, GoOnKeeps
<1>3. bids' \in Seq(BidType) /\ Len(bids') <= MaxBids
  BY DEF BidsGoOn
<1>4. TypeOK'
  BY <1>1, <1>3 DEF TypeOK, listingVars
<1> QED
  BY <1>1, <1>2, <1>4 DEF BidsInv, Answering

LEMMA DeliverInv ==
    ASSUME BidsInv, Deliver
    PROVE  BidsInv'
<1>1. TypeOK /\ AllClosed /\ BidsGoOn /\ DOMAIN bids' = DOMAIN bids
      /\ UNCHANGED <<active, takeDowns, processed, failed, bids, ask, sweep, faults>>
  BY SameGoesOn DEF BidsInv, Deliver, listingVars
<1>2. PICK e \in 1..takeDowns : closer' = [pc |-> "find", event |-> e, list |-> {}]
  BY DEF Deliver
<1>3. closer' \in [pc : {"find", "write", "save"}, event : Events, list : SUBSET DOMAIN bids]
  BY <1>1, <1>2, PriceBidsAssumption DEF TypeOK, Events
<1>4. Closing'
  BY <1>1, <1>2 DEF Closing
<1>5. AllClosed'
  BY <1>1 DEF AllClosed, ClosedBefore, Open
<1> QED
  BY <1>1, <1>3, <1>4, <1>5, CloserOnly DEF TypeOK, listingVars

LEMMA CloseFindInv ==
    ASSUME BidsInv, CloseFind
    PROVE  BidsInv'
<1>1. TypeOK /\ AllClosed /\ Closing /\ BidsGoOn /\ DOMAIN bids' = DOMAIN bids
      /\ UNCHANGED <<active, takeDowns, processed, failed, bids, ask, sweep, faults>>
  BY SameGoesOn DEF BidsInv, CloseFind, listingVars
<1>2. closer \in [pc : {"find", "write", "save"}, event : Events, list : SUBSET DOMAIN bids]
  BY <1>1 DEF TypeOK, CloseFind, Idle
<1>3. PICK pc \in {"save", "write"} :
        /\ closer' = [[closer EXCEPT !.list = Open] EXCEPT !.pc = pc]
        /\ pc = "save" => Open = {}
  BY DEF CloseFind
<1>4. /\ closer' \in [pc : {"find", "write", "save"}, event : Events, list : SUBSET DOMAIN bids]
      /\ closer'.event = closer.event /\ closer'.list = Open /\ closer'.pc = pc
  BY <1>2, <1>3 DEF Open
<1>5. closer.event \in 1..takeDowns
  BY <1>1 DEF Closing, CloseFind, Idle
<1>6. Closing'
  BY <1>1, <1>3, <1>4, <1>5 DEF Closing, ClosedBefore, Open
<1>7. AllClosed'
  BY <1>1 DEF AllClosed, ClosedBefore, Open
<1> QED
  BY <1>1, <1>4, <1>6, <1>7, CloserOnly DEF TypeOK, listingVars

LEMMA CloseWriteInv ==
    ASSUME BidsInv, CloseWrite
    PROVE  BidsInv'
<1>1. TypeOK /\ OnePerBidder /\ AllClosed /\ Closing
      /\ UNCHANGED <<active, takeDowns, processed, failed, ask, sweep, faults>>
      /\ bids' = Mark(bids, closer.list, "DECLINED")
  BY DEF BidsInv, CloseWrite, listingVars
<1>2. BidsGoOn /\ DOMAIN bids' = DOMAIN bids /\ bids \in Seq(BidType)
  BY <1>1, MarkGoesOn DEF Settled, TypeOK
<1>3. closer \in [pc : {"find", "write", "save"}, event : Events, list : SUBSET DOMAIN bids]
  BY <1>1 DEF TypeOK, CloseWrite, Idle
<1>4. closer' = [[closer EXCEPT !.list = {}] EXCEPT !.pc = "save"]
  BY DEF CloseWrite
<1>5. /\ closer' \in [pc : {"find", "write", "save"}, event : Events, list : SUBSET DOMAIN bids]
      /\ closer'.event = closer.event /\ closer'.pc = "save"
  BY <1>3, <1>4
<1>6. PICK e \in 1..takeDowns :
        /\ e = closer.event
        /\ e \notin failed => \A b \in Open \ closer.list : bids[b].at >= e
  BY <1>1 DEF Closing, CloseWrite, Idle
<1>7. e \notin failed => ClosedBefore(e)'
  <2> SUFFICES ASSUME e \notin failed, NEW b \in Open'
               PROVE  bids'[b].at >= e
    BY DEF ClosedBefore
  <2>1. b \in DOMAIN bids /\ bids'[b].status = "PENDING"
    BY <1>2 DEF Open
  <2>2. b \notin closer.list /\ bids[b].status = "PENDING" /\ bids'[b].at = bids[b].at
    BY <1>1, <1>2, <2>1, MarkKeeps DEF Settled
  <2> QED
    BY <1>6, <2>1, <2>2 DEF Open
<1>8. Closing'
  <2>1. closer'.event = e /\ closer'.pc = "save" /\ failed' = failed /\ takeDowns' = takeDowns
    BY <1>1, <1>5, <1>6
  <2>2. e \notin failed => \A b \in Open' : bids'[b].at >= e
    BY <1>7 DEF ClosedBefore
  <2> QED
    BY <2>1, <2>2 DEF Closing, ClosedBefore
<1>9. AllClosed'
  <2>1. \A d \in processed \ failed : d \in Int /\ d <= takeDowns
    BY <1>1 DEF TypeOK
  <2> QED
    BY <1>1, <1>2, <2>1, GoOnKeeps DEF AllClosed
<1> QED
  BY <1>1, <1>2, <1>5, <1>8, <1>9, CloserOnly DEF TypeOK, listingVars

(* A closing that throws is a fault: its event is among the failed.        *)
LEMMA CloseFailsInv ==
    ASSUME BidsInv, CloseFails
    PROVE  BidsInv'
<1>1. TypeOK /\ AllClosed /\ Closing /\ BidsGoOn /\ DOMAIN bids' = DOMAIN bids
      /\ UNCHANGED <<active, takeDowns, processed, bids, ask, sweep>>
  BY SameGoesOn DEF BidsInv, CloseFails, listingVars
<1>2. closer \in [pc : {"find", "write", "save"}, event : Events, list : SUBSET DOMAIN bids]
  BY <1>1 DEF TypeOK, CloseFails, Idle
<1>3. /\ closer' = [[closer EXCEPT !.list = {}] EXCEPT !.pc = "save"]
      /\ failed' = failed \union {closer.event}
  BY DEF CloseFails
<1>4. /\ closer' \in [pc : {"find", "write", "save"}, event : Events, list : SUBSET DOMAIN bids]
      /\ closer'.event = closer.event
  BY <1>2, <1>3
<1>5. closer.event \in 1..takeDowns
  BY <1>1 DEF Closing, CloseFails, Idle
<1>6. Closing'
  BY <1>1, <1>3, <1>4, <1>5 DEF Closing
<1>7. AllClosed'
  BY <1>1, <1>3 DEF AllClosed, ClosedBefore, Open
<1>8. faults' \in 0..MaxFaults /\ failed' \subseteq 1..takeDowns
  BY <1>1, <1>3, <1>5, PriceBidsAssumption DEF TypeOK, CloseFails
<1> QED
  BY <1>1, <1>4, <1>6, <1>7, <1>8, CloserOnly DEF TypeOK, listingVars

LEMMA SaveProcessedInv ==
    ASSUME BidsInv, SaveProcessed
    PROVE  BidsInv'
<1>1. TypeOK /\ AllClosed /\ Closing /\ BidsGoOn /\ DOMAIN bids' = DOMAIN bids
      /\ UNCHANGED <<active, takeDowns, failed, bids, ask, sweep, faults>>
      /\ closer' = Idle /\ processed' = processed \union {closer.event}
  BY SameGoesOn DEF BidsInv, SaveProcessed, listingVars
<1>2. /\ closer.event \in 1..takeDowns
      /\ closer.event \notin failed => ClosedBefore(closer.event)
  BY <1>1 DEF Closing, SaveProcessed, Idle
<1>3. Closing'
  BY <1>1 DEF Closing
<1>4. AllClosed'
  BY <1>1, <1>2 DEF AllClosed, ClosedBefore, Open
<1> QED
  BY <1>1, <1>2, <1>3, <1>4, CloserOnly DEF TypeOK, listingVars

LEMMA CrashInv ==
    ASSUME BidsInv, Crash
    PROVE  BidsInv'
<1>1. TypeOK /\ OnePerBidder /\ AllClosed
      /\ UNCHANGED <<active, takeDowns, processed, failed, bids>>
      /\ closer' = Idle /\ ask' = [s \in Askers |-> Idle] /\ sweep' = {}
      /\ faults' \in 0..MaxFaults
  BY PriceBidsAssumption DEF BidsInv, TypeOK, Crash, listingVars
<1>2. TypeOK'
  BY <1>1 DEF TypeOK, AskType
<1>3. Answering' /\ Closing'
  BY <1>1 DEF Answering, Closing
<1>4. OnePerBidder' /\ AllClosed'
  BY <1>1 DEF OnePerBidder, AllClosed, ClosedBefore, Open
<1> QED
  BY <1>2, <1>3, <1>4 DEF BidsInv

LEMMA BidsInitInv == Init => BidsInv
<1> SUFFICES ASSUME Init PROVE BidsInv
  OBVIOUS
<1>1. TypeOK
  BY PriceBidsAssumption DEF Init, TypeOK, AskType
<1>2. Answering /\ Closing
  BY DEF Init, Answering, Closing
<1>3. OnePerBidder /\ AllClosed
  BY DEF Init, OnePerBidder, AllClosed, Open
<1> QED
  BY <1>1, <1>2, <1>3 DEF BidsInv

LEMMA BidsNextInv ==
    ASSUME BidsInv, [Next]_vars
    PROVE  BidsInv'
<1>1. ASSUME NEW s \in Askers, NEW u \in Bidders, AskCreate(s, u) PROVE BidsInv'
  BY <1>1, AskCreateInv
<1>2. ASSUME NEW s \in Askers, NEW op \in Answers, NEW b \in BidIds, AskAnswer(s, op, b)
      PROVE  BidsInv'
  BY <1>2, AskAnswerInv
<1>3. ASSUME NEW s \in Askers, AskStep(s) PROVE BidsInv'
  BY <1>3, CheckListingInv, CreateBidInv, AnswerBidInv, CounterBidInv, ConflictInv
     DEF AskStep
<1>4. CASE SweepFind \/ SweepWrite
  BY <1>4, SweepInv
<1>5. CASE TakeDown \/ Restore
  BY <1>5, ListingInv
<1>6. CASE CloserStep \/ CloseFails
  BY <1>6, DeliverInv, CloseFindInv, CloseWriteInv, SaveProcessedInv, CloseFailsInv
     DEF CloserStep
<1>7. CASE Crash
  BY <1>7, CrashInv
<1>8. CASE UNCHANGED vars
  BY <1>8 DEF vars, listingVars, closerVars, BidsInv, TypeOK, Answering, OnePerBidder,
              Closing, AllClosed, ClosedBefore, Open
<1> QED
  BY <1>1, <1>2, <1>3, <1>4, <1>5, <1>6, <1>7, <1>8 DEF Next

-----------------------------------------------------------------------------
(* A buyer has one number on a listing at a time, however many requests    *)
(* answer, counter and withdraw at once, and whatever the sweep and the    *)
(* closer write by id after them (price-bids.service.ts:78-80).            *)
THEOREM OneNumberAtATime == Spec => []OneOpenBid
<1>1. ASSUME BidsInv PROVE OneOpenBid
  <2>1. ASSUME NEW u \in Bidders PROVE Cardinality(OpenOf(u)) <= 1
    <3>1. CASE OpenOf(u) = {}
      BY <3>1, FS_EmptySet
    <3>2. CASE OpenOf(u) # {}
      <4>1. PICK b \in OpenOf(u) : TRUE
        BY <3>2
      <4>2. OpenOf(u) = {b}
        BY <1>1, <4>1 DEF BidsInv, OnePerBidder, OpenOf
      <4>3. Cardinality({b}) = 1
        BY FS_Singleton
      <4> QED
        BY <4>2, <4>3
    <3> QED
      BY <3>1, <3>2
  <2> QED
    BY <1>1, <2>1 DEF BidsInv, OneOpenBid
<1> QED
  BY <1>1, BidsInitInv, BidsNextInv, PTL DEF Spec

(* A take-down that was seen to leaves no bid open that was made before    *)
(* it, though the closer works from a list, may be delivered again, and    *)
(* others write meanwhile (close-bids-on-listing-closed.listener.ts).      *)
THEOREM TakeDownsClose == Spec => []TakeDownClosesBids
<1>1. ASSUME BidsInv PROVE TakeDownClosesBids
  <2> SUFFICES ASSUME NEW e \in processed \ failed, NEW b \in DOMAIN bids,
                      bids[b].at < e, bids[b].status = "PENDING"
               PROVE  FALSE
    BY DEF TakeDownClosesBids
  <2>1. bids[b].at >= e /\ e \in Int /\ bids[b] \in BidType
    BY <1>1 DEF BidsInv, AllClosed, ClosedBefore, Open, TypeOK
  <2>2. bids[b].at \in Int
    BY <2>1 DEF BidType
  <2> QED
    BY <2>1, <2>2
<1> QED
  BY <1>1, BidsInitInv, BidsNextInv, PTL DEF Spec
=============================================================================
